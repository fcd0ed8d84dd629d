----------------------------- MODULE BridgeProofs -----------------------------
(***************************************************************************)
(* First the facts that all proofs about the bridge cite, about the        *)
(* arithmetic of Amounts (crates/currency/src/amount.rs); then every       *)
(* operation of the vault registry maps a consistent registry to a         *)
(* consistent registry; then the bridge keeps its types and a consistent   *)
(* registry, for every set of vaults, users, amounts, prices and           *)
(* parameters; and last, new obligations of a vault are collateralised:    *)
(* the one operation that makes a vault back more tokens checks the        *)
(* vault's capacity, and what the call does after it takes no collateral   *)
(* away.                                                                   *)
(***************************************************************************)
EXTENDS Bridge, DataTheorems, SequenceTheorems

(* Products and rounded quotients of balances are balances.                *)
LEMMA MulNat ==
    ASSUME NEW x \in Nat, NEW factor \in Nat
    PROVE  /\ checked_mul(x, factor) \in Nat
           /\ mul_rounding_up(x, factor) \in Nat
           /\ mul_rounding_nearest(x, factor) \in Nat
BY DIVAssumption, SMT DEF checked_mul, mul_rounding_up, mul_rounding_nearest

LEMMA DivNat ==
    ASSUME NEW x \in Nat, NEW factor \in Nat \ {0}
    PROVE  checked_div(x, factor) \in Nat
BY DIVAssumption, SMT DEF checked_div

(* A fee at a rate of at most one is at most the amount it is taken from,  *)
(* rounding to nearest included (fee pallet, get_issue_fee).               *)
LEMMA FeeBounded ==
    ASSUME NEW x \in Nat, NEW factor \in 0 .. DIV
    PROVE  mul_rounding_nearest(x, factor) \in 0 .. x
BY DIVAssumption, SMT DEF mul_rounding_nearest

(* A share of an amount of collateral is at most all of it.                *)
LEMMA ShareBounded ==
    ASSUME NEW c \in Nat, NEW n \in Nat, NEW d \in Nat, n <= d
    PROVE  calculate_collateral(c, n, d) \in 0 .. c
BY SMT DEF calculate_collateral

(* The share of all the tokens is all the collateral: no dust is left.     *)
LEMMA ShareOfAll ==
    ASSUME NEW c \in Nat, NEW n \in Nat
    PROVE  calculate_collateral(c, n, n) = c
BY SMT DEF calculate_collateral

-----------------------------------------------------------------------------
(* The inductive invariant of the registry                                 *)

(* What is locked on the vault's account is its stake and the collateral   *)
(* held for its to-be-redeemed tokens.                                     *)
Locked(w) == w.reserved = w.stake + w.liquidated_collateral

(* Collateral is held only for to-be-redeemed tokens.                      *)
NotStranded(w) == w.to_be_redeemed = 0 => w.liquidated_collateral = 0

Ordered(w) ==
    /\ ~is_liquidated(w) =>
          /\ w.to_be_redeemed <= w.issued
          /\ w.liquidated_collateral = 0
    /\ is_liquidated(w) =>
          /\ w.issued = 0 /\ w.to_be_issued = 0
          /\ w.to_be_replaced = 0 /\ w.replace_collateral = 0
          /\ w.reward_stake = 0
    /\ w.status = "none" =>
          /\ w.issued = 0 /\ w.to_be_issued = 0 /\ w.stake = 0
          /\ w.replace_collateral = 0 /\ w.active_replace_collateral = 0

Sound(w) == w \in Vault /\ Locked(w) /\ Ordered(w)

(* The part of the invariant that holds inside an operation, too.          *)
RegistrySound(r) ==
    /\ r \in Registry
    /\ \A v \in Vaults : Sound(r.vault[v])
    /\ r.lv.reserved = r.lv.collateral

RegistryOK(r) ==
    /\ RegistrySound(r)
    /\ \A v \in Vaults : NotStranded(r.vault[v])

(* A registry in which t tokens that v is to redeem are being settled: if  *)
(* they are the last ones, their collateral is gone already.               *)
Settling(r, v, t) ==
    /\ RegistrySound(r)
    /\ \A u \in Vaults \ {v} : NotStranded(r.vault[u])
    /\ r.vault[v].to_be_redeemed = t => r.vault[v].liquidated_collateral = 0

ParamsOK == params \in Params /\ exchangeRate \in Rates

-----------------------------------------------------------------------------
(* Replacing a vault, and the parts of a registry                          *)

LEMMA SetVaultType ==
    ASSUME NEW r \in Registry, NEW v \in Vaults, NEW w \in Vault
    PROVE  /\ set_vault(r, v, w) \in Registry
           /\ set_vault(r, v, w).vault = [r.vault EXCEPT ![v] = w]
           /\ set_vault(r, v, w).vault[v] = w
           /\ set_vault(r, v, w).lv = r.lv
           /\ set_vault(r, v, w).total = r.total
           /\ set_vault(r, v, w).griefing = r.griefing
BY DEF set_vault, Registry

LEMMA SetVaultSound ==
    ASSUME NEW r, RegistrySound(r), NEW v \in Vaults, NEW w, Sound(w)
    PROVE  RegistrySound(set_vault(r, v, w))
<1>1. r \in Registry /\ w \in Vault
  BY DEF RegistrySound, Sound
<1>. DEFINE s == set_vault(r, v, w)
<1>2. /\ s \in Registry
      /\ s.vault = [r.vault EXCEPT ![v] = w]
      /\ s.lv = r.lv
  BY <1>1, SetVaultType
<1>3. r.vault \in [Vaults -> Vault]
  BY <1>1 DEF Registry
<1>4. ASSUME NEW u \in Vaults PROVE Sound(s.vault[u])
  BY <1>2, <1>3 DEF RegistrySound
<1>. QED
  BY <1>2, <1>4 DEF RegistrySound

LEMMA SetVaultOK ==
    ASSUME NEW r, RegistryOK(r), NEW v \in Vaults, NEW w, Sound(w), NotStranded(w)
    PROVE  RegistryOK(set_vault(r, v, w))
<1>. DEFINE s == set_vault(r, v, w)
<1>1. RegistrySound(s)
  BY SetVaultSound DEF RegistryOK
<1>2. r \in Registry /\ w \in Vault
  BY DEF RegistryOK, RegistrySound, Sound
<1>3. s.vault = [r.vault EXCEPT ![v] = w] /\ r.vault \in [Vaults -> Vault]
  BY <1>2, SetVaultType DEF Registry
<1>4. ASSUME NEW u \in Vaults PROVE NotStranded(s.vault[u])
  BY <1>3 DEF RegistryOK
<1>. QED
  BY <1>1, <1>4 DEF RegistryOK

LEMMA VaultsTyped ==
    ASSUME NEW r, RegistrySound(r), NEW v \in Vaults
    PROVE  /\ r \in Registry /\ r.vault \in [Vaults -> Vault]
           /\ r.vault[v] \in Vault /\ Locked(r.vault[v]) /\ Ordered(r.vault[v])
           /\ r.lv \in SystemVault /\ r.total \in Nat
           /\ r.griefing \in [Accounts -> Nat] /\ v \in Accounts
BY DEF RegistrySound, Sound, Registry, Accounts

LEMMA ParamsPositive ==
    ASSUME ParamsOK
    PROVE  /\ params.secure \in Nat \ {0}
           /\ params.liquidation \in Nat \ {0}
           /\ params.ceiling \in Nat
           /\ exchangeRate \in Nat \ {0}
<1>1. /\ params.secure \in SecureThresholds
      /\ params.liquidation \in LiquidationThresholds
      /\ params.ceiling \in Ceilings
      /\ exchangeRate \in Rates
  BY DEF ParamsOK, Params
<1>. QED
  BY <1>1, RegistryAssumption

LEMMA SecureThreshold ==
    ASSUME ParamsOK, NEW w \in Vault
    PROVE  get_secure_threshold(w) \in Nat \ {0}
<1>1. w.secure_collateral_threshold \in Nat
  BY DEF Vault
<1>. QED
  BY <1>1, ParamsPositive DEF get_secure_threshold, max

LEMMA UpdateRewardStake ==
    ASSUME ParamsOK, NEW w \in Vault
    PROVE  \E n \in Nat : /\ update_reward_stake(w) = [w EXCEPT !.reward_stake = n]
                          /\ w.status # "accepting" => n = 0
<1>1. get_secure_threshold(w) \in Nat \ {0}
  BY SecureThreshold
<1>2. checked_div(w.stake, get_secure_threshold(w)) \in Nat
  BY <1>1, DivNat DEF Vault
<1>. QED
  BY <1>2 DEF update_reward_stake

-----------------------------------------------------------------------------
(* Token counters                                                          *)

(* A change of the liquidation vault that keeps its collateral locked.     *)
LEMMA SetLiquidationVault ==
    ASSUME NEW r, RegistryOK(r), NEW l \in SystemVault, l.reserved = l.collateral
    PROVE  RegistryOK([r EXCEPT !.lv = l])
BY DEF RegistryOK, RegistrySound, Registry

LEMMA DecreaseToBeIssuedOK ==
    ASSUME NEW r, RegistryOK(r), NEW v \in Vaults, NEW amount \in Nat,
           NEW s \in decrease_to_be_issued(r, v, amount)
    PROVE  RegistryOK(s)
<1>. DEFINE w == r.vault[v]
<1>0. w \in Vault /\ Sound(w) /\ NotStranded(w) /\ r.lv \in SystemVault /\ r \in Registry
      /\ r.lv.reserved = r.lv.collateral
  BY VaultsTyped DEF RegistryOK, RegistrySound
<1>1. CASE is_liquidated(w)
  <2>. DEFINE l == [r.lv EXCEPT !.to_be_issued = @ - amount]
  <2>1. s = [r EXCEPT !.lv = l] /\ l \in SystemVault /\ l.reserved = l.collateral
    BY <1>0, <1>1 DEF decrease_to_be_issued, Try, SystemVault, Registry
  <2>. HIDE DEF l
  <2>. QED BY <2>1, SetLiquidationVault
<1>2. CASE ~is_liquidated(w)
  <2>. DEFINE x == [w EXCEPT !.to_be_issued = @ - amount]
  <2>1. s = set_vault(r, v, x) /\ amount <= w.to_be_issued
    BY <1>2 DEF decrease_to_be_issued, Try
  <2>2. /\ x \in Vault /\ x.status = w.status /\ x.issued = w.issued
        /\ x.to_be_issued = w.to_be_issued - amount /\ x.to_be_redeemed = w.to_be_redeemed
        /\ x.to_be_replaced = w.to_be_replaced
        /\ x.replace_collateral = w.replace_collateral
        /\ x.active_replace_collateral = w.active_replace_collateral
        /\ x.liquidated_collateral = w.liquidated_collateral /\ x.stake = w.stake
        /\ x.reward_stake = w.reward_stake /\ x.reserved = w.reserved
    BY <1>0, <2>1 DEF Sound, Vault
  <2>3. s = set_vault(r, v, x)
    BY <2>1
  <2>. HIDE DEF x
  <2>4. Sound(x) /\ NotStranded(x)
    BY <1>0, <1>2, <2>1, <2>2 DEF Vault, Sound, Locked, NotStranded, Ordered, is_liquidated
  <2>. QED BY <2>3, <2>4, SetVaultOK
<1>. QED BY <1>1, <1>2

LEMMA IncreaseIssuedOK ==
    ASSUME NEW r, RegistryOK(r), NEW v \in Vaults, NEW amount \in Nat,
           r.vault[v].status # "none" \/ amount = 0
    PROVE  RegistryOK(increase_issued(r, v, amount))
<1>. DEFINE w == r.vault[v]
<1>0. w \in Vault /\ Sound(w) /\ NotStranded(w) /\ r.lv \in SystemVault /\ r \in Registry
      /\ r.lv.reserved = r.lv.collateral
  BY VaultsTyped DEF RegistryOK, RegistrySound
<1>1. CASE is_liquidated(w)
  <2>. DEFINE l == [r.lv EXCEPT !.issued = @ + amount]
  <2>1. /\ increase_issued(r, v, amount) = [r EXCEPT !.lv = l]
        /\ l \in SystemVault /\ l.reserved = l.collateral
    BY <1>0, <1>1 DEF increase_issued, SystemVault, Registry
  <2>. HIDE DEF l
  <2>. QED BY <2>1, SetLiquidationVault
<1>2. CASE ~is_liquidated(w)
  <2>. DEFINE x == [w EXCEPT !.issued = @ + amount]
  <2>1. /\ x \in Vault /\ x.status = w.status /\ x.issued = w.issued + amount
        /\ x.to_be_issued = w.to_be_issued /\ x.to_be_redeemed = w.to_be_redeemed
        /\ x.to_be_replaced = w.to_be_replaced
        /\ x.replace_collateral = w.replace_collateral
        /\ x.active_replace_collateral = w.active_replace_collateral
        /\ x.liquidated_collateral = w.liquidated_collateral /\ x.stake = w.stake
        /\ x.reward_stake = w.reward_stake /\ x.reserved = w.reserved
    BY <1>0 DEF Sound, Vault
  <2>2. increase_issued(r, v, amount) = set_vault(r, v, x)
    BY <1>2 DEF increase_issued
  <2>. HIDE DEF x
  <2>3. Sound(x) /\ NotStranded(x)
    BY <1>0, <1>2, <2>1 DEF Vault, Sound, Locked, NotStranded, Ordered, is_liquidated
  <2>. QED BY <2>2, <2>3, SetVaultOK
<1>. QED BY <1>1, <1>2

LEMMA ExecuteIssueTokensOK ==
    ASSUME NEW r, RegistryOK(r), NEW v \in Vaults, NEW amount \in Nat,
           NEW s \in execute_issue_tokens(r, v, amount)
    PROVE  RegistryOK(s)
<1>1. PICK q \in decrease_to_be_issued(r, v, amount) : s = increase_issued(q, v, amount)
  BY DEF execute_issue_tokens
<1>2. RegistryOK(q)
  BY DecreaseToBeIssuedOK
<1>3. q.vault[v].status # "none" \/ amount = 0
  <2>1. PICK w \in Vault : w = r.vault[v] /\ Ordered(w)
    BY VaultsTyped DEF RegistryOK
  <2>2. r \in Registry
    BY DEF RegistryOK, RegistrySound
  <2>3. CASE is_liquidated(w)
    BY <1>1, <2>1, <2>2, <2>3 DEF decrease_to_be_issued, Try, Registry, is_liquidated
  <2>4. CASE ~is_liquidated(w)
    <3>. DEFINE x == [w EXCEPT !.to_be_issued = @ - amount]
    <3>1. q = set_vault(r, v, x) /\ amount <= w.to_be_issued
      BY <1>1, <2>1, <2>4 DEF decrease_to_be_issued, Try
    <3>2. x \in Vault /\ x.status = w.status
      BY <3>1 DEF Vault
    <3>. HIDE DEF x
    <3>3. q.vault[v] = x
      BY <2>2, <3>1, <3>2, SetVaultType
    <3>. QED BY <2>1, <3>1, <3>2, <3>3 DEF Ordered, Vault
  <2>. QED BY <2>3, <2>4
<1>. QED
  BY <1>1, <1>2, <1>3, IncreaseIssuedOK

(* Settling tokens changes nothing but the vault's own counters.           *)
LEMMA DecreaseToBeRedeemed ==
    ASSUME NEW r, RegistrySound(r), NEW v \in Vaults, NEW amount \in Nat,
           NEW s \in decrease_to_be_redeemed(r, v, amount)
    PROVE  /\ amount <= r.vault[v].to_be_redeemed
           /\ RegistrySound(s)
           /\ s.vault = [r.vault EXCEPT ![v] = [r.vault[v] EXCEPT !.to_be_redeemed = @ - amount]]
<1>. DEFINE w == r.vault[v]
            x == [w EXCEPT !.to_be_redeemed = @ - amount]
            q == set_vault(r, v, x)
<1>0. /\ r \in Registry /\ r.vault \in [Vaults -> Vault]
      /\ w \in Vault /\ Locked(w) /\ Ordered(w) /\ r.lv \in SystemVault
      /\ r.lv.reserved = r.lv.collateral
  BY VaultsTyped DEF RegistrySound
<1>1. amount <= w.to_be_redeemed
  BY DEF decrease_to_be_redeemed, Try
<1>2. x \in Vault
  BY <1>0, <1>1 DEF Vault
<1>3. Sound(x)
  BY <1>0, <1>1, <1>2 DEF Vault, Sound, Locked, Ordered, is_liquidated
<1>4. RegistrySound(q) /\ q.vault = [r.vault EXCEPT ![v] = x] /\ q.lv = r.lv
  BY <1>0, <1>2, <1>3, SetVaultSound, SetVaultType
<1>5. CASE is_liquidated(w)
  <2>. DEFINE l == [r.lv EXCEPT !.to_be_redeemed = @ - amount]
  <2>1. amount <= r.lv.to_be_redeemed /\ s = [q EXCEPT !.lv.to_be_redeemed = @ - amount]
    BY <1>5 DEF decrease_to_be_redeemed, Try
  <2>2. l \in SystemVault /\ l.reserved = l.collateral
    BY <1>0, <2>1 DEF SystemVault
  <2>3. s = [q EXCEPT !.lv = l]
    BY <1>4, <2>1 DEF RegistrySound, Registry
  <2>4. s \in Registry /\ s.vault = q.vault /\ s.lv = l
    BY <1>4, <2>2, <2>3 DEF RegistrySound, Registry
  <2>. QED BY <1>1, <1>4, <2>2, <2>4 DEF RegistrySound
<1>6. CASE ~is_liquidated(w)
  BY <1>1, <1>4, <1>6 DEF decrease_to_be_redeemed, Try
<1>. QED BY <1>5, <1>6

LEMMA ExecuteRedeemTokens ==
    ASSUME NEW r, RegistrySound(r), NEW v \in Vaults, NEW amount \in Nat,
           NEW s \in execute_redeem_tokens(r, v, amount)
    PROVE  /\ amount <= r.vault[v].to_be_redeemed
           /\ RegistrySound(s)
           /\ \A u \in Vaults \ {v} : s.vault[u] = r.vault[u]
           /\ s.vault[v].status = r.vault[v].status
           /\ s.vault[v].to_be_redeemed = r.vault[v].to_be_redeemed - amount
           /\ s.vault[v].liquidated_collateral = r.vault[v].liquidated_collateral
<1>. DEFINE w == r.vault[v]
            x == [w EXCEPT !.to_be_redeemed = @ - amount]
<1>1. PICK q \in decrease_to_be_redeemed(r, v, amount) : s \in decrease_issued(q, v, amount)
  BY DEF execute_redeem_tokens
<1>2. /\ amount <= w.to_be_redeemed
      /\ RegistrySound(q)
      /\ q.vault = [r.vault EXCEPT ![v] = x]
  BY DecreaseToBeRedeemed
<1>3. /\ w \in Vault /\ Ordered(w) /\ Locked(w) /\ r.vault \in [Vaults -> Vault]
      /\ q \in Registry /\ q.lv \in SystemVault /\ q.lv.reserved = q.lv.collateral
  BY <1>2, VaultsTyped DEF RegistrySound
<1>4. /\ q.vault[v] = x /\ x \in Vault /\ x.status = w.status
      /\ x.to_be_redeemed = w.to_be_redeemed - amount
      /\ x.liquidated_collateral = w.liquidated_collateral
      /\ x.issued = w.issued
      /\ \A u \in Vaults \ {v} : q.vault[u] = r.vault[u]
  BY <1>2, <1>3 DEF Vault
<1>5. CASE is_liquidated(w)
  <2>. DEFINE l == [q.lv EXCEPT !.issued = @ - amount]
  <2>1. amount <= q.lv.issued /\ s = [q EXCEPT !.lv.issued = @ - amount]
    BY <1>1, <1>4, <1>5 DEF decrease_issued, Try, is_liquidated
  <2>2. l \in SystemVault /\ l.reserved = l.collateral
    BY <1>3, <2>1 DEF SystemVault
  <2>3. s \in Registry /\ s.vault = q.vault /\ s.lv = l
    BY <1>3, <2>1, <2>2 DEF Registry
  <2>4. RegistrySound(s)
    BY <1>2, <2>2, <2>3 DEF RegistrySound
  <2>. QED BY <1>2, <1>4, <2>3, <2>4
<1>6. CASE ~is_liquidated(w)
  <2>. DEFINE y == [x EXCEPT !.issued = @ - amount]
  <2>1. amount <= w.issued /\ s = set_vault(q, v, y)
    BY <1>1, <1>4, <1>6 DEF decrease_issued, Try, is_liquidated
  <2>. HIDE DEF x
  <2>2. /\ y \in Vault /\ y.status = w.status
        /\ y.to_be_redeemed = w.to_be_redeemed - amount
        /\ y.liquidated_collateral = w.liquidated_collateral
    BY <1>4, <2>1 DEF Vault
  <2>3. Sound(y)
    <3>1. /\ y \in Vault /\ y.status = x.status /\ y.issued = x.issued - amount
          /\ y.to_be_issued = x.to_be_issued /\ y.to_be_redeemed = x.to_be_redeemed
          /\ y.to_be_replaced = x.to_be_replaced
          /\ y.replace_collateral = x.replace_collateral
          /\ y.active_replace_collateral = x.active_replace_collateral
          /\ y.liquidated_collateral = x.liquidated_collateral /\ y.stake = x.stake
          /\ y.reward_stake = x.reward_stake /\ y.reserved = x.reserved
      BY <1>3, <1>4, <2>1, <2>2 DEF Vault
    <3>2. /\ x \in Vault /\ x.status = w.status /\ x.issued = w.issued
          /\ x.to_be_issued = w.to_be_issued /\ x.to_be_redeemed = w.to_be_redeemed - amount
          /\ x.to_be_replaced = w.to_be_replaced
          /\ x.replace_collateral = w.replace_collateral
          /\ x.active_replace_collateral = w.active_replace_collateral
          /\ x.liquidated_collateral = w.liquidated_collateral /\ x.stake = w.stake
          /\ x.reward_stake = w.reward_stake /\ x.reserved = w.reserved
      BY <1>2, <1>3, <1>4 DEF x, Vault
    <3>. HIDE DEF y
    <3>. QED BY <1>2, <1>3, <1>6, <2>1, <3>1, <3>2 DEF Vault, Sound, Locked, Ordered, is_liquidated
  <2>4. RegistrySound(s) /\ s.vault = [q.vault EXCEPT ![v] = y]
    BY <1>2, <1>3, <2>1, <2>2, <2>3, SetVaultSound, SetVaultType
  <2>5. q.vault \in [Vaults -> Vault]
    BY <1>3 DEF Registry
  <2>. QED BY <1>2, <1>4, <2>2, <2>4, <2>5
<1>. QED BY <1>5, <1>6

LEMMA SettleOK ==
    ASSUME NEW r, NEW v \in Vaults, NEW t \in Nat, Settling(r, v, t),
           NEW s \in decrease_to_be_redeemed(r, v, t) \cup execute_redeem_tokens(r, v, t)
    PROVE  RegistryOK(s)
<1>1. RegistrySound(r) /\ r.vault \in [Vaults -> Vault] /\ r.vault[v] \in Vault
  BY VaultsTyped DEF Settling
<1>2. /\ RegistrySound(s)
      /\ \A u \in Vaults \ {v} : s.vault[u] = r.vault[u]
      /\ s.vault[v].to_be_redeemed = r.vault[v].to_be_redeemed - t
      /\ s.vault[v].liquidated_collateral = r.vault[v].liquidated_collateral
  <2>1. CASE s \in decrease_to_be_redeemed(r, v, t)
    <3>. DEFINE x == [r.vault[v] EXCEPT !.to_be_redeemed = @ - t]
    <3>1. RegistrySound(s) /\ s.vault = [r.vault EXCEPT ![v] = x]
      BY <1>1, <2>1, DecreaseToBeRedeemed
    <3>2. /\ x.to_be_redeemed = r.vault[v].to_be_redeemed - t
          /\ x.liquidated_collateral = r.vault[v].liquidated_collateral
      BY <1>1 DEF Vault
    <3>. HIDE DEF x
    <3>. QED BY <1>1, <3>1, <3>2
  <2>2. CASE s \in execute_redeem_tokens(r, v, t)
    BY <1>1, <2>2, ExecuteRedeemTokens
  <2>. QED BY <2>1, <2>2
<1>3. NotStranded(s.vault[v])
  BY <1>1, <1>2 DEF Settling, NotStranded, Vault
<1>4. ASSUME NEW u \in Vaults PROVE NotStranded(s.vault[u])
  BY <1>2, <1>3 DEF Settling
<1>. QED BY <1>2, <1>4 DEF RegistryOK

(* A vault that is not liquidated holds no collateral for its redeems.     *)
LEMMA ActiveSettling ==
    ASSUME NEW r, RegistryOK(r), NEW v \in Vaults, ~is_liquidated(r.vault[v]), NEW t \in Nat
    PROVE  Settling(r, v, t)
BY VaultsTyped DEF RegistryOK, Settling, Ordered

LEMMA TryIncreaseToBeIssuedOK ==
    ASSUME NEW r, RegistryOK(r), NEW v \in Vaults, NEW amount \in Nat,
           NEW s \in try_increase_to_be_issued_tokens(r, v, amount)
    PROVE  RegistryOK(s)
<1>. DEFINE w == r.vault[v]
            x == [w EXCEPT !.to_be_issued = @ + amount]
<1>1. is_active(w) /\ s = set_vault(r, v, x)
  BY DEF try_increase_to_be_issued_tokens, Try
<1>2. w \in Vault /\ Locked(w) /\ Ordered(w) /\ NotStranded(w)
  BY VaultsTyped DEF RegistryOK
<1>3. /\ x \in Vault /\ x.status = w.status /\ x.issued = w.issued
      /\ x.to_be_issued = w.to_be_issued + amount /\ x.to_be_redeemed = w.to_be_redeemed
      /\ x.to_be_replaced = w.to_be_replaced /\ x.replace_collateral = w.replace_collateral
      /\ x.active_replace_collateral = w.active_replace_collateral
      /\ x.liquidated_collateral = w.liquidated_collateral /\ x.stake = w.stake
      /\ x.reward_stake = w.reward_stake /\ x.reserved = w.reserved
  BY <1>2 DEF Vault
<1>. HIDE DEF x
<1>4. Sound(x) /\ NotStranded(x)
  BY <1>1, <1>2, <1>3 DEF Vault, Sound, Locked, Ordered, NotStranded, is_liquidated, is_active
<1>. QED BY <1>1, <1>4, SetVaultOK

LEMMA TryIncreaseToBeRedeemedOK ==
    ASSUME NEW r, RegistryOK(r), NEW v \in Vaults, NEW amount \in Nat,
           NEW s \in try_increase_to_be_redeemed_tokens(r, v, amount)
    PROVE  RegistryOK(s) /\ s.vault[v].status = r.vault[v].status
<1>. DEFINE w == r.vault[v]
            x == [w EXCEPT !.to_be_redeemed = @ + amount]
<1>1. is_active(w) /\ s = set_vault(r, v, x) /\ w.to_be_redeemed + amount <= w.issued
  BY DEF try_increase_to_be_redeemed_tokens, Try
<1>2. w \in Vault /\ Locked(w) /\ Ordered(w) /\ NotStranded(w) /\ r \in Registry
  BY VaultsTyped DEF RegistryOK
<1>3. Sound(x) /\ NotStranded(x) /\ x.status = w.status
  BY <1>1, <1>2 DEF Vault, Sound, Locked, Ordered, NotStranded, is_liquidated, is_active
<1>. QED BY <1>1, <1>2, <1>3, SetVaultOK, SetVaultType, ZenonT(60) DEF Sound

LEMMA TryIncreaseToBeReplacedOK ==
    ASSUME NEW r, RegistryOK(r), NEW v \in Vaults, NEW amount \in Nat,
           NEW s \in try_increase_to_be_replaced_tokens(r, v, amount)
    PROVE  RegistryOK(s)
<1>. DEFINE w == r.vault[v]
            x == [w EXCEPT !.to_be_replaced = @ + amount]
<1>1. is_active(w) /\ s = set_vault(r, v, x)
  BY DEF try_increase_to_be_replaced_tokens, Try
<1>2. w \in Vault /\ Locked(w) /\ Ordered(w) /\ NotStranded(w)
  BY VaultsTyped DEF RegistryOK
<1>3. Sound(x) /\ NotStranded(x)
  BY <1>1, <1>2 DEF Vault, Sound, Locked, Ordered, NotStranded, is_liquidated, is_active
<1>. QED BY <1>1, <1>3, SetVaultOK

(* What a replace offer gives up is at most what it has.                   *)
LEMMA UsedReplace ==
    ASSUME NEW w \in Vault, NEW amount \in Nat
    PROVE  /\ used_to_be_replaced(w, amount) \in 0 .. w.to_be_replaced
           /\ used_to_be_replaced(w, amount) <= amount
           /\ used_replace_collateral(w, amount) \in 0 .. w.replace_collateral
<1>1. w.to_be_replaced \in Nat /\ w.replace_collateral \in Nat
  BY DEF Vault
<1>2. /\ used_to_be_replaced(w, amount) \in 0 .. w.to_be_replaced
      /\ used_to_be_replaced(w, amount) <= amount
  BY <1>1 DEF used_to_be_replaced, min
<1>3. calculate_collateral(w.replace_collateral, used_to_be_replaced(w, amount), w.to_be_replaced)
         \in 0 .. w.replace_collateral
  <2>. DEFINE u == used_to_be_replaced(w, amount)
  <2>1. u \in Nat /\ u <= w.to_be_replaced
    BY <1>1, <1>2
  <2>. HIDE DEF u
  <2>2. calculate_collateral(w.replace_collateral, u, w.to_be_replaced)
           \in 0 .. w.replace_collateral
    BY <1>1, <2>1, ShareBounded
  <2>. QED BY <2>2 DEF u
<1>. QED BY <1>1, <1>2, <1>3 DEF used_replace_collateral, min

LEMMA DecreaseToBeReplacedOK ==
    ASSUME NEW r, RegistryOK(r), NEW v \in Vaults, NEW amount \in Nat
    PROVE  /\ RegistryOK(decrease_to_be_replaced_tokens(r, v, amount))
           /\ decrease_to_be_replaced_tokens(r, v, amount).vault[v]
                 = [r.vault[v] EXCEPT !.to_be_replaced
                                = @ - used_to_be_replaced(r.vault[v], amount)]
<1>. DEFINE w == r.vault[v]
            x == [w EXCEPT !.to_be_replaced = @ - used_to_be_replaced(w, amount)]
<1>1. w \in Vault /\ Locked(w) /\ Ordered(w) /\ NotStranded(w) /\ r \in Registry
  BY VaultsTyped DEF RegistryOK
<1>2. used_to_be_replaced(w, amount) \in 0 .. w.to_be_replaced
  BY <1>1, UsedReplace
<1>3. Sound(x) /\ NotStranded(x) /\ x \in Vault
  <2>1. /\ x \in Vault /\ x.status = w.status /\ x.issued = w.issued
        /\ x.to_be_issued = w.to_be_issued /\ x.to_be_redeemed = w.to_be_redeemed
        /\ x.to_be_replaced = w.to_be_replaced - used_to_be_replaced(w, amount)
        /\ x.replace_collateral = w.replace_collateral
        /\ x.active_replace_collateral = w.active_replace_collateral
        /\ x.liquidated_collateral = w.liquidated_collateral /\ x.stake = w.stake
        /\ x.reward_stake = w.reward_stake /\ x.reserved = w.reserved
    BY <1>1, <1>2 DEF Vault
  <2>. HIDE DEF x
  <2>. QED BY <1>1, <1>2, <2>1 DEF Vault, Sound, Locked, Ordered, NotStranded, is_liquidated
<1>5. decrease_to_be_replaced_tokens(r, v, amount) = set_vault(r, v, x)
  BY DEF decrease_to_be_replaced_tokens
<1>4. set_vault(r, v, x).vault[v] = x
  <2>. HIDE DEF x
  <2>1. r \in Registry /\ x \in Vault
    BY <1>1, <1>3
  <2>. QED BY <2>1 DEF set_vault, Registry
<1>6. RegistryOK(set_vault(r, v, x))
  BY <1>3, SetVaultOK
<1>. QED BY <1>3, <1>4, <1>5, <1>6

-----------------------------------------------------------------------------
(* Collateral                                                              *)

LEMMA SetVaultTwice ==
    ASSUME NEW r \in Registry, NEW v \in Vaults, NEW a \in Vault, NEW b \in Vault
    PROVE  set_vault(set_vault(r, v, a), v, b) = set_vault(r, v, b)
BY DEF set_vault, Registry

LEMMA SetTotalOK ==
    ASSUME NEW r, RegistryOK(r), NEW t \in Nat
    PROVE  RegistryOK([r EXCEPT !.total = t]) /\ [r EXCEPT !.total = t].vault = r.vault
BY DEF RegistryOK, RegistrySound, Registry

LEMMA SetGriefingOK ==
    ASSUME NEW r, RegistryOK(r), NEW g \in [Accounts -> Nat]
    PROVE  RegistryOK([r EXCEPT !.griefing = g]) /\ [r EXCEPT !.griefing = g].vault = r.vault
BY DEF RegistryOK, RegistrySound, Registry

(* A registry that differs from a consistent one in one vault only, apart  *)
(* from its total, its griefing balances and the liquidation vault.        *)
LEMMA OneVaultChanged ==
    ASSUME NEW r, RegistryOK(r), NEW v \in Vaults, NEW w, Sound(w), NotStranded(w),
           NEW s \in Registry, s.vault = [r.vault EXCEPT ![v] = w],
           s.lv.reserved = s.lv.collateral
    PROVE  RegistryOK(s)
<1>1. r.vault \in [Vaults -> Vault]
  BY DEF RegistryOK, RegistrySound, Registry
<1>2. ASSUME NEW u \in Vaults PROVE Sound(s.vault[u]) /\ NotStranded(s.vault[u])
  BY <1>1 DEF RegistryOK, RegistrySound
<1>. QED BY <1>2 DEF RegistryOK, RegistrySound

LEMMA DecreaseTotal ==
    ASSUME NEW r \in Registry, NEW amount \in Nat,
           NEW s \in decrease_total_backing_collateral(r, amount)
    PROVE  /\ s \in Registry /\ s.vault = r.vault /\ s.lv = r.lv
           /\ s.griefing = r.griefing
BY DEF decrease_total_backing_collateral, Try, Registry

LEMMA IncreaseTotal ==
    ASSUME NEW r \in Registry, NEW amount \in Nat,
           NEW s \in try_increase_total_backing_collateral(r, amount)
    PROVE  /\ s \in Registry /\ s.vault = r.vault /\ s.lv = r.lv
           /\ s.griefing = r.griefing
BY DEF try_increase_total_backing_collateral, Try, Registry

(* A vault of whose collateral c is unlocked, or no longer held for its    *)
(* to-be-redeemed tokens.                                                  *)
Unlocked(w, c) == [w EXCEPT !.reserved = @ - c]
Unheld(w, c) == [w EXCEPT !.liquidated_collateral = @ - c]

LEMMA Unlock ==
    ASSUME NEW r \in Registry, NEW v \in Vaults, NEW amount \in Nat,
           NEW s \in unlock_collateral(r, v, amount)
    PROVE  /\ amount <= r.vault[v].reserved
           /\ Unlocked(r.vault[v], amount) \in Vault
           /\ s \in Registry
           /\ s.vault = [r.vault EXCEPT ![v] = Unlocked(r.vault[v], amount)]
           /\ s.vault[v] = Unlocked(r.vault[v], amount)
           /\ s.lv = r.lv
<1>1. /\ amount <= r.vault[v].reserved
      /\ s = set_vault(r, v, Unlocked(r.vault[v], amount))
  BY DEF unlock_collateral, Try, Unlocked
<1>2. r.vault[v] \in Vault
  BY DEF Registry
<1>3. Unlocked(r.vault[v], amount) \in Vault
  BY <1>1, <1>2 DEF Vault, Unlocked
<1>. QED BY <1>1, <1>3, SetVaultType

LEMMA DecreaseLiquidated ==
    ASSUME NEW r \in Registry, NEW v \in Vaults, NEW c \in Nat,
           NEW s \in decrease_liquidated_collateral(r, v, c)
    PROVE  /\ c <= r.vault[v].liquidated_collateral
           /\ Unheld(r.vault[v], c) \in Vault
           /\ s \in Registry
           /\ s.vault = [r.vault EXCEPT ![v] = Unheld(r.vault[v], c)]
           /\ s.vault[v] = Unheld(r.vault[v], c)
           /\ s.lv = r.lv
<1>1. /\ c <= r.vault[v].liquidated_collateral
      /\ s = set_vault(r, v, Unheld(r.vault[v], c))
  BY DEF decrease_liquidated_collateral, Try, Unheld
<1>2. r.vault[v] \in Vault
  BY DEF Registry
<1>3. Unheld(r.vault[v], c) \in Vault
  BY <1>1, <1>2 DEF Vault, Unheld
<1>. QED BY <1>1, <1>3, SetVaultType

(* A vault whose stake changes by k, the reward stake following.           *)
LEMMA Restaked ==
    ASSUME ParamsOK, NEW w \in Vault, NEW k \in Int, w.stake + k \in Nat
    PROVE  \E y \in Vault : \E n \in Nat :
              /\ y = [w EXCEPT !.stake = @ + k, !.reward_stake = n]
              /\ y = update_reward_stake([w EXCEPT !.stake = @ + k])
              /\ w.status # "accepting" => n = 0
<1>. DEFINE x == [w EXCEPT !.stake = @ + k]
<1>1. x \in Vault /\ x.status = w.status
  BY DEF Vault
<1>2. PICK n \in Nat : /\ update_reward_stake(x) = [x EXCEPT !.reward_stake = n]
                       /\ x.status # "accepting" => n = 0
  BY <1>1, UpdateRewardStake
<1>3. [x EXCEPT !.reward_stake = n] = [w EXCEPT !.stake = @ + k, !.reward_stake = n]
  BY DEF Vault
<1>4. [x EXCEPT !.reward_stake = n] \in Vault
  <2>. HIDE DEF x
  <2>. QED BY <1>1 DEF Vault
<1>. QED BY <1>1, <1>2, <1>3, <1>4

(* What changes in a vault when its stake does.                            *)
Deposited(w, amount) == update_reward_stake([w EXCEPT !.stake = @ + amount])
Slashed(w, amount) == update_reward_stake([w EXCEPT !.stake = @ - amount])

LEMMA PoolDeposit ==
    ASSUME ParamsOK, NEW w \in Vault, NEW amount \in Nat
    PROVE  \E y \in Vault : \E n \in Nat :
              /\ y = [w EXCEPT !.stake = @ + amount, !.reward_stake = n]
              /\ y = Deposited(w, amount)
              /\ w.status # "accepting" => n = 0
<1>1. w.stake + amount \in Nat /\ amount \in Int
  BY DEF Vault
<1>2. PICK y \in Vault, n \in Nat :
           /\ y = [w EXCEPT !.stake = @ + amount, !.reward_stake = n]
           /\ y = update_reward_stake([w EXCEPT !.stake = @ + amount])
           /\ w.status # "accepting" => n = 0
  BY <1>1, Restaked
<1>. QED BY <1>2 DEF Deposited

LEMMA PoolSlash ==
    ASSUME ParamsOK, NEW w \in Vault, NEW amount \in Nat, amount <= w.stake
    PROVE  \E y \in Vault : \E n \in Nat :
              /\ y = [w EXCEPT !.stake = @ - amount, !.reward_stake = n]
              /\ y = Slashed(w, amount)
              /\ w.status # "accepting" => n = 0
<1>. DEFINE k == -amount
<1>1. k \in Int /\ w.stake + k \in Nat /\ w.stake + k = w.stake - amount
  BY DEF Vault
<1>2. [w EXCEPT !.stake = @ + k] = [w EXCEPT !.stake = @ - amount]
  BY <1>1
<1>. HIDE DEF k
<1>3. PICK y \in Vault, n \in Nat :
           /\ y = [w EXCEPT !.stake = @ + k, !.reward_stake = n]
           /\ y = update_reward_stake([w EXCEPT !.stake = @ + k])
           /\ w.status # "accepting" => n = 0
  BY <1>1, Restaked
<1>4. y = [w EXCEPT !.stake = @ - amount, !.reward_stake = n]
  BY <1>1, <1>3
<1>5. y = Slashed(w, amount)
  BY <1>2, <1>3 DEF Slashed
<1>. QED BY <1>3, <1>4, <1>5

(***************************************************************************)
(* Two registries that differ at most in the capacity, which no token and  *)
(* no collateral depends on.                                               *)
(***************************************************************************)
SameParts(r, q) ==
    /\ q \in Registry
    /\ q.vault = r.vault /\ q.lv = r.lv /\ q.total = r.total /\ q.griefing = r.griefing

LEMMA CapacitySet ==
    ASSUME NEW r \in Registry, NEW c \in Capacity
    PROVE  SameParts(r, set_capacity(r, c))
BY DEF SameParts, set_capacity, Registry

LEMMA SamePartsOK ==
    ASSUME NEW r, NEW q, SameParts(r, q)
    PROVE  /\ RegistrySound(r) => RegistrySound(q)
           /\ RegistryOK(r) => RegistryOK(q)
BY DEF SameParts, RegistryOK, RegistrySound

LEMMA SamePartsSettling ==
    ASSUME NEW r, NEW q, SameParts(r, q), NEW v, NEW amount, Settling(r, v, amount)
    PROVE  Settling(q, v, amount)
BY SamePartsOK DEF SameParts, Settling

LEMMA RewardsDistributed ==
    ASSUME NEW r \in Registry, NEW fee, NEW s \in distribute_rewards(r, fee)
    PROVE  SameParts(r, s)
<1>1. CASE s = r
  BY <1>1 DEF SameParts
<1>2. CASE s = set_capacity(r, "blocked")
  BY <1>2, CapacitySet DEF Capacity
<1>. QED BY <1>1, <1>2 DEF distribute_rewards, Try

(* An operation of the pool manager replaces the vault in a registry that  *)
(* may have another capacity.                                              *)
LEMMA PoolsUpdated ==
    ASSUME NEW r \in Registry, NEW v, NEW w, NEW s \in update_pools(r, v, w)
    PROVE  \E q : SameParts(r, q) /\ s = set_vault(q, v, update_reward_stake(w))
<1>1. SameParts(r, set_capacity(r, "current"))
  BY CapacitySet DEF Capacity
<1>2. s = set_vault(set_capacity(r, "current"), v, update_reward_stake(w))
  BY DEF update_pools, Try
<1>. QED BY <1>1, <1>2

LEMMA Deposits ==
    ASSUME NEW r \in Registry, NEW v, NEW c, NEW s \in pool_deposit_collateral(r, v, c)
    PROVE  \E q : SameParts(r, q) /\ s = set_vault(q, v, Deposited(r.vault[v], c))
BY PoolsUpdated DEF pool_deposit_collateral, Deposited

LEMMA Slashes ==
    ASSUME NEW r \in Registry, NEW v, NEW c, NEW s \in pool_slash_collateral(r, v, c)
    PROVE  \E q : SameParts(r, q) /\ s = set_vault(q, v, Slashed(r.vault[v], c))
BY PoolsUpdated DEF pool_slash_collateral, Slashed

LEMMA Withdraws ==
    ASSUME NEW r \in Registry, NEW v, NEW c, NEW s \in pool_withdraw_collateral(r, v, c)
    PROVE  c <= r.vault[v].stake /\ s \in pool_slash_collateral(r, v, c)
BY DEF pool_withdraw_collateral

LEMMA StakeDeposited ==
    ASSUME ParamsOK, NEW r \in Registry, NEW v \in Vaults, NEW c \in Nat,
           NEW s \in pool_deposit_collateral(r, v, c)
    PROVE  /\ Deposited(r.vault[v], c) \in Vault
           /\ s \in Registry
           /\ s.vault = [r.vault EXCEPT ![v] = Deposited(r.vault[v], c)]
           /\ s.vault[v] = Deposited(r.vault[v], c)
           /\ s.lv = r.lv /\ s.total = r.total /\ s.griefing = r.griefing
<1>1. r.vault[v] \in Vault
  BY DEF Registry
<1>2. Deposited(r.vault[v], c) \in Vault
  BY <1>1, PoolDeposit
<1>3. PICK q : SameParts(r, q) /\ s = set_vault(q, v, Deposited(r.vault[v], c))
  BY Deposits
<1>. QED BY <1>2, <1>3, SetVaultType DEF SameParts

LEMMA StakeSlashed ==
    ASSUME ParamsOK, NEW r \in Registry, NEW v \in Vaults, NEW c \in Nat,
           c <= r.vault[v].stake, NEW s \in pool_slash_collateral(r, v, c)
    PROVE  /\ Slashed(r.vault[v], c) \in Vault
           /\ s \in Registry
           /\ s.vault = [r.vault EXCEPT ![v] = Slashed(r.vault[v], c)]
           /\ s.vault[v] = Slashed(r.vault[v], c)
           /\ s.lv = r.lv /\ s.total = r.total /\ s.griefing = r.griefing
<1>1. r.vault[v] \in Vault
  BY DEF Registry
<1>2. Slashed(r.vault[v], c) \in Vault
  BY <1>1, PoolSlash
<1>3. PICK q : SameParts(r, q) /\ s = set_vault(q, v, Slashed(r.vault[v], c))
  BY Slashes
<1>. QED BY <1>2, <1>3, SetVaultType DEF SameParts

LEMMA TryDepositOK ==
    ASSUME ParamsOK, NEW r, RegistryOK(r), NEW v \in Vaults, NEW amount \in Nat,
           r.vault[v].status # "none",
           NEW s \in try_deposit_collateral(r, v, amount)
    PROVE  RegistryOK(s)
<1>. DEFINE w == r.vault[v]
<1>1. w \in Vault /\ Locked(w) /\ Ordered(w) /\ NotStranded(w) /\ r \in Registry
      /\ r.lv.reserved = r.lv.collateral /\ w.status # "none"
  BY VaultsTyped DEF RegistryOK, RegistrySound
<1>. HIDE DEF w
<1>2. PICK x \in Vault, n \in Nat :
           /\ x = [w EXCEPT !.stake = @ + amount, !.reward_stake = n]
           /\ x = Deposited(w, amount)
           /\ w.status # "accepting" => n = 0
  BY <1>1, PoolDeposit
<1>b. PICK d \in pool_deposit_collateral(r, v, amount) :
           s \in try_increase_total_backing_collateral(lock_collateral(d, v, amount), amount)
  BY DEF try_deposit_collateral
<1>c. PICK p : SameParts(r, p) /\ d = set_vault(p, v, x)
  BY <1>1, <1>2, <1>b, Deposits DEF w
<1>d. p \in Registry /\ p.vault = r.vault /\ p.lv = r.lv
  BY <1>c DEF SameParts
<1>. DEFINE y == [x EXCEPT !.reserved = @ + amount]
            q == set_vault(p, v, x)
            t == set_vault(q, v, y)
<1>3. y \in Vault
  BY DEF Vault
<1>4. Sound(y) /\ NotStranded(y)
  BY <1>1, <1>2, <1>3 DEF Vault, Sound, Locked, Ordered, NotStranded, is_liquidated
<1>. HIDE DEF y
<1>5. q.vault[v] = x /\ t = set_vault(p, v, y)
  <2>1. q.vault[v] = x
    BY <1>d, SetVaultType
  <2>2. t = set_vault(p, v, y)
    BY <1>d, <1>3, SetVaultTwice
  <2>. QED BY <2>1, <2>2
<1>6. t \in Registry /\ t.vault = [r.vault EXCEPT ![v] = y] /\ t.lv = r.lv
  BY <1>d, <1>3, <1>5, SetVaultType
<1>7. s \in try_increase_total_backing_collateral(t, amount)
  BY <1>b, <1>c, <1>5 DEF lock_collateral, y
<1>. HIDE DEF t
<1>8. s \in Registry /\ s.vault = [r.vault EXCEPT ![v] = y] /\ s.lv = r.lv
  BY <1>6, <1>7, IncreaseTotal
<1>. QED BY <1>1, <1>4, <1>8, OneVaultChanged

LEMMA ForceWithdrawOK ==
    ASSUME ParamsOK, NEW r, RegistryOK(r), NEW v \in Vaults, NEW amount \in Nat,
           NEW s \in force_withdraw_collateral(r, v, amount)
    PROVE  RegistryOK(s)
<1>. DEFINE w == r.vault[v]
<1>1. w \in Vault /\ Locked(w) /\ Ordered(w) /\ NotStranded(w) /\ r \in Registry
      /\ r.vault \in [Vaults -> Vault] /\ r.lv.reserved = r.lv.collateral
  BY VaultsTyped DEF RegistryOK, RegistrySound
<1>2. PICK q, t : /\ q \in unlock_collateral(r, v, amount)
                  /\ t \in decrease_total_backing_collateral(q, amount)
                  /\ s \in pool_withdraw_collateral(t, v, amount)
  BY DEF force_withdraw_collateral
<1>. DEFINE x == Unlocked(w, amount)
<1>3. /\ amount <= w.reserved /\ x \in Vault
      /\ q \in Registry /\ q.vault = [r.vault EXCEPT ![v] = x]
      /\ q.vault[v] = x /\ q.lv = r.lv
  BY <1>1, <1>2, Unlock
<1>. HIDE DEF x
<1>4. t \in Registry /\ t.vault = q.vault /\ t.lv = r.lv
  BY <1>2, <1>3, DecreaseTotal
<1>5. amount <= x.stake /\ s \in pool_slash_collateral(t, v, amount) /\ t.vault[v] = x
  BY <1>2, <1>3, <1>4, Withdraws
<1>6. PICK z \in Vault, n \in Nat :
           /\ z = [x EXCEPT !.stake = @ - amount, !.reward_stake = n]
           /\ z = Slashed(x, amount)
           /\ x.status # "accepting" => n = 0
  BY <1>3, <1>5, PoolSlash
<1>7. PICK p : SameParts(t, p) /\ s = set_vault(p, v, z)
  BY <1>4, <1>5, <1>6, Slashes
<1>. HIDE DEF w
<1>8. Sound(z) /\ NotStranded(z)
  BY <1>1, <1>3, <1>5, <1>6 DEF x, Unlocked, Vault, Sound, Locked, Ordered, NotStranded, is_liquidated
<1>9. s \in Registry /\ s.vault = [t.vault EXCEPT ![v] = z] /\ s.lv = r.lv
  BY <1>4, <1>7, SetVaultType DEF SameParts
<1>10. s.vault = [r.vault EXCEPT ![v] = z]
  BY <1>1, <1>3, <1>4, <1>9
<1>. QED BY <1>1, <1>8, <1>9, <1>10, OneVaultChanged

-----------------------------------------------------------------------------
(* Transfers of funds                                                      *)

(* What is released to a free balance is not claimed.                      *)
LEMMA ToFreeBalance ==
    ASSUME NEW r, NEW source, NEW u, NEW amount
    PROVE  transfer_funds(r, source, <<"FreeBalance", u>>, amount)
              = release_funds(r, source, amount)
<1>1. \A q : claim_funds(q, <<"FreeBalance", u>>, amount) = {q}
  BY DEF claim_funds
<1>2. ASSUME NEW x
      PROVE  x \in transfer_funds(r, source, <<"FreeBalance", u>>, amount)
                <=> x \in release_funds(r, source, amount)
  <2>1. x \in transfer_funds(r, source, <<"FreeBalance", u>>, amount)
           <=> \E q \in release_funds(r, source, amount) :
                   x \in claim_funds(q, <<"FreeBalance", u>>, amount)
    BY DEF transfer_funds
  <2>. QED BY <1>1, <2>1
<1>. QED BY <1>2

LEMMA Transferred ==
    ASSUME NEW r, NEW source, NEW destination, NEW amount,
           NEW s \in transfer_funds(r, source, destination, amount)
    PROVE  \E q : q \in release_funds(r, source, amount) /\ s \in claim_funds(q, destination, amount)
BY DEF transfer_funds

(* The cases of release_funds.                                             *)
LEMMA ReleaseCollateral ==
    ASSUME NEW r, NEW v, NEW amount, NEW s \in release_funds(r, <<"Collateral", v>>, amount)
    PROVE  \E q, t : /\ q \in unlock_collateral(r, v, amount)
                     /\ t \in decrease_total_backing_collateral(q, amount)
                     /\ s \in pool_slash_collateral(t, v, amount)
BY DEF release_funds

LEMMA ReleaseLiquidated ==
    ASSUME NEW r, NEW v, NEW amount,
           NEW s \in release_funds(r, <<"LiquidatedCollateral", v>>, amount)
    PROVE  \E q : /\ q \in decrease_total_backing_collateral(r, amount)
                  /\ s \in unlock_collateral(q, v, amount)
BY DEF release_funds

LEMMA UnlockGriefingOK ==
    ASSUME NEW r, RegistryOK(r), NEW a \in Accounts, NEW amount \in Nat,
           NEW s \in unlock_griefing(r, a, amount)
    PROVE  RegistryOK(s) /\ s.vault = r.vault
<1>1. r \in Registry /\ r.griefing \in [Accounts -> Nat]
  BY DEF RegistryOK, RegistrySound, Registry
<1>. DEFINE g == [r.griefing EXCEPT ![a] = @ - amount]
<1>2. amount <= r.griefing[a] /\ s = [r EXCEPT !.griefing[a] = @ - amount]
  BY DEF unlock_griefing, Try
<1>3. s = [r EXCEPT !.griefing = g] /\ g \in [Accounts -> Nat]
  BY <1>1, <1>2 DEF Registry
<1>. QED BY <1>3, SetGriefingOK

LEMMA LockGriefingOK ==
    ASSUME NEW r, RegistryOK(r), NEW a \in Accounts, NEW amount \in Nat
    PROVE  RegistryOK([r EXCEPT !.griefing[a] = @ + amount])
<1>1. r \in Registry /\ r.griefing \in [Accounts -> Nat]
  BY DEF RegistryOK, RegistrySound, Registry
<1>. DEFINE g == [r.griefing EXCEPT ![a] = @ + amount]
<1>2. [r EXCEPT !.griefing[a] = @ + amount] = [r EXCEPT !.griefing = g] /\ g \in [Accounts -> Nat]
  BY <1>1 DEF Registry
<1>. QED BY <1>2, SetGriefingOK

(* Griefing collateral of a replace offer, or of accepted requests, that   *)
(* goes back to a free balance.                                            *)
LEMMA ReleaseReplaceOK ==
    ASSUME NEW r, RegistryOK(r), NEW v \in Vaults, NEW amount \in Nat,
           NEW s \in release_funds(r, <<"AvailableReplaceCollateral", v>>, amount)
                       \cup release_funds(r, <<"ActiveReplaceCollateral", v>>, amount)
    PROVE  /\ RegistryOK(s)
           /\ s.vault[v].status = r.vault[v].status
           /\ s.vault[v].to_be_redeemed = r.vault[v].to_be_redeemed
           /\ s.vault[v].to_be_issued = r.vault[v].to_be_issued
           /\ s.vault[v].issued = r.vault[v].issued
           /\ s.vault[v].stake = r.vault[v].stake
           /\ s \in release_funds(r, <<"AvailableReplaceCollateral", v>>, amount) =>
                 /\ is_active(r.vault[v])
                 /\ s.vault[v].replace_collateral = r.vault[v].replace_collateral - amount
                 /\ s.vault[v].to_be_replaced = r.vault[v].to_be_replaced
<1>. DEFINE w == r.vault[v]
<1>1. w \in Vault /\ Locked(w) /\ Ordered(w) /\ NotStranded(w) /\ r \in Registry
      /\ r.vault \in [Vaults -> Vault] /\ v \in Accounts
  BY VaultsTyped DEF RegistryOK
<1>2. CASE s \in release_funds(r, <<"AvailableReplaceCollateral", v>>, amount)
  <2>. DEFINE x == [w EXCEPT !.replace_collateral = @ - amount]
              q == set_vault(r, v, x)
  <2>1. /\ is_active(w) /\ amount <= w.replace_collateral
        /\ s \in unlock_griefing([r EXCEPT !.vault[v].replace_collateral = @ - amount], v, amount)
    BY <1>2 DEF release_funds
  <2>2. [r EXCEPT !.vault[v].replace_collateral = @ - amount] = q
    BY <1>1 DEF set_vault
  <2>3. /\ Sound(x) /\ NotStranded(x) /\ x \in Vault /\ x.status = w.status
        /\ x.to_be_redeemed = w.to_be_redeemed /\ x.to_be_issued = w.to_be_issued
        /\ x.issued = w.issued /\ x.stake = w.stake
        /\ x.replace_collateral = w.replace_collateral - amount
        /\ x.to_be_replaced = w.to_be_replaced
    <3>1. /\ x \in Vault /\ x.status = w.status /\ x.issued = w.issued
          /\ x.to_be_issued = w.to_be_issued /\ x.to_be_redeemed = w.to_be_redeemed
          /\ x.to_be_replaced = w.to_be_replaced
          /\ x.replace_collateral = w.replace_collateral - amount
          /\ x.active_replace_collateral = w.active_replace_collateral
          /\ x.liquidated_collateral = w.liquidated_collateral /\ x.stake = w.stake
          /\ x.reward_stake = w.reward_stake /\ x.reserved = w.reserved
      BY <1>1, <2>1 DEF Vault
    <3>. HIDE DEF x
    <3>. QED BY <1>1, <2>1, <3>1
             DEF Vault, Sound, Locked, Ordered, NotStranded, is_liquidated, is_active
  <2>. HIDE DEF x
  <2>4. RegistryOK(q) /\ q.vault[v] = x
    BY <1>1, <2>3, SetVaultOK, SetVaultType
  <2>. HIDE DEF q
  <2>5. RegistryOK(s) /\ s.vault = q.vault
    BY <1>1, <2>1, <2>2, <2>4, UnlockGriefingOK
  <2>. QED BY <2>1, <2>3, <2>4, <2>5
<1>3. CASE s \in release_funds(r, <<"ActiveReplaceCollateral", v>>, amount)
           /\ s \notin release_funds(r, <<"AvailableReplaceCollateral", v>>, amount)
  <2>. DEFINE x == [w EXCEPT !.active_replace_collateral = @ - amount]
              q == set_vault(r, v, x)
  <2>1. /\ amount <= w.active_replace_collateral
        /\ s \in unlock_griefing([r EXCEPT !.vault[v].active_replace_collateral = @ - amount],
                                 v, amount)
    BY <1>3 DEF release_funds
  <2>2. [r EXCEPT !.vault[v].active_replace_collateral = @ - amount] = q
    BY <1>1 DEF set_vault
  <2>3. /\ Sound(x) /\ NotStranded(x) /\ x \in Vault /\ x.status = w.status
        /\ x.to_be_redeemed = w.to_be_redeemed /\ x.to_be_issued = w.to_be_issued
        /\ x.issued = w.issued /\ x.stake = w.stake
    <3>1. /\ x \in Vault /\ x.status = w.status /\ x.issued = w.issued
          /\ x.to_be_issued = w.to_be_issued /\ x.to_be_redeemed = w.to_be_redeemed
          /\ x.to_be_replaced = w.to_be_replaced
          /\ x.replace_collateral = w.replace_collateral
          /\ x.active_replace_collateral = w.active_replace_collateral - amount
          /\ x.liquidated_collateral = w.liquidated_collateral /\ x.stake = w.stake
          /\ x.reward_stake = w.reward_stake /\ x.reserved = w.reserved
      BY <1>1, <2>1 DEF Vault
    <3>. HIDE DEF x
    <3>. QED BY <1>1, <2>1, <3>1 DEF Vault, Sound, Locked, Ordered, NotStranded, is_liquidated
  <2>. HIDE DEF x
  <2>4. RegistryOK(q) /\ q.vault[v] = x
    BY <1>1, <2>3, SetVaultOK, SetVaultType
  <2>. HIDE DEF q
  <2>5. RegistryOK(s) /\ s.vault = q.vault
    BY <1>1, <2>1, <2>2, <2>4, UnlockGriefingOK
  <2>. QED BY <1>3, <2>1, <2>3, <2>4, <2>5
<1>. QED BY <1>2, <1>3

(* Griefing collateral that comes from a free balance.                     *)
LEMMA ClaimReplaceOK ==
    ASSUME NEW r, RegistryOK(r), NEW v \in Vaults, NEW amount \in Nat,
           NEW s \in claim_funds(r, <<"AvailableReplaceCollateral", v>>, amount)
                       \cup claim_funds(r, <<"ActiveReplaceCollateral", v>>, amount),
           r.vault[v].status # "none"
    PROVE  RegistryOK(s)
<1>. DEFINE w == r.vault[v]
<1>1. w \in Vault /\ Locked(w) /\ Ordered(w) /\ NotStranded(w) /\ r \in Registry
      /\ r.vault \in [Vaults -> Vault] /\ v \in Accounts
  BY VaultsTyped DEF RegistryOK
<1>2. CASE s \in claim_funds(r, <<"AvailableReplaceCollateral", v>>, amount)
  <2>. DEFINE x == [w EXCEPT !.replace_collateral = @ + amount]
              q == set_vault(r, v, x)
  <2>1. /\ is_active(w)
        /\ s = [r EXCEPT !.vault[v].replace_collateral = @ + amount,
                         !.griefing[v] = @ + amount]
    BY <1>2 DEF claim_funds, Try
  <2>2. s = [q EXCEPT !.griefing[v] = @ + amount]
    BY <1>1, <2>1 DEF set_vault, Registry
  <2>3. Sound(x) /\ NotStranded(x)
    BY <1>1, <2>1 DEF Vault, Sound, Locked, Ordered, NotStranded, is_liquidated, is_active
  <2>. HIDE DEF x
  <2>4. RegistryOK(q)
    BY <1>1, <2>3, SetVaultOK
  <2>. HIDE DEF q
  <2>. QED BY <1>1, <2>2, <2>4, LockGriefingOK
<1>3. CASE s \in claim_funds(r, <<"ActiveReplaceCollateral", v>>, amount)
  <2>. DEFINE x == [w EXCEPT !.active_replace_collateral = @ + amount]
              q == set_vault(r, v, x)
  <2>1. s = [r EXCEPT !.vault[v].active_replace_collateral = @ + amount,
                      !.griefing[v] = @ + amount]
    BY <1>3 DEF claim_funds
  <2>2. s = [q EXCEPT !.griefing[v] = @ + amount]
    BY <1>1, <2>1 DEF set_vault, Registry
  <2>3. /\ x \in Vault /\ x.status = w.status /\ x.issued = w.issued
        /\ x.to_be_issued = w.to_be_issued /\ x.to_be_redeemed = w.to_be_redeemed
        /\ x.to_be_replaced = w.to_be_replaced
        /\ x.replace_collateral = w.replace_collateral
        /\ x.active_replace_collateral = w.active_replace_collateral + amount
        /\ x.liquidated_collateral = w.liquidated_collateral /\ x.stake = w.stake
        /\ x.reward_stake = w.reward_stake /\ x.reserved = w.reserved
    BY <1>1 DEF Vault
  <2>. HIDE DEF x
  <2>4. Sound(x) /\ NotStranded(x)
    BY <1>1, <2>3 DEF Vault, Sound, Locked, Ordered, NotStranded, is_liquidated
  <2>5. RegistryOK(q)
    BY <1>1, <2>4, SetVaultOK
  <2>. HIDE DEF q
  <2>. QED BY <1>1, <2>2, <2>5, LockGriefingOK
<1>. QED BY <1>2, <1>3

(* Slashing the stake of a vault that is not liquidated.                   *)
LEMMA SlashStakeOK ==
    ASSUME ParamsOK, NEW r, RegistryOK(r), NEW v \in Vaults, ~is_liquidated(r.vault[v]),
           NEW amount \in Nat, NEW s \in release_funds(r, <<"Collateral", v>>, amount)
    PROVE  RegistryOK(s) /\ s.vault[v].status = r.vault[v].status
<1>. DEFINE w == r.vault[v]
<1>1. w \in Vault /\ Locked(w) /\ Ordered(w) /\ NotStranded(w) /\ r \in Registry
      /\ r.vault \in [Vaults -> Vault] /\ r.lv.reserved = r.lv.collateral
  BY VaultsTyped DEF RegistryOK, RegistrySound
<1>2. PICK q, t : /\ q \in unlock_collateral(r, v, amount)
                  /\ t \in decrease_total_backing_collateral(q, amount)
                  /\ s \in pool_slash_collateral(t, v, amount)
  BY ReleaseCollateral
<1>. DEFINE x == Unlocked(w, amount)
<1>3. /\ amount <= w.reserved /\ x \in Vault
      /\ q \in Registry /\ q.vault = [r.vault EXCEPT ![v] = x]
      /\ q.vault[v] = x /\ q.lv = r.lv
  BY <1>1, <1>2, Unlock
<1>4. amount <= x.stake /\ x.status = w.status
  BY <1>1, <1>3 DEF Vault, Locked, Ordered, Unlocked
<1>. HIDE DEF x
<1>5. t \in Registry /\ t.vault = q.vault /\ t.lv = r.lv
  BY <1>2, <1>3, DecreaseTotal
<1>6. PICK z \in Vault, n \in Nat :
           /\ z = [x EXCEPT !.stake = @ - amount, !.reward_stake = n]
           /\ z = Slashed(x, amount)
           /\ x.status # "accepting" => n = 0
  BY <1>3, <1>4, PoolSlash
<1>a. t.vault[v] = x
  BY <1>3, <1>5
<1>7. PICK p : SameParts(t, p) /\ s = set_vault(p, v, z)
  <2>1. PICK p : SameParts(t, p) /\ s = set_vault(p, v, Slashed(t.vault[v], amount))
    BY <1>2, <1>5, Slashes
  <2>. QED BY <1>6, <1>a, <2>1
<1>. HIDE DEF w
<1>8. Sound(z) /\ NotStranded(z) /\ z.status = w.status
  BY <1>1, <1>3, <1>4, <1>6 DEF x, Unlocked, Vault, Sound, Locked, Ordered, NotStranded, is_liquidated
<1>9. s \in Registry /\ s.vault = [t.vault EXCEPT ![v] = z] /\ s.vault[v] = z /\ s.lv = r.lv
  BY <1>5, <1>7, SetVaultType DEF SameParts
<1>10. s.vault = [r.vault EXCEPT ![v] = z]
  BY <1>1, <1>3, <1>5, <1>9
<1>11. RegistryOK(s)
  BY <1>1, <1>8, <1>9, <1>10, OneVaultChanged
<1>. QED BY <1>8, <1>9, <1>11 DEF w

(* The share of the liquidated collateral of some to-be-redeemed tokens.   *)
LEMMA LiquidatedShare ==
    ASSUME NEW w \in Vault, NEW amount \in Nat
    PROVE  /\ liquidated_share(w, amount) \in Nat
           /\ w.to_be_redeemed = amount => liquidated_share(w, amount) = w.liquidated_collateral
<1>1. w.liquidated_collateral \in Nat /\ w.to_be_redeemed \in Nat
  BY DEF Vault
<1>2. calculate_collateral(w.liquidated_collateral, amount, w.to_be_redeemed) \in Nat
  BY <1>1, SMT DEF calculate_collateral
<1>3. w.to_be_redeemed = amount
         => calculate_collateral(w.liquidated_collateral, amount, w.to_be_redeemed)
               = w.liquidated_collateral
  BY <1>1, ShareOfAll
<1>. QED BY <1>2, <1>3 DEF liquidated_share

LEMMA HeldReleased ==
    ASSUME NEW w, Sound(w), NEW c \in Nat,
           c <= w.liquidated_collateral, c <= Unheld(w, c).reserved
    PROVE  /\ Unlocked(Unheld(w, c), c) \in Vault
           /\ Sound(Unlocked(Unheld(w, c), c))
           /\ Unlocked(Unheld(w, c), c).status = w.status
           /\ Unlocked(Unheld(w, c), c).to_be_redeemed = w.to_be_redeemed
           /\ Unlocked(Unheld(w, c), c).liquidated_collateral = w.liquidated_collateral - c
<1>. DEFINE x == Unheld(w, c)
<1>1. x \in Vault
  BY DEF Sound, Vault, Unheld
<1>. HIDE DEF x
<1>2. Unlocked(x, c) \in Vault
  BY <1>1 DEF Vault, Unlocked, x
<1>. QED BY <1>1, <1>2 DEF Unlocked, Unheld, x, Sound, Locked, Ordered, is_liquidated, Vault

LEMMA LiquidationVaultGains ==
    ASSUME NEW l \in SystemVault, l.reserved = l.collateral, NEW c \in Nat
    PROVE  /\ [l EXCEPT !.collateral = @ + c, !.reserved = @ + c] \in SystemVault
           /\ [l EXCEPT !.collateral = @ + c, !.reserved = @ + c].reserved
                 = [l EXCEPT !.collateral = @ + c, !.reserved = @ + c].collateral
<1>. DEFINE m == [l EXCEPT !.collateral = @ + c]
<1>1. m \in SystemVault /\ m.collateral = l.collateral + c /\ m.reserved = l.reserved
  BY DEF SystemVault
<1>2. [l EXCEPT !.collateral = @ + c, !.reserved = @ + c] = [m EXCEPT !.reserved = @ + c]
  BY DEF SystemVault
<1>. HIDE DEF m
<1>3. [m EXCEPT !.reserved = @ + c] \in SystemVault
  BY <1>1 DEF SystemVault
<1>4. [m EXCEPT !.reserved = @ + c].reserved = [m EXCEPT !.reserved = @ + c].collateral
  BY <1>1 DEF SystemVault
<1>. QED BY <1>2, <1>3, <1>4

(* Locked collateral that is not part of the stake any more goes to a free *)
(* balance or to the liquidation vault.                                    *)
LEMMA TransferLiquidated ==
    ASSUME NEW q \in Registry, q.lv.reserved = q.lv.collateral, NEW v \in Vaults,
           NEW c \in Nat, NEW u, NEW kind, kind = "FreeBalance" \/ kind = "LiquidationVault",
           NEW s \in transfer_funds(q, <<"LiquidatedCollateral", v>>, <<kind, u>>, c)
    PROVE  /\ c <= q.vault[v].reserved
           /\ Unlocked(q.vault[v], c) \in Vault
           /\ s \in Registry
           /\ s.vault = [q.vault EXCEPT ![v] = Unlocked(q.vault[v], c)]
           /\ s.lv.reserved = s.lv.collateral
<1>1. PICK p : /\ p \in release_funds(q, <<"LiquidatedCollateral", v>>, c)
               /\ s \in claim_funds(p, <<kind, u>>, c)
  BY Transferred
<1>2. PICK t : /\ t \in decrease_total_backing_collateral(q, c)
               /\ p \in unlock_collateral(t, v, c)
  BY <1>1, ReleaseLiquidated
<1>3. t \in Registry /\ t.vault = q.vault /\ t.lv = q.lv
  BY <1>2, DecreaseTotal
<1>4. /\ c <= q.vault[v].reserved /\ Unlocked(q.vault[v], c) \in Vault /\ p \in Registry
      /\ p.vault = [q.vault EXCEPT ![v] = Unlocked(q.vault[v], c)] /\ p.lv = q.lv
  BY <1>2, <1>3, Unlock
<1>5. s \in Registry /\ s.vault = p.vault /\ s.lv.reserved = s.lv.collateral
  <2>1. CASE kind = "FreeBalance"
    BY <1>1, <1>4, <2>1 DEF claim_funds
  <2>2. CASE kind = "LiquidationVault"
    <3>1. PICK k \in try_increase_total_backing_collateral(p, c) :
               s = [k EXCEPT !.lv.collateral = @ + c, !.lv.reserved = @ + c]
      BY <1>1, <2>2 DEF claim_funds
    <3>2. k \in Registry /\ k.vault = p.vault /\ k.lv = q.lv
      BY <1>4, IncreaseTotal
    <3>. DEFINE l == [k.lv EXCEPT !.collateral = @ + c, !.reserved = @ + c]
    <3>3. k.lv \in SystemVault /\ k.lv.reserved = k.lv.collateral
      BY <3>2 DEF Registry
    <3>4. l \in SystemVault /\ l.reserved = l.collateral
      BY <3>3, LiquidationVaultGains
    <3>5. s = [k EXCEPT !.lv = l]
      BY <3>1, <3>2 DEF Registry
    <3>. HIDE DEF l
    <3>. QED BY <3>2, <3>4, <3>5 DEF Registry
  <2>. QED BY <2>1, <2>2
<1>. QED BY <1>4, <1>5

LEMMA ToLiquidationVault ==
    ASSUME NEW q \in Registry, q.lv.reserved = q.lv.collateral, NEW v \in Vaults,
           NEW c \in Nat,
           NEW s \in transfer_funds(q, <<"LiquidatedCollateral", v>>,
                                    <<"LiquidationVault", v>>, c)
    PROVE  /\ Unlocked(q.vault[v], c) \in Vault
           /\ s \in Registry
           /\ s.vault = [q.vault EXCEPT ![v] = Unlocked(q.vault[v], c)]
           /\ s.lv.reserved = s.lv.collateral
BY TransferLiquidated

(***************************************************************************)
(* The collateral held for some tokens that a liquidated vault is to       *)
(* redeem goes to a redeemer or to the liquidation vault: the tokens can   *)
(* now be settled without stranding any.                                   *)
(***************************************************************************)
LEMMA ConfiscateSettling ==
    ASSUME NEW r, RegistryOK(r), NEW v \in Vaults, NEW amount \in Nat,
           NEW q \in decrease_liquidated_collateral(r, v, liquidated_share(r.vault[v], amount)),
           NEW u, NEW kind, kind = "FreeBalance" \/ kind = "LiquidationVault",
           NEW s \in transfer_funds(q, <<"LiquidatedCollateral", v>>, <<kind, u>>,
                                    liquidated_share(r.vault[v], amount))
    PROVE  Settling(s, v, amount) /\ s.vault[v].status = r.vault[v].status
<1>. DEFINE w == r.vault[v]
            c == liquidated_share(w, amount)
            x == Unheld(w, c)
            z == Unlocked(x, c)
<1>1. w \in Vault /\ Sound(w) /\ r \in Registry
      /\ r.vault \in [Vaults -> Vault] /\ r.lv.reserved = r.lv.collateral
  BY VaultsTyped DEF RegistryOK, RegistrySound
<1>2. c \in Nat /\ (w.to_be_redeemed = amount => c = w.liquidated_collateral)
  BY <1>1, LiquidatedShare
<1>a. q \in decrease_liquidated_collateral(r, v, c)
      /\ s \in transfer_funds(q, <<"LiquidatedCollateral", v>>, <<kind, u>>, c)
  OBVIOUS
<1>. HIDE DEF c
<1>3. /\ c <= w.liquidated_collateral /\ x \in Vault
      /\ q \in Registry /\ q.vault = [r.vault EXCEPT ![v] = x] /\ q.vault[v] = x
      /\ q.lv = r.lv
  BY <1>1, <1>2, <1>a, DecreaseLiquidated
<1>4. q.lv.reserved = q.lv.collateral
  BY <1>1, <1>3
<1>. HIDE DEF x
<1>5. /\ c <= x.reserved /\ z \in Vault /\ s \in Registry
      /\ s.vault = [q.vault EXCEPT ![v] = z] /\ s.lv.reserved = s.lv.collateral
  <2>1. q \in Registry /\ c \in Nat
    BY <1>2, <1>3
  <2>2. /\ c <= q.vault[v].reserved /\ Unlocked(q.vault[v], c) \in Vault /\ s \in Registry
        /\ s.vault = [q.vault EXCEPT ![v] = Unlocked(q.vault[v], c)]
        /\ s.lv.reserved = s.lv.collateral
    BY <1>4, <1>a, <2>1, TransferLiquidated
  <2>. QED BY <1>3, <2>2
<1>8. /\ Sound(z) /\ z.status = w.status /\ z.to_be_redeemed = w.to_be_redeemed
      /\ z.liquidated_collateral = w.liquidated_collateral - c
  BY <1>1, <1>2, <1>3, <1>5, HeldReleased DEF x
<1>. HIDE DEF z
<1>10. s.vault = [r.vault EXCEPT ![v] = z]
  BY <1>1, <1>3, <1>5
<1>11. s.vault[v] = z /\ \A y \in Vaults \ {v} : s.vault[y] = r.vault[y]
  BY <1>1, <1>10
<1>12. \A y \in Vaults : Sound(s.vault[y])
  BY <1>8, <1>11 DEF RegistryOK, RegistrySound
<1>13. z.to_be_redeemed = amount => z.liquidated_collateral = 0
  BY <1>1, <1>2, <1>8 DEF Vault
<1>. QED BY <1>5, <1>8, <1>11, <1>12, <1>13 DEF Settling, RegistryOK, RegistrySound

LEMMA RedeemTokensOK ==
    ASSUME ParamsOK, NEW r, RegistryOK(r), NEW v \in Vaults, NEW amount \in Nat,
           NEW premium \in Nat, NEW s \in redeem_tokens(r, v, amount, premium)
    PROVE  RegistryOK(s) /\ s.vault[v].status = r.vault[v].status
<1>. DEFINE w == r.vault[v]
            c == liquidated_share(w, amount)
<1>1. w \in Vault /\ Sound(w) /\ Ordered(w) /\ RegistrySound(r)
      /\ r.vault \in [Vaults -> Vault] /\ \A u \in Vaults : NotStranded(r.vault[u])
  BY VaultsTyped DEF RegistryOK, RegistrySound
<1>2. c \in Nat /\ (w.to_be_redeemed = amount => c = w.liquidated_collateral)
  BY <1>1, LiquidatedShare
<1>3. PICK q \in execute_redeem_tokens(r, v, amount) :
           /\ ~is_liquidated(q.vault[v]) =>
                 s \in IF premium = 0 THEN {q}
                       ELSE transfer_funds(q, <<"Collateral", v>>, <<"FreeBalance", v>>, premium)
           /\ is_liquidated(q.vault[v]) =>
                 \E t, k : /\ t \in decrease_total_backing_collateral(q, c)
                           /\ k \in decrease_liquidated_collateral(t, v, c)
                           /\ s \in unlock_collateral(k, v, c)
  BY DEF redeem_tokens
<1>. HIDE DEF c, w
<1>4. /\ amount <= w.to_be_redeemed
      /\ RegistrySound(q)
      /\ \A u \in Vaults \ {v} : q.vault[u] = r.vault[u]
      /\ q.vault[v].status = w.status
      /\ q.vault[v].to_be_redeemed = w.to_be_redeemed - amount
      /\ q.vault[v].liquidated_collateral = w.liquidated_collateral
  BY <1>1, ExecuteRedeemTokens DEF w
<1>5. CASE ~is_liquidated(q.vault[v])
  <2>1. NotStranded(q.vault[v])
    BY <1>1, <1>4, <1>5 DEF Ordered, NotStranded, is_liquidated
  <2>2. RegistryOK(q)
    BY <1>1, <1>4, <2>1 DEF RegistryOK
  <2>3. CASE premium = 0
    BY <1>3, <1>4, <1>5, <2>2, <2>3 DEF w
  <2>4. CASE premium # 0
    <3>1. s \in release_funds(q, <<"Collateral", v>>, premium)
      BY <1>3, <1>5, <2>4, ToFreeBalance
    <3>. QED BY <1>4, <1>5, <2>2, <3>1, SlashStakeOK DEF w
  <2>. QED BY <2>3, <2>4
<1>6. CASE is_liquidated(q.vault[v])
  <2>. DEFINE y == q.vault[v]
              x == Unheld(y, c)
              z == Unlocked(x, c)
  <2>0. q \in Registry /\ y \in Vault /\ Sound(y) /\ q.lv.reserved = q.lv.collateral
        /\ q.vault \in [Vaults -> Vault]
    BY <1>4, VaultsTyped DEF RegistrySound
  <2>1. PICK t, k : /\ t \in decrease_total_backing_collateral(q, c)
                    /\ k \in decrease_liquidated_collateral(t, v, c)
                    /\ s \in unlock_collateral(k, v, c)
    BY <1>3, <1>6
  <2>2. t \in Registry /\ t.vault = q.vault /\ t.lv = q.lv /\ t.vault[v] = y
    BY <1>2, <2>0, <2>1, DecreaseTotal
  <2>. HIDE DEF y
  <2>3. /\ c <= y.liquidated_collateral /\ x \in Vault
        /\ k \in Registry /\ k.vault = [t.vault EXCEPT ![v] = x] /\ k.vault[v] = x
        /\ k.lv = q.lv
    BY <1>2, <2>1, <2>2, DecreaseLiquidated
  <2>. HIDE DEF x
  <2>4. /\ c <= x.reserved /\ z \in Vault /\ s \in Registry
        /\ s.vault = [k.vault EXCEPT ![v] = z] /\ s.lv = q.lv /\ s.vault[v] = z
    <3>1. k \in Registry /\ k.vault[v] = x /\ k.lv = q.lv /\ c \in Nat
          /\ s \in unlock_collateral(k, v, c)
      BY <1>2, <2>1, <2>3
    <3>. QED BY <3>1, Unlock
  <2>5. /\ Sound(z) /\ z.status = y.status /\ z.to_be_redeemed = y.to_be_redeemed
        /\ z.liquidated_collateral = y.liquidated_collateral - c
    BY <1>2, <2>0, <2>3, <2>4, HeldReleased DEF x
  <2>6. NotStranded(z)
    BY <1>1, <1>2, <1>4, <2>5 DEF NotStranded, Vault, y
  <2>7. \A u \in Vaults \ {v} : s.vault[u] = r.vault[u]
    BY <1>4, <2>0, <2>2, <2>3, <2>4
  <2>8. \A u \in Vaults : Sound(s.vault[u]) /\ NotStranded(s.vault[u])
    BY <1>1, <2>4, <2>5, <2>6, <2>7 DEF RegistrySound
  <2>9. RegistryOK(s)
    BY <2>0, <2>4, <2>8 DEF RegistryOK, RegistrySound
  <2>. QED BY <1>4, <2>4, <2>5, <2>9 DEF y, w
<1>. QED BY <1>5, <1>6

Paid(l, t, c) == [l EXCEPT !.issued = @ - t, !.collateral = @ - c, !.reserved = @ - c]

LEMMA LiquidationVaultPays ==
    ASSUME NEW l \in SystemVault, l.reserved = l.collateral, NEW c \in Nat, NEW t \in Nat,
           c <= l.collateral, t <= l.issued
    PROVE  Paid(l, t, c) \in SystemVault /\ Paid(l, t, c).reserved = Paid(l, t, c).collateral
<1>. DEFINE k == [l EXCEPT !.issued = @ - t]
<1>1. /\ k \in SystemVault /\ k.issued = l.issued - t
      /\ k.collateral = l.collateral /\ k.reserved = l.reserved
  BY DEF SystemVault
<1>. HIDE DEF k
<1>. DEFINE n == [k EXCEPT !.collateral = @ - c]
<1>2. /\ n \in SystemVault /\ n.issued = l.issued - t
      /\ n.collateral = l.collateral - c /\ n.reserved = l.reserved
  BY <1>1 DEF SystemVault
<1>3. n = [l EXCEPT !.issued = @ - t, !.collateral = @ - c]
  BY <1>1 DEF SystemVault, k
<1>. HIDE DEF n
<1>. DEFINE m == [n EXCEPT !.reserved = @ - c]
<1>4. m \in SystemVault /\ m.reserved = m.collateral
  BY <1>2 DEF SystemVault
<1>5. m = Paid(l, t, c)
  BY <1>2, <1>3 DEF SystemVault, Paid
<1>. QED BY <1>4, <1>5

LEMMA RedeemLiquidationOK ==
    ASSUME NEW r, RegistryOK(r), NEW u, NEW amount \in Nat,
           NEW s \in redeem_tokens_liquidation(r, u, amount)
    PROVE  RegistryOK(s)
<1>. DEFINE d == to_be_backed_tokens(r.lv)
            c == calculate_collateral(r.lv.collateral, amount, d)
<1>1. r \in Registry /\ r.lv \in SystemVault /\ r.lv.reserved = r.lv.collateral /\ r.total \in Nat
  BY DEF RegistryOK, RegistrySound, Registry
<1>2. r.lv.to_be_redeemed + amount <= r.lv.issued
  BY DEF redeem_tokens_liquidation
<1>3. d \in Nat /\ amount <= d /\ amount <= r.lv.issued
  BY <1>1, <1>2 DEF to_be_backed_tokens, SystemVault
<1>. HIDE DEF d
<1>a. r.lv.collateral \in Nat
  BY <1>1 DEF SystemVault
<1>4. c \in Nat
  <2>1. c \in 0 .. r.lv.collateral
    BY <1>a, <1>3, ShareBounded
  <2>. HIDE DEF c
  <2>. QED BY <1>a, <2>1
<1>5. PICK q : /\ q \in transfer_funds(r, <<"LiquidationVault", u>>, <<"FreeBalance", u>>, c)
               /\ s = [q EXCEPT !.lv.issued = @ - amount]
  BY <1>2 DEF redeem_tokens_liquidation, d
<1>. HIDE DEF c
<1>6. q \in release_funds(r, <<"LiquidationVault", u>>, c)
  BY <1>5, ToFreeBalance
<1>7. /\ c <= r.lv.collateral /\ c <= r.total
      /\ q = [r EXCEPT !.lv.collateral = @ - c, !.lv.reserved = @ - c, !.total = @ - c]
  BY <1>6 DEF release_funds, Try
<1>. DEFINE m == Paid(r.lv, amount, c)
<1>8. m \in SystemVault /\ m.reserved = m.collateral
  BY <1>1, <1>3, <1>4, <1>7, LiquidationVaultPays
<1>9. s = [[r EXCEPT !.lv = m] EXCEPT !.total = @ - c]
  BY <1>1, <1>5, <1>7, <1>8 DEF Registry, SystemVault, Paid
<1>. HIDE DEF m
<1>10. RegistryOK([r EXCEPT !.lv = m])
  BY <1>8, SetLiquidationVault
<1>11. r.total - c \in Nat /\ s = [[r EXCEPT !.lv = m] EXCEPT !.total = r.total - c]
  BY <1>1, <1>4, <1>7, <1>9 DEF Registry
<1>. QED BY <1>10, <1>11, SetTotalOK

(* A liquidated old vault gets the collateral held for the tokens back     *)
(* into its stake.                                                         *)
LEMMA RedepositSettling ==
    ASSUME ParamsOK, NEW r, RegistryOK(r), NEW v \in Vaults, is_liquidated(r.vault[v]),
           NEW amount \in Nat,
           NEW q \in decrease_liquidated_collateral(r, v, liquidated_share(r.vault[v], amount)),
           NEW s \in pool_deposit_collateral(q, v, liquidated_share(r.vault[v], amount))
    PROVE  Settling(s, v, amount)
<1>. DEFINE w == r.vault[v]
            c == liquidated_share(w, amount)
            x == Unheld(w, c)
<1>1. w \in Vault /\ Sound(w) /\ r \in Registry
      /\ r.vault \in [Vaults -> Vault] /\ r.lv.reserved = r.lv.collateral
  BY VaultsTyped DEF RegistryOK, RegistrySound
<1>2. c \in Nat /\ (w.to_be_redeemed = amount => c = w.liquidated_collateral)
  BY <1>1, LiquidatedShare
<1>. HIDE DEF c
<1>3. /\ c <= w.liquidated_collateral /\ x \in Vault
      /\ q \in Registry /\ q.vault = [r.vault EXCEPT ![v] = x] /\ q.vault[v] = x
      /\ q.lv = r.lv
  BY <1>1, <1>2, DecreaseLiquidated DEF c
<1>a. s \in pool_deposit_collateral(q, v, c)
  BY DEF c, w
<1>4. x.status = "liquidated"
  BY <1>1 DEF is_liquidated, Unheld, Vault
<1>. HIDE DEF x
<1>5. PICK z \in Vault, n \in Nat :
           /\ z = [x EXCEPT !.stake = @ + c, !.reward_stake = n]
           /\ z = Deposited(x, c)
           /\ x.status # "accepting" => n = 0
  BY <1>2, <1>3, PoolDeposit
<1>. HIDE DEF w
<1>6. /\ Sound(z) /\ z.to_be_redeemed = w.to_be_redeemed
      /\ z.liquidated_collateral = w.liquidated_collateral - c
  BY <1>1, <1>2, <1>3, <1>4, <1>5
     DEF x, Unheld, Sound, Locked, Ordered, is_liquidated, Vault
<1>7. PICK p : SameParts(q, p) /\ s = set_vault(p, v, z)
  <2>0. q \in Registry
    BY <1>3
  <2>1. PICK p : SameParts(q, p) /\ s = set_vault(p, v, Deposited(q.vault[v], c))
    BY <1>a, <2>0, Deposits
  <2>. QED BY <1>3, <1>5, <2>1
<1>8. s \in Registry /\ s.vault = [q.vault EXCEPT ![v] = z] /\ s.lv = r.lv
  BY <1>3, <1>7, SetVaultType DEF SameParts
<1>9. s.vault[v] = z /\ \A u \in Vaults \ {v} : s.vault[u] = r.vault[u]
  BY <1>1, <1>3, <1>8
<1>10. \A u \in Vaults : Sound(s.vault[u])
  BY <1>6, <1>9 DEF RegistryOK, RegistrySound
<1>11. z.to_be_redeemed = amount => z.liquidated_collateral = 0
  BY <1>1, <1>2, <1>6 DEF Vault
<1>. QED BY <1>1, <1>8, <1>9, <1>10, <1>11 DEF Settling, RegistryOK, RegistrySound

LEMMA ReplaceTokensOK ==
    ASSUME ParamsOK, NEW r, RegistryOK(r), NEW old \in Vaults, NEW new \in Vaults,
           NEW amount \in Nat, NEW s \in replace_tokens(r, old, new, amount)
    PROVE  RegistryOK(s)
<1>. DEFINE c == liquidated_share(r.vault[old], amount)
<1>1. PICK q, t : /\ q \in IF is_liquidated(r.vault[old])
                           THEN UNION {pool_deposit_collateral(p, old, c) :
                                          p \in decrease_liquidated_collateral(r, old, c)}
                           ELSE {r}
                  /\ t \in execute_redeem_tokens(q, old, amount)
                  /\ s \in execute_issue_tokens(t, new, amount)
  BY DEF replace_tokens
<1>2. Settling(q, old, amount)
  <2>1. CASE is_liquidated(r.vault[old])
    <3>1. PICK p : /\ p \in decrease_liquidated_collateral(r, old, c)
                   /\ q \in pool_deposit_collateral(p, old, c)
      BY <1>1, <2>1
    <3>. QED BY <2>1, <3>1, RedepositSettling
  <2>2. CASE ~is_liquidated(r.vault[old])
    BY <1>1, <2>2, ActiveSettling
  <2>. QED BY <2>1, <2>2
<1>3. RegistryOK(t)
  BY <1>1, <1>2, SettleOK
<1>. QED BY <1>1, <1>3, ExecuteIssueTokensOK

LEMMA CancelReplaceTokensOK ==
    ASSUME NEW r, RegistryOK(r), NEW old \in Vaults, NEW new \in Vaults,
           NEW amount \in Nat, NEW s \in cancel_replace_tokens(r, old, new, amount)
    PROVE  RegistryOK(s)
<1>. DEFINE c == liquidated_share(r.vault[old], amount)
<1>1. PICK q, t : /\ q \in IF is_liquidated(r.vault[old])
                           THEN UNION {transfer_funds(p, <<"LiquidatedCollateral", old>>,
                                                      <<"LiquidationVault", old>>, c) :
                                          p \in decrease_liquidated_collateral(r, old, c)}
                           ELSE {r}
                  /\ t \in decrease_to_be_redeemed(q, old, amount)
                  /\ s \in decrease_to_be_issued(t, new, amount)
  BY DEF cancel_replace_tokens
<1>2. Settling(q, old, amount)
  <2>1. CASE is_liquidated(r.vault[old])
    <3>1. PICK p : /\ p \in decrease_liquidated_collateral(r, old, c)
                   /\ q \in transfer_funds(p, <<"LiquidatedCollateral", old>>,
                                           <<"LiquidationVault", old>>, c)
      BY <1>1, <2>1
    <3>. QED BY <3>1, ConfiscateSettling
  <2>2. CASE ~is_liquidated(r.vault[old])
    BY <1>1, <2>2, ActiveSettling
  <2>. QED BY <2>1, <2>2
<1>3. RegistryOK(t)
  BY <1>1, <1>2, SettleOK
<1>. QED BY <1>1, <1>3, DecreaseToBeIssuedOK

LEMMA BanVaultOK ==
    ASSUME NEW r, RegistryOK(r), NEW v \in Vaults, NEW s \in ban_vault(r, v)
    PROVE  RegistryOK(s) /\ s.vault[v].status = r.vault[v].status
<1>. DEFINE w == r.vault[v]
            x == [w EXCEPT !.banned = TRUE]
<1>1. w \in Vault /\ Locked(w) /\ Ordered(w) /\ NotStranded(w) /\ r \in Registry
  BY VaultsTyped DEF RegistryOK
<1>2. s = set_vault(r, v, x)
  BY DEF ban_vault, Try
<1>3. x \in Vault /\ Sound(x) /\ NotStranded(x) /\ x.status = w.status
  BY <1>1 DEF Vault, Sound, Locked, Ordered, NotStranded, is_liquidated
<1>. HIDE DEF x
<1>. QED BY <1>1, <1>2, <1>3, SetVaultOK, SetVaultType

-----------------------------------------------------------------------------
(* Liquidation                                                             *)

LEMMA WithdrawReplaceOK ==
    ASSUME NEW r, RegistryOK(r), NEW v \in Vaults, NEW amount \in Nat,
           NEW s \in withdraw_replace_request(r, v, amount)
    PROVE  /\ RegistryOK(s)
           /\ is_active(r.vault[v])
           /\ s.vault[v].status = r.vault[v].status
           /\ s.vault[v].to_be_redeemed = r.vault[v].to_be_redeemed
           /\ s.vault[v].to_be_issued = r.vault[v].to_be_issued
           /\ s.vault[v].issued = r.vault[v].issued
           /\ s.vault[v].stake = r.vault[v].stake
           /\ amount = r.vault[v].to_be_replaced =>
                 s.vault[v].to_be_replaced = 0 /\ s.vault[v].replace_collateral = 0
<1>. DEFINE w == r.vault[v]
            q == decrease_to_be_replaced_tokens(r, v, amount)
            x == [w EXCEPT !.to_be_replaced = @ - used_to_be_replaced(w, amount)]
            c == used_replace_collateral(w, amount)
<1>1. w \in Vault
  BY VaultsTyped DEF RegistryOK
<1>2. c \in Nat /\ used_to_be_replaced(w, amount) \in Nat
  BY <1>1, UsedReplace DEF Vault
<1>3. amount = w.to_be_replaced =>
         used_to_be_replaced(w, amount) = w.to_be_replaced /\ c = w.replace_collateral
  <2>1. w.to_be_replaced \in Nat /\ w.replace_collateral \in Nat
    BY <1>1 DEF Vault
  <2>2. calculate_collateral(w.replace_collateral, w.to_be_replaced, w.to_be_replaced)
           = w.replace_collateral
    BY <2>1, ShareOfAll
  <2>. QED BY <2>1, <2>2 DEF used_to_be_replaced, used_replace_collateral, min
<1>4. RegistryOK(q) /\ q.vault[v] = x
  BY DecreaseToBeReplacedOK
<1>5. /\ x.status = w.status /\ x.to_be_redeemed = w.to_be_redeemed
      /\ x.to_be_issued = w.to_be_issued /\ x.issued = w.issued /\ x.stake = w.stake
      /\ x.replace_collateral = w.replace_collateral
      /\ x.to_be_replaced = w.to_be_replaced - used_to_be_replaced(w, amount)
  BY <1>1 DEF Vault
<1>6. s \in release_funds(q, <<"AvailableReplaceCollateral", v>>, c)
  BY ToFreeBalance DEF withdraw_replace_request
<1>. HIDE DEF x, q, c
<1>7. /\ RegistryOK(s) /\ s.vault[v].status = x.status
      /\ s.vault[v].to_be_redeemed = x.to_be_redeemed
      /\ s.vault[v].to_be_issued = x.to_be_issued
      /\ s.vault[v].issued = x.issued /\ s.vault[v].stake = x.stake
      /\ is_active(x) /\ s.vault[v].replace_collateral = x.replace_collateral - c
      /\ s.vault[v].to_be_replaced = x.to_be_replaced
  <2>1. s \in release_funds(q, <<"AvailableReplaceCollateral", v>>, c)
                \cup release_funds(q, <<"ActiveReplaceCollateral", v>>, c)
    BY <1>6
  <2>. HIDE DEF w
  <2>. QED BY <1>2, <1>4, <1>6, <2>1, ReleaseReplaceOK
<1>8. is_active(w)
  BY <1>5, <1>7 DEF is_active
<1>. QED BY <1>1, <1>2, <1>3, <1>5, <1>7, <1>8 DEF Vault

(* The collateral that liquidation takes, and its two parts.               *)
LEMMA LiquidatedParts ==
    ASSUME ParamsOK, NEW w \in Vault, w.to_be_redeemed <= backed_tokens(w),
           NEW l, l = get_used_collateral(w, params.liquidation),
           NEW e, e = calculate_collateral(l, backed_tokens(w) - w.to_be_redeemed,
                                           backed_tokens(w))
    PROVE  /\ l \in Nat /\ l <= w.stake
           /\ e \in Nat /\ e <= l
           /\ saturating_sub(l, e) = l - e
           /\ w.to_be_redeemed = 0 => l - e = 0
<1>. DEFINE b == backed_tokens(w)
            n == b - w.to_be_redeemed
<1>1. b \in Nat /\ w.stake \in Nat /\ w.to_be_redeemed \in Nat
  BY DEF backed_tokens, Vault
<1>2. n \in Nat /\ n <= b
  BY <1>1
<1>3. params.liquidation \in Nat /\ exchangeRate \in Nat
  BY ParamsPositive
<1>. HIDE DEF b
<1>4. wrapped_to_collateral(b) \in Nat
  BY <1>1, <1>3, MulNat DEF wrapped_to_collateral
<1>5. checked_mul(wrapped_to_collateral(b), params.liquidation) \in Nat
  BY <1>3, <1>4, MulNat
<1>6. l \in Nat /\ l <= w.stake
  BY <1>1, <1>5 DEF get_used_collateral, min, b
<1>. HIDE DEF n
<1>7. e = calculate_collateral(l, n, b)
  BY DEF n, b
<1>8. e \in 0 .. l
  BY <1>1, <1>2, <1>6, <1>7, ShareBounded
<1>9. w.to_be_redeemed = 0 => e = l
  <2>1. w.to_be_redeemed = 0 => n = b
    BY <1>1 DEF n
  <2>2. calculate_collateral(l, b, b) = l
    BY <1>1, <1>6, ShareOfAll
  <2>. QED BY <1>7, <2>1, <2>2
<1>. QED BY <1>6, <1>8, <1>9 DEF saturating_sub

(* A vault that holds c of its stake for its to-be-redeemed tokens.        *)
Held(w, c) == [w EXCEPT !.liquidated_collateral = @ + c]

(* A vault whose tokens have moved to the liquidation vault.               *)
Moved(w) == [w EXCEPT !.issued = 0, !.to_be_issued = 0,
                      !.status = "liquidated", !.reward_stake = 0]

LEMMA MovedType ==
    ASSUME NEW w \in Vault
    PROVE  /\ Moved(w) \in Vault
           /\ Moved(w).status = "liquidated" /\ Moved(w).reward_stake = 0
           /\ Moved(w).issued = 0 /\ Moved(w).to_be_issued = 0
           /\ Moved(w).to_be_redeemed = w.to_be_redeemed
           /\ Moved(w).to_be_replaced = w.to_be_replaced
           /\ Moved(w).replace_collateral = w.replace_collateral
           /\ Moved(w).liquidated_collateral = w.liquidated_collateral
           /\ Moved(w).stake = w.stake /\ Moved(w).reserved = w.reserved
<1>. DEFINE a == [w EXCEPT !.issued = 0]
            b == [a EXCEPT !.to_be_issued = 0]
            c == [b EXCEPT !.status = "liquidated"]
            d == [c EXCEPT !.reward_stake = 0]
<1>1. a \in Vault
  BY DEF Vault
<1>2. b \in Vault
  <2>. HIDE DEF a
  <2>. QED BY <1>1 DEF Vault
<1>3. c \in Vault
  <2>. HIDE DEF b
  <2>. QED BY <1>2 DEF Vault, VaultStatus
<1>4. d \in Vault
  <2>. HIDE DEF c
  <2>. QED BY <1>3 DEF Vault
<1>5. Moved(w) = d
  BY DEF Moved, Vault
<1>. QED BY <1>4, <1>5 DEF Vault, Moved

LEMMA MoveTokens ==
    ASSUME NEW r \in Registry, r.lv.reserved = r.lv.collateral, NEW v \in Vaults
    PROVE  /\ move_tokens_to_liquidation_vault(r, v) \in Registry
           /\ move_tokens_to_liquidation_vault(r, v).vault
                 = [r.vault EXCEPT ![v] = Moved(r.vault[v])]
           /\ move_tokens_to_liquidation_vault(r, v).lv.reserved
                 = move_tokens_to_liquidation_vault(r, v).lv.collateral
<1>. DEFINE w == r.vault[v]
            q == set_vault(r, v, Moved(w))
            l == [[[r.lv EXCEPT !.issued = @ + w.issued]
                        EXCEPT !.to_be_issued = @ + w.to_be_issued]
                        EXCEPT !.to_be_redeemed = @ + w.to_be_redeemed]
            s == move_tokens_to_liquidation_vault(r, v)
<1>1. w \in Vault /\ r.lv \in SystemVault
  BY DEF Registry
<1>2. w.issued \in Nat /\ w.to_be_issued \in Nat /\ w.to_be_redeemed \in Nat
  BY <1>1 DEF Vault
<1>3. Moved(w) \in Vault
  BY <1>1, MovedType
<1>4. q \in Registry /\ q.vault = [r.vault EXCEPT ![v] = Moved(w)] /\ q.lv = r.lv
  BY <1>3, SetVaultType
<1>5. l \in SystemVault /\ l.reserved = l.collateral
  <2>. DEFINE l1 == [r.lv EXCEPT !.issued = @ + w.issued]
              l2 == [l1 EXCEPT !.to_be_issued = @ + w.to_be_issued]
  <2>. HIDE DEF w
  <2>1. l1 \in SystemVault /\ l1.reserved = l1.collateral
    BY <1>1, <1>2 DEF SystemVault
  <2>. HIDE DEF l1
  <2>2. l2 \in SystemVault /\ l2.reserved = l2.collateral
    BY <1>2, <2>1 DEF SystemVault
  <2>. HIDE DEF l2
  <2>3. [l2 EXCEPT !.to_be_redeemed = @ + w.to_be_redeemed] \in SystemVault
    BY <1>2, <2>2 DEF SystemVault
  <2>4. [l2 EXCEPT !.to_be_redeemed = @ + w.to_be_redeemed].reserved
           = [l2 EXCEPT !.to_be_redeemed = @ + w.to_be_redeemed].collateral
    BY <2>2 DEF SystemVault
  <2>. QED BY <2>3, <2>4 DEF l2, l1
<1>6. s = [q EXCEPT !.lv = l]
  <2>1. s = [q EXCEPT !.lv.issued = @ + w.issued,
                      !.lv.to_be_issued = @ + w.to_be_issued,
                      !.lv.to_be_redeemed = @ + w.to_be_redeemed]
    BY DEF move_tokens_to_liquidation_vault, Moved
  <2>. HIDE DEF q, w
  <2>. QED BY <1>1, <1>4, <2>1 DEF Registry, SystemVault
<1>. HIDE DEF q, l, s
<1>7. s \in Registry /\ s.vault = q.vault /\ s.lv = l
  BY <1>4, <1>5, <1>6 DEF Registry
<1>. QED BY <1>4, <1>5, <1>7 DEF s

(***************************************************************************)
(* liquidate_vault on the vault alone: f is held for the to-be-redeemed    *)
(* tokens, e goes to the liquidation vault.                                *)
(***************************************************************************)
LEMMA VaultLiquidated ==
    ASSUME ParamsOK, NEW w, Sound(w), ~is_liquidated(w),
           w.to_be_replaced = 0, w.replace_collateral = 0,
           NEW f \in Nat, NEW e \in Nat, f + e <= w.stake,
           NEW x, x = Slashed(Held(w, f), f), NEW y, y = Slashed(x, e), NEW p, p = Slashed(y, 0)
    PROVE  /\ x \in Vault /\ x.stake = w.stake - f
           /\ y \in Vault /\ p \in Vault
           /\ Unlocked(p, e) \in Vault =>
                 /\ Sound(Moved(Unlocked(p, e)))
                 /\ Moved(Unlocked(p, e)).to_be_redeemed = w.to_be_redeemed
                 /\ Moved(Unlocked(p, e)).liquidated_collateral = f
<1>. DEFINE h == Held(w, f)
<1>1. w \in Vault /\ w.liquidated_collateral = 0 /\ w.reserved = w.stake /\ w.stake \in Nat
  BY DEF Sound, Locked, Ordered, Vault
<1>2. /\ h \in Vault /\ h.liquidated_collateral = f /\ h.stake = w.stake
      /\ h.reserved = w.stake /\ h.to_be_redeemed = w.to_be_redeemed
      /\ h.to_be_replaced = 0 /\ h.replace_collateral = 0
  BY <1>1 DEF Held, Vault
<1>. HIDE DEF h
<1>3. x = Slashed(h, f) /\ f <= h.stake
  BY <1>1, <1>2 DEF h
<1>4. /\ x \in Vault /\ x.liquidated_collateral = f /\ x.stake = w.stake - f
      /\ x.reserved = w.stake /\ x.to_be_redeemed = w.to_be_redeemed
      /\ x.to_be_replaced = 0 /\ x.replace_collateral = 0
  <2>1. PICK z \in Vault, n \in Nat :
             /\ z = [h EXCEPT !.stake = @ - f, !.reward_stake = n]
             /\ z = Slashed(h, f)
             /\ h.status # "accepting" => n = 0
    BY <1>2, <1>3, PoolSlash
  <2>2. x = z
    BY <1>3, <2>1
  <2>. QED BY <1>2, <2>1, <2>2 DEF Vault
<1>5. /\ y \in Vault /\ y.liquidated_collateral = f /\ y.stake = w.stake - f - e
      /\ y.reserved = w.stake /\ y.to_be_redeemed = w.to_be_redeemed
      /\ y.to_be_replaced = 0 /\ y.replace_collateral = 0
  <2>1. PICK z \in Vault, n \in Nat :
             /\ z = [x EXCEPT !.stake = @ - e, !.reward_stake = n]
             /\ z = Slashed(x, e)
             /\ x.status # "accepting" => n = 0
    <3>1. e <= x.stake
      BY <1>1, <1>4
    <3>. QED BY <1>4, <3>1, PoolSlash
  <2>2. y = z
    BY <2>1
  <2>. QED BY <1>4, <2>1, <2>2 DEF Vault
<1>6. /\ p \in Vault /\ p.liquidated_collateral = f /\ p.stake = w.stake - f - e
      /\ p.reserved = w.stake /\ p.to_be_redeemed = w.to_be_redeemed
      /\ p.to_be_replaced = 0 /\ p.replace_collateral = 0
  <2>1. 0 \in Nat /\ 0 <= y.stake
    BY <1>5 DEF Vault
  <2>2. PICK z \in Vault, n \in Nat :
             /\ z = [y EXCEPT !.stake = @ - 0, !.reward_stake = n]
             /\ z = Slashed(y, 0)
             /\ y.status # "accepting" => n = 0
    BY <1>5, <2>1, PoolSlash
  <2>3. /\ z.liquidated_collateral = f /\ z.stake = w.stake - f - e
        /\ z.reserved = w.stake /\ z.to_be_redeemed = w.to_be_redeemed
        /\ z.to_be_replaced = 0 /\ z.replace_collateral = 0
    BY <1>1, <1>5, <2>2 DEF Vault
  <2>. QED BY <2>2, <2>3
<1>. DEFINE k == Unlocked(p, e)
<1>7. ASSUME k \in Vault
      PROVE  /\ Sound(Moved(k))
             /\ Moved(k).to_be_redeemed = w.to_be_redeemed
             /\ Moved(k).liquidated_collateral = f
  <2>1. /\ k.liquidated_collateral = f /\ k.stake = w.stake - f - e
        /\ k.reserved = w.stake - e /\ k.to_be_redeemed = w.to_be_redeemed
        /\ k.to_be_replaced = 0 /\ k.replace_collateral = 0
    BY <1>6 DEF Vault, Unlocked
  <2>. HIDE DEF k
  <2>. QED BY <1>1, <1>7, <2>1, MovedType DEF Sound, Locked, Ordered, is_liquidated
<1>. QED BY <1>4, <1>5, <1>6, <1>7

(* The vault gives up its replace offer and then its tokens.               *)
MovedAfterWithdrawal(r, v, s) ==
    \E q, x : /\ q \in withdraw_replace_request(r, v, r.vault[v].to_be_replaced)
              /\ x \in Vault /\ s.vault = [q.vault EXCEPT ![v] = Moved(x)]

(* The vault after its first slash.                                        *)
LEMMA SlashForRedeems ==
    ASSUME ParamsOK, NEW r \in Registry, NEW v \in Vaults, NEW f \in Nat,
           min(r.vault[v].stake, f) = f, f <= r.vault[v].stake,
           NEW s \in slash_for_to_be_redeemed(r, v, f)
    PROVE  /\ s \in Registry
           /\ s.vault = [r.vault EXCEPT ![v] = Slashed(Held(r.vault[v], f), f)]
           /\ s.vault[v] = Slashed(Held(r.vault[v], f), f)
           /\ s.lv = r.lv /\ s.total = r.total /\ s.griefing = r.griefing
<1>. DEFINE h == Held(r.vault[v], f)
            q == set_vault(r, v, h)
<1>1. r.vault[v] \in Vault
  BY DEF Registry
<1>2. h \in Vault /\ h.stake = r.vault[v].stake
  BY <1>1 DEF Held, Vault
<1>3. s \in pool_withdraw_collateral(q, v, f)
  BY DEF slash_for_to_be_redeemed, Held
<1>. HIDE DEF h
<1>4. /\ q \in Registry /\ q.vault = [r.vault EXCEPT ![v] = h] /\ q.vault[v] = h
      /\ q.lv = r.lv /\ q.total = r.total /\ q.griefing = r.griefing
  BY <1>2, SetVaultType
<1>. HIDE DEF q
<1>5. /\ s \in Registry /\ s.vault = [q.vault EXCEPT ![v] = Slashed(h, f)]
      /\ s.vault[v] = Slashed(h, f)
      /\ s.lv = q.lv /\ s.total = q.total /\ s.griefing = q.griefing
  <2>1. s \in pool_slash_collateral(q, v, f) /\ f <= q.vault[v].stake
    BY <1>3, <1>4, Withdraws
  <2>2. /\ s \in Registry /\ s.vault = [q.vault EXCEPT ![v] = Slashed(q.vault[v], f)]
        /\ s.vault[v] = Slashed(q.vault[v], f)
        /\ s.lv = q.lv /\ s.total = q.total /\ s.griefing = q.griefing
    <3>1. q \in Registry
      BY <1>4
    <3>. QED BY <2>1, <3>1, StakeSlashed
  <2>. QED BY <1>4, <2>2
<1>6. s.vault = [r.vault EXCEPT ![v] = Slashed(h, f)]
  BY <1>4, <1>5
<1>. QED BY <1>4, <1>5, <1>6 DEF h

LEMMA CapacityLeft ==
    ASSUME NEW r \in Registry, NEW accepted, NEW s \in leave_capacity(r, accepted)
    PROVE  SameParts(r, s)
<1>1. CASE s = r
  BY <1>1 DEF SameParts
<1>2. CASE s = set_capacity(r, "stale")
  BY <1>2, CapacitySet DEF Capacity
<1>. QED BY <1>1, <1>2 DEF leave_capacity, Try

LEMMA LiquidateVaultOK ==
    ASSUME ParamsOK, NEW r, RegistryOK(r), NEW v \in Vaults, NEW s \in liquidate_vault(r, v)
    PROVE  /\ RegistryOK(s)
           /\ MovedAfterWithdrawal(r, v, s)
<1>. DEFINE w == r.vault[v]
            b == backed_tokens(w)
            l == get_used_collateral(w, params.liquidation)
            taken == calculate_collateral(l, b - w.to_be_redeemed, b)
<1>1. w \in Vault /\ w.to_be_replaced \in Nat
  BY VaultsTyped DEF RegistryOK, Vault
<1>2. is_active(w) /\ w.to_be_redeemed <= b
  BY DEF liquidate_vault
<1>a. PICK e, f : e = taken /\ f = saturating_sub(l, taken)
  OBVIOUS
<1>3. /\ l \in Nat /\ l <= w.stake /\ e \in Nat /\ e <= l /\ f = l - e
      /\ w.to_be_redeemed = 0 => f = 0
  BY <1>a, <1>1, <1>2, LiquidatedParts
<1>4. PICK r1, r2, r3 : /\ r1 \in withdraw_replace_request(r, v, w.to_be_replaced)
                        /\ r2 \in slash_for_to_be_redeemed(r1, v, f)
                        /\ r3 \in slash_to_liquidation_vault(r2, v, e)
                        /\ s \in leave_capacity(move_tokens_to_liquidation_vault(r3, v),
                                                w.status = "accepting")
  BY <1>a DEF liquidate_vault
<1>. HIDE DEF l, b
<1>. DEFINE w1 == r1.vault[v]
<1>5. /\ RegistryOK(r1) /\ w1.status = w.status /\ w1.to_be_redeemed = w.to_be_redeemed
      /\ w1.stake = w.stake /\ w1.to_be_replaced = 0 /\ w1.replace_collateral = 0
  BY <1>1, <1>4, WithdrawReplaceOK
<1>6. /\ r1 \in Registry /\ r1.vault \in [Vaults -> Vault] /\ w1 \in Vault /\ Sound(w1)
      /\ r1.lv.reserved = r1.lv.collateral /\ ~is_liquidated(w1)
  BY <1>2, <1>5, VaultsTyped DEF RegistryOK, RegistrySound, is_active, is_liquidated
<1>7. f \in Nat /\ f + e <= w1.stake /\ w1.stake \in Nat /\ min(w1.stake, f) = f
  BY <1>1, <1>3, <1>5 DEF min, Vault
<1>. HIDE DEF w
<1>8. PICK x, y, z : x = Slashed(Held(w1, f), f) /\ y = Slashed(x, e) /\ z = Slashed(y, 0)
  OBVIOUS
<1>. DEFINE k == Unlocked(z, e)
<1>9. /\ x \in Vault /\ x.stake = w1.stake - f /\ y \in Vault /\ z \in Vault
      /\ k \in Vault => /\ Sound(Moved(k))
                        /\ Moved(k).to_be_redeemed = w1.to_be_redeemed
                        /\ Moved(k).liquidated_collateral = f
  BY <1>3, <1>5, <1>6, <1>7, <1>8, VaultLiquidated
<1>10. /\ r2 \in Registry /\ r2.vault = [r1.vault EXCEPT ![v] = x] /\ r2.vault[v] = x
       /\ r2.lv = r1.lv
  <2>1. f <= w1.stake
    BY <1>3, <1>7
  <2>. QED BY <1>4, <1>6, <1>7, <1>8, <2>1, SlashForRedeems
<1>11. e <= x.stake /\ min(e, x.stake) = e /\ e - e = 0
  BY <1>3, <1>7, <1>9 DEF min
<1>12. PICK p, q : /\ p \in pool_withdraw_collateral(r2, v, e)
                   /\ q \in pool_slash_collateral(p, v, 0)
                   /\ r3 \in transfer_funds(q, <<"LiquidatedCollateral", v>>,
                                             <<"LiquidationVault", v>>, e)
  BY <1>4, <1>10, <1>11 DEF slash_to_liquidation_vault
<1>. HIDE DEF w1
<1>13. /\ p \in Registry /\ p.vault = [r2.vault EXCEPT ![v] = y] /\ p.vault[v] = y
       /\ p.lv = r2.lv
  <2>1. p \in pool_slash_collateral(r2, v, e) /\ e <= r2.vault[v].stake
    BY <1>10, <1>12, Withdraws
  <2>2. /\ p \in Registry /\ p.vault = [r2.vault EXCEPT ![v] = Slashed(r2.vault[v], e)]
        /\ p.vault[v] = Slashed(r2.vault[v], e) /\ p.lv = r2.lv
    <3>1. r2 \in Registry /\ e \in Nat
      BY <1>3, <1>10
    <3>. QED BY <2>1, <3>1, StakeSlashed
  <2>. QED BY <1>8, <1>10, <2>2
<1>14. /\ q \in Registry /\ q.vault = [p.vault EXCEPT ![v] = z] /\ q.vault[v] = z
       /\ q.lv = r1.lv /\ q.lv.reserved = q.lv.collateral
  <2>1. 0 \in Nat /\ 0 <= p.vault[v].stake
    BY <1>9, <1>13 DEF Vault
  <2>. QED BY <1>6, <1>8, <1>10, <1>12, <1>13, <2>1, StakeSlashed
<1>15. r3 \in transfer_funds(q, <<"LiquidatedCollateral", v>>, <<"LiquidationVault", v>>, e)
  BY <1>12
<1>16. /\ k \in Vault /\ r3 \in Registry /\ r3.vault = [q.vault EXCEPT ![v] = k]
       /\ r3.lv.reserved = r3.lv.collateral
  <2>0. q \in Registry /\ q.lv.reserved = q.lv.collateral /\ e \in Nat
    BY <1>3, <1>14
  <2>1. /\ Unlocked(q.vault[v], e) \in Vault /\ r3 \in Registry
        /\ r3.vault = [q.vault EXCEPT ![v] = Unlocked(q.vault[v], e)]
        /\ r3.lv.reserved = r3.lv.collateral
    BY <1>15, <2>0, ToLiquidationVault
  <2>. QED BY <1>14, <2>1
<1>. HIDE DEF k
<1>17. r3.vault = [r1.vault EXCEPT ![v] = k] /\ r3.vault[v] = k
  BY <1>6, <1>10, <1>13, <1>14, <1>16
<1>18. /\ s \in Registry /\ s.vault = [r3.vault EXCEPT ![v] = Moved(k)]
       /\ s.lv.reserved = s.lv.collateral
  <2>. DEFINE m == move_tokens_to_liquidation_vault(r3, v)
  <2>1. /\ m \in Registry /\ m.vault = [r3.vault EXCEPT ![v] = Moved(k)]
        /\ m.lv.reserved = m.lv.collateral
    BY <1>16, <1>17, MoveTokens
  <2>. HIDE DEF m
  <2>2. SameParts(m, s)
    BY <1>4, <2>1, CapacityLeft DEF m
  <2>. QED BY <2>1, <2>2 DEF SameParts
<1>19. s.vault = [r1.vault EXCEPT ![v] = Moved(k)]
  BY <1>6, <1>17, <1>18
<1>20. Sound(Moved(k)) /\ NotStranded(Moved(k))
  BY <1>3, <1>5, <1>9, <1>16 DEF NotStranded
<1>21. RegistryOK(s)
  BY <1>5, <1>18, <1>19, <1>20, OneVaultChanged
<1>22. r1 \in withdraw_replace_request(r, v, r.vault[v].to_be_replaced) /\ k \in Vault
  BY <1>4, <1>16 DEF w
<1>23. MovedAfterWithdrawal(r, v, s)
  BY <1>19, <1>22 DEF MovedAfterWithdrawal
<1>. QED BY <1>21, <1>23

-----------------------------------------------------------------------------
(* Extrinsics                                                              *)

RegistryInv == ParamsOK /\ RegistryOK(registry)

LEMMA RegistryInitInv == RegistryInit => RegistryInv
<1>. SUFFICES ASSUME RegistryInit PROVE RegistryInv
  OBVIOUS
<1>1. NoVault \in Vault /\ Sound(NoVault) /\ NotStranded(NoVault)
  BY DEF NoVault, Vault, VaultStatus, Sound, Locked, Ordered, NotStranded, is_liquidated
<1>2. registry \in Registry /\ registry.lv.reserved = registry.lv.collateral
  BY <1>1 DEF RegistryInit, Registry, SystemVault, Capacity
<1>3. ASSUME NEW v \in Vaults PROVE registry.vault[v] = NoVault
  BY DEF RegistryInit
<1>4. RegistryOK(registry)
  BY <1>1, <1>2, <1>3 DEF RegistryOK, RegistrySound
<1>. QED BY <1>4 DEF RegistryInit, RegistryInv, ParamsOK

(* A change of a vault that leaves its tokens and its collateral alone.    *)
LEMMA UpdatedSound ==
    ASSUME ParamsOK, NEW w, Sound(w), NotStranded(w)
    PROVE  /\ Sound(update_reward_stake(w)) /\ NotStranded(update_reward_stake(w))
<1>1. w \in Vault
  BY DEF Sound
<1>2. PICK n \in Nat : /\ update_reward_stake(w) = [w EXCEPT !.reward_stake = n]
                       /\ w.status # "accepting" => n = 0
  BY <1>1, UpdateRewardStake
<1>. QED BY <1>1, <1>2 DEF Sound, Locked, Ordered, NotStranded, is_liquidated, Vault

LEMMA RegisterVault ==
    ASSUME RegistryInv, NEW v \in Vaults, NEW c \in Nat, register_vault(v, c)
    PROVE  RegistryOK(registry')
<1>. DEFINE x == [NoVault EXCEPT !.status = "accepting"]
<1>a. /\ NoVault \in Vault /\ NoVault.to_be_redeemed = 0 /\ NoVault.issued = 0
      /\ NoVault.liquidated_collateral = 0 /\ NoVault.stake = 0 /\ NoVault.reserved = 0
  BY DEF NoVault, Vault, VaultStatus
<1>1. Sound(x) /\ NotStranded(x)
  BY <1>a DEF Vault, VaultStatus, Sound, Locked, Ordered, NotStranded, is_liquidated
<1>2. RegistryOK(set_vault(registry, v, x))
  BY <1>1, SetVaultOK DEF RegistryInv
<1>3. PICK q : q = set_vault(registry, v, x)
  OBVIOUS
<1>4. PICK s : s = registry' /\ s \in try_deposit_collateral(q, v, c)
  BY <1>3 DEF register_vault
<1>5. q.vault[v].status # "none"
  <2>1. registry \in Registry /\ x \in Vault /\ x.status = "accepting"
    BY <1>1, <1>a DEF Sound, RegistryInv, RegistryOK, RegistrySound, Vault
  <2>. HIDE DEF x
  <2>. QED BY <1>3, <2>1, SetVaultType
<1>. QED BY <1>2, <1>3, <1>4, <1>5, TryDepositOK DEF RegistryInv

LEMMA UpdateVault ==
    ASSUME RegistryInv, NEW v \in Vaults,
           \/ \E b \in BOOLEAN : accept_new_issues(v, b)
           \/ \E t \in CustomThresholds : set_custom_secure_threshold(v, t)
    PROVE  RegistryOK(registry')
<1>. DEFINE w == registry.vault[v]
<1>0. RegistryOK(registry) /\ ParamsOK
  BY DEF RegistryInv
<1>1. w \in Vault /\ Sound(w) /\ NotStranded(w)
  BY <1>0 DEF RegistryOK, RegistrySound, Sound
<1>2. PICK x : Sound(x) /\ NotStranded(x) /\ registry' \in update_pools(registry, v, x)
  <2>1. ASSUME NEW b \in BOOLEAN, accept_new_issues(v, b)
        PROVE  \E x : /\ Sound(x) /\ NotStranded(x)
                      /\ registry' \in update_pools(registry, v, x)
    <3>. DEFINE st == IF b THEN "accepting" ELSE "paused"
                x == [w EXCEPT !.status = st]
    <3>1. is_active(w) /\ registry' \in update_pools(registry, v, x)
      BY <2>1 DEF accept_new_issues
    <3>2. st \in VaultStatus /\ st # "liquidated" /\ st # "none"
      BY DEF VaultStatus
    <3>. HIDE DEF st, w
    <3>3. Sound(x) /\ NotStranded(x)
      BY <1>1, <3>1, <3>2
         DEF Sound, Locked, Ordered, NotStranded, is_liquidated, is_active, Vault
    <3>. QED BY <3>1, <3>3
  <2>2. ASSUME NEW t \in CustomThresholds, set_custom_secure_threshold(v, t)
        PROVE  \E x : /\ Sound(x) /\ NotStranded(x)
                      /\ registry' \in update_pools(registry, v, x)
    <3>. DEFINE x == [w EXCEPT !.secure_collateral_threshold = t]
    <3>1. registry' \in update_pools(registry, v, x)
      BY <2>2 DEF set_custom_secure_threshold
    <3>2. t \in Nat
      BY RegistryAssumption
    <3>. HIDE DEF w
    <3>3. Sound(x) /\ NotStranded(x)
      BY <1>1, <3>2 DEF Sound, Locked, Ordered, NotStranded, is_liquidated, Vault
    <3>. QED BY <3>1, <3>3
  <2>. QED BY <2>1, <2>2
<1>3. Sound(update_reward_stake(x)) /\ NotStranded(update_reward_stake(x))
  BY <1>0, <1>2, UpdatedSound
<1>4. registry \in Registry
  BY <1>0 DEF RegistryOK, RegistrySound
<1>5. PICK q, y : /\ y = update_reward_stake(x) /\ SameParts(registry, q)
                  /\ registry' = set_vault(q, v, y)
  BY <1>2, <1>4, PoolsUpdated
<1>6. RegistryOK(q)
  BY <1>0, <1>5, SamePartsOK
<1>7. RegistryOK(set_vault(q, v, y))
  BY <1>3, <1>5, <1>6, SetVaultOK
<1>. QED BY <1>5, <1>7

LEMMA RecoverVault ==
    ASSUME RegistryInv, NEW v \in Vaults, recover_vault_id(v) \/ ban_expires(v)
    PROVE  RegistryOK(registry')
<1>. DEFINE w == registry.vault[v]
<1>0. RegistryOK(registry) /\ ParamsOK /\ registry \in Registry
  BY DEF RegistryInv, RegistryOK, RegistrySound
<1>1. w \in Vault /\ Sound(w) /\ NotStranded(w)
  BY <1>0 DEF RegistryOK, RegistrySound, Sound
<1>2. CASE recover_vault_id(v)
  <2>. DEFINE x == [w EXCEPT !.status = "accepting"]
  <2>1. w.to_be_redeemed = 0 /\ is_liquidated(w) /\ registry' = set_vault(registry, v, x)
    BY <1>2 DEF recover_vault_id
  <2>. HIDE DEF w
  <2>2. Sound(x) /\ NotStranded(x)
    BY <1>1, <2>1 DEF Sound, Locked, Ordered, NotStranded, is_liquidated, Vault, VaultStatus
  <2>. HIDE DEF x
  <2>. QED BY <1>0, <2>1, <2>2, SetVaultOK
<1>3. CASE ban_expires(v)
  <2>. DEFINE x == [w EXCEPT !.banned = FALSE]
  <2>1. registry' = set_vault(registry, v, x)
    BY <1>0, <1>3 DEF ban_expires, set_vault, Registry
  <2>. HIDE DEF w
  <2>2. Sound(x) /\ NotStranded(x)
    BY <1>1 DEF Sound, Locked, Ordered, NotStranded, is_liquidated, Vault
  <2>. HIDE DEF x
  <2>. QED BY <1>0, <2>1, <2>2, SetVaultOK
<1>. QED BY <1>2, <1>3

LEMMA MoveCollateral ==
    ASSUME RegistryInv, NEW v \in Vaults, NEW c \in Nat,
           \/ deposit_collateral(v, c)
           \/ withdraw_collateral(v, c)
           \/ report_undercollateralized_vault(v)
    PROVE  RegistryOK(registry')
<1>1. PICK r, s : r = registry /\ s = registry'
  OBVIOUS
<1>2. RegistryOK(r) /\ ParamsOK
  BY <1>1 DEF RegistryInv
<1>3. CASE deposit_collateral(v, c)
  <2>1. s \in try_deposit_collateral(r, v, c) /\ r.vault[v].status # "none"
    BY <1>1, <1>3 DEF deposit_collateral, vault_exists
  <2>. QED BY <1>1, <1>2, <2>1, TryDepositOK
<1>4. CASE withdraw_collateral(v, c)
  <2>1. s \in force_withdraw_collateral(r, v, c)
    BY <1>1, <1>4 DEF withdraw_collateral
  <2>. QED BY <1>1, <1>2, <2>1, ForceWithdrawOK
<1>5. CASE report_undercollateralized_vault(v)
  <2>1. s \in liquidate_vault(r, v)
    BY <1>1, <1>5 DEF report_undercollateralized_vault
  <2>. QED BY <1>1, <1>2, <2>1, LiquidateVaultOK
<1>. QED BY <1>3, <1>4, <1>5

(* A price or a block reward reaches the capacity alone.                   *)
LEMMA CapacityMoves ==
    ASSUME registry \in Registry,
           (\E rate \in Rates : feed_values(rate)) \/ distribute_block_reward
    PROVE  SameParts(registry, registry')
<1>1. CASE registry' = registry
  BY <1>1 DEF SameParts
<1>2. CASE \E c \in Capacity : registry' = set_capacity(registry, c)
  BY <1>2, CapacitySet
<1>. QED BY <1>1, <1>2 DEF feed_values, distribute_block_reward, Capacity

LEMMA RegistryNextInv == RegistryInv /\ RegistryNext => RegistryInv'
<1>. SUFFICES ASSUME RegistryInv, RegistryNext PROVE RegistryInv'
  OBVIOUS
<1>0. RegistryOK(registry) /\ ParamsOK
  BY DEF RegistryInv
<1>1. ASSUME NEW v \in Vaults, NEW c \in CollateralAmounts \cup {registry.vault[v].stake},
             \/ register_vault(v, c)
             \/ deposit_collateral(v, c)
             \/ withdraw_collateral(v, c)
      PROVE  RegistryInv'
  <2>1. c \in Nat
    BY <1>0, VaultsTyped, RegistryAssumption DEF RegistryOK, Vault
  <2>2. RegistryOK(registry')
    BY <1>1, <2>1, RegisterVault, MoveCollateral
  <2>3. UNCHANGED <<exchangeRate, params>>
    BY <1>1 DEF register_vault, deposit_collateral, withdraw_collateral
  <2>. QED BY <1>0, <2>2, <2>3 DEF RegistryInv, ParamsOK
<1>2. ASSUME NEW v \in Vaults,
             \/ \E b \in BOOLEAN : accept_new_issues(v, b)
             \/ \E t \in CustomThresholds : set_custom_secure_threshold(v, t)
             \/ report_undercollateralized_vault(v)
             \/ recover_vault_id(v)
             \/ ban_expires(v)
      PROVE  RegistryInv'
  <2>1. 0 \in Nat
    OBVIOUS
  <2>2. RegistryOK(registry')
    BY <1>2, <2>1, UpdateVault, MoveCollateral, RecoverVault
  <2>3. UNCHANGED <<exchangeRate, params>>
    BY <1>2 DEF accept_new_issues, set_custom_secure_threshold,
                report_undercollateralized_vault, recover_vault_id, ban_expires
  <2>. QED BY <1>0, <2>2, <2>3 DEF RegistryInv, ParamsOK
<1>3. CASE set_parameters
  BY <1>0, <1>3 DEF RegistryInv, ParamsOK, Params, set_parameters
<1>4. CASE (\E rate \in Rates : feed_values(rate)) \/ distribute_block_reward
  <2>1. SameParts(registry, registry')
    BY <1>0, <1>4, CapacityMoves DEF RegistryOK, RegistrySound
  <2>2. RegistryOK(registry')
    BY <1>0, <2>1, SamePartsOK
  <2>3. UNCHANGED params /\ exchangeRate' \in Rates
    BY <1>0, <1>4 DEF feed_values, distribute_block_reward, ParamsOK
  <2>. QED BY <1>0, <2>2, <2>3 DEF RegistryInv, ParamsOK
<1>. QED BY <1>1, <1>2, <1>3, <1>4 DEF RegistryNext

-----------------------------------------------------------------------------
(* Balances of the wrapped currency                                        *)

Ledger == [Holders -> Balance]

LEMMA MintType ==
    ASSUME NEW t \in Ledger, NEW a \in Holders, NEW amount \in Nat
    PROVE  mint_to(t, a, amount) \in Ledger
BY DEF mint_to, Ledger, Balance

LEMMA LockType ==
    ASSUME NEW t \in Ledger, NEW a \in Holders, NEW amount \in Nat,
           NEW s \in lock_on(t, a, amount) \cup unlock_on(t, a, amount)
                       \cup burn_from(t, a, amount)
    PROVE  s \in Ledger
BY DEF lock_on, unlock_on, burn_from, Try, Ledger, Balance

LEMMA TransferType ==
    ASSUME NEW t \in Ledger, NEW a \in Holders, NEW b \in Holders, NEW amount \in Nat,
           NEW s \in transfer(t, a, b, amount)
    PROVE  s \in Ledger
<1>1. amount <= t[a].free
  BY DEF transfer, Try
<1>. DEFINE q == [t EXCEPT ![a].free = @ - amount]
<1>2. q \in Ledger
  BY <1>1 DEF Ledger, Balance
<1>3. s = [q EXCEPT ![b].free = @ + amount]
  BY DEF transfer, Try
<1>. HIDE DEF q
<1>. QED BY <1>2, <1>3 DEF Ledger, Balance

LEMMA UnlockTransferType ==
    ASSUME NEW t \in Ledger, NEW a \in Holders, NEW b \in Holders, NEW amount \in Nat,
           NEW s \in unlock_and_transfer(t, a, b, amount)
    PROVE  s \in Ledger
<1>1. PICK q : q \in unlock_on(t, a, amount) /\ s \in transfer(q, a, b, amount)
  BY DEF unlock_and_transfer
<1>2. q \in Ledger
  BY <1>1, LockType
<1>. QED BY <1>1, <1>2, TransferType
-----------------------------------------------------------------------------
(* Sequences of requests                                                   *)

LEMMA RequestAdded ==
    ASSUME NEW S, NEW q \in Seq(S), NEW x \in S
    PROVE  Append(q, x) \in Seq(S)
BY AppendProperties

LEMMA RequestChanged ==
    ASSUME NEW S, NEW q \in Seq(S), NEW i \in DOMAIN q
    PROVE  /\ q[i] \in S
           /\ \A x \in S : [q EXCEPT ![i] = x] \in Seq(S)
<1>1. i \in 1 .. Len(q)
  BY LenProperties
<1>2. q[i] \in S
  BY <1>1, ElementOfSeq
<1>3. ASSUME NEW x \in S PROVE [q EXCEPT ![i] = x] \in Seq(S)
  BY <1>1, ExceptSeq
<1>. QED BY <1>2, <1>3

-----------------------------------------------------------------------------
(* The issue pallet                                                        *)

BridgeInv ==
    /\ RegistryInv
    /\ tokens \in Ledger
    /\ IssueTypeOK
    /\ RedeemTypeOK
    /\ ReplaceTypeOK

LEMMA HoldersTyped ==
    /\ Vaults \subseteq Accounts /\ Accounts \subseteq Holders /\ FeePool \in Holders
    /\ Requesters \subseteq Accounts
BY TreasuryAssumption DEF Accounts, Holders

LEMMA IssuableNat ==
    ASSUME ParamsOK, NEW w \in Vault
    PROVE  issuable_tokens(w) \in Nat
<1>. DEFINE t == get_secure_threshold(w)
            c == checked_mul(wrapped_to_collateral(backed_tokens(w)), t)
<1>1. t \in Nat \ {0} /\ exchangeRate \in Nat \ {0}
  BY SecureThreshold, ParamsPositive
<1>2. w.stake \in Nat /\ backed_tokens(w) \in Nat
  BY DEF Vault, backed_tokens
<1>3. wrapped_to_collateral(backed_tokens(w)) \in Nat
  BY <1>1, <1>2, MulNat DEF wrapped_to_collateral
<1>. HIDE DEF t
<1>4. c \in Nat
  BY <1>1, <1>3, MulNat
<1>. HIDE DEF c
<1>5. get_free_collateral(w) \in Nat
  BY <1>2, <1>4 DEF get_free_collateral, get_used_collateral, min, c, t
<1>6. collateral_to_wrapped(get_free_collateral(w)) \in Nat
  BY <1>1, <1>5, DivNat DEF collateral_to_wrapped
<1>7. checked_div(collateral_to_wrapped(get_free_collateral(w)), t) \in Nat
  BY <1>1, <1>6, DivNat
<1>. QED BY <1>7 DEF issuable_tokens, calculate_max_wrapped_from_collateral_for_threshold, t

LEMMA SetIssueAmountType ==
    ASSUME NEW issue \in IssueRequest, NEW x \in Nat
    PROVE  set_issue_amount(issue, x) \in IssueRequest
<1>1. get_issue_fee(x) \in 0 .. x
  BY FeeBounded, FeeAssumption DEF get_issue_fee
<1>2. get_issue_fee(x) \in Nat /\ x - get_issue_fee(x) \in Nat
  BY <1>1
<1>. DEFINE a == [issue EXCEPT !.fee = get_issue_fee(x)]
<1>3. a \in IssueRequest
  BY <1>2 DEF IssueRequest
<1>4. set_issue_amount(issue, x) = [a EXCEPT !.amount = x - get_issue_fee(x)]
  BY DEF set_issue_amount, IssueRequest
<1>. HIDE DEF a
<1>. QED BY <1>2, <1>3, <1>4 DEF IssueRequest

LEMMA RequestIssue ==
    ASSUME BridgeInv, NEW a \in Requesters, NEW v \in Vaults, NEW x \in TokenAmounts,
           request_issue(a, v, x)
    PROVE  RegistryInv' /\ tokens' \in Ledger /\ IssueTypeOK'
<1>. DEFINE g == get_issue_griefing_collateral(x)
<1>0. RegistryOK(registry) /\ ParamsOK /\ x \in Nat /\ a \in Accounts
  BY HoldersTyped, RegistryAssumption DEF BridgeInv, RegistryInv
<1>1. g \in Nat
  <2>1. checked_mul(x, GriefingRate) \in Nat
    BY <1>0, FeeAssumption, MulNat
  <2>. QED BY <2>1, FeeAssumption, MulNat DEF get_issue_griefing_collateral
<1>. HIDE DEF g
<1>2. PICK s \in try_increase_to_be_issued_tokens(registry, v, x) :
           registry' = [s EXCEPT !.griefing[a] = @ + g]
  BY DEF request_issue, g
<1>3. RegistryOK(s)
  BY <1>0, TryIncreaseToBeIssuedOK
<1>4. RegistryOK(registry')
  BY <1>0, <1>1, <1>2, <1>3, LockGriefingOK
<1>. DEFINE n == [vault |-> v, requester |-> a, amount |-> 0, fee |-> 0,
                  griefing_collateral |-> g, expired |-> FALSE, status |-> "Pending"]
<1>5. n \in IssueRequest
  BY <1>0, <1>1 DEF IssueRequest
<1>6. issueRequests' = Append(issueRequests, set_issue_amount(n, x))
      /\ UNCHANGED <<exchangeRate, params, tokens>>
  BY DEF request_issue, g
<1>. HIDE DEF n
<1>7. set_issue_amount(n, x) \in IssueRequest
  BY <1>0, <1>5, SetIssueAmountType
<1>8. IssueTypeOK'
  BY <1>6, <1>7, RequestAdded DEF BridgeInv, IssueTypeOK
<1>. QED BY <1>0, <1>4, <1>6, <1>8 DEF BridgeInv, RegistryInv, ParamsOK

LEMMA FinishIssue ==
    ASSUME BridgeInv, NEW i \in IssueIds, NEW prepared, NEW total \in Nat,
           \A s \in prepared : RegistryOK(s),
           finish_issue(i, prepared, total)
    PROVE  RegistryInv' /\ tokens' \in Ledger /\ IssueTypeOK'
<1>. DEFINE issue == set_issue_amount(issueRequests[i], total)
            done == [issue EXCEPT !.status = "Completed", !.expired = FALSE]
<1>0. issueRequests \in Seq(IssueRequest) /\ i \in DOMAIN issueRequests
  BY DEF BridgeInv, IssueTypeOK, IssueIds
<1>1. issueRequests[i] \in IssueRequest
  BY <1>0, RequestChanged
<1>2. issue \in IssueRequest
  BY <1>1, SetIssueAmountType
<1>3. /\ registry' \in UNION {distribute_rewards(q, issue.fee) :
                                 q \in UNION {execute_issue_tokens(s, issue.vault, total) :
                                                 s \in prepared}}
      /\ tokens' = mint_to(mint_to(tokens, issue.requester, issue.amount), FeePool, issue.fee)
      /\ issueRequests' = [issueRequests EXCEPT ![i] = done]
      /\ UNCHANGED <<exchangeRate, params>>
  BY DEF finish_issue
<1>. HIDE DEF issue
<1>4. /\ issue.vault \in Vaults /\ issue.requester \in Holders
      /\ issue.amount \in Nat /\ issue.fee \in Nat
  BY <1>2, HoldersTyped DEF IssueRequest
<1>5. RegistryOK(registry')
  <2>1. PICK s, q, r : /\ s \in prepared
                       /\ q \in execute_issue_tokens(s, issue.vault, total)
                       /\ r \in distribute_rewards(q, issue.fee) /\ r = registry'
    BY <1>3
  <2>2. RegistryOK(q) /\ q \in Registry
    BY <1>4, <2>1, ExecuteIssueTokensOK DEF RegistryOK, RegistrySound
  <2>. QED BY <2>1, <2>2, RewardsDistributed, SamePartsOK
<1>6. tokens' \in Ledger
  <2>1. mint_to(tokens, issue.requester, issue.amount) \in Ledger
    BY <1>4, MintType DEF BridgeInv
  <2>. QED BY <1>3, <1>4, <2>1, HoldersTyped, MintType
<1>7. done \in IssueRequest
  <2>. DEFINE d == [issue EXCEPT !.status = "Completed"]
  <2>1. d \in IssueRequest
    BY <1>2 DEF IssueRequest
  <2>2. done = [d EXCEPT !.expired = FALSE]
    BY DEF IssueRequest
  <2>. HIDE DEF d
  <2>. QED BY <2>1, <2>2 DEF IssueRequest
<1>. HIDE DEF done
<1>8. IssueTypeOK'
  BY <1>0, <1>3, <1>7, RequestChanged DEF IssueTypeOK
<1>. QED BY <1>3, <1>5, <1>6, <1>8 DEF BridgeInv, RegistryInv, ParamsOK

LEMMA ExecuteIssue ==
    ASSUME BridgeInv, NEW i \in IssueIds, NEW a, NEW x \in TokenAmounts,
           execute_issue(a, i, x)
    PROVE  RegistryInv' /\ tokens' \in Ledger /\ IssueTypeOK'
<1>. DEFINE issue == issueRequests[i]
            expected == issue.amount + issue.fee
<1>0. RegistryOK(registry) /\ ParamsOK /\ x \in Nat
  BY RegistryAssumption DEF BridgeInv, RegistryInv
<1>1. issue \in IssueRequest
  BY RequestChanged DEF BridgeInv, IssueTypeOK, IssueIds
<1>2. /\ issue.vault \in Vaults /\ issue.requester \in Accounts
      /\ issue.griefing_collateral \in Nat /\ expected \in Nat
  BY <1>1 DEF IssueRequest
<1>. HIDE DEF issue
<1>3. CASE finish_issue(i, reopen_cancelled(issue, x), x)
  <2>1. ASSUME NEW s \in reopen_cancelled(issue, x) PROVE RegistryOK(s)
    <3>1. s \in try_increase_to_be_issued_tokens(registry, issue.vault, x)
      BY <2>1 DEF reopen_cancelled
    <3>. QED BY <1>0, <1>2, <3>1, TryIncreaseToBeIssuedOK
  <2>. QED BY <1>0, <1>3, <2>1, FinishIssue
<1>4. CASE x < expected /\ finish_issue(i, decrease_issue_amount(issue, x), x)
  <2>1. ASSUME NEW s \in decrease_issue_amount(issue, x) PROVE RegistryOK(s)
    <3>0. PICK d : d = issue.amount + issue.fee - x
      OBVIOUS
    <3>1. PICK q : /\ q \in decrease_to_be_issued(registry, issue.vault, d)
                   /\ s \in unlock_griefing(q, issue.requester, issue.griefing_collateral)
      BY <2>1, <3>0, Zenon DEF decrease_issue_amount
    <3>2. d \in Nat
      <4>1. expected - x \in Nat
        BY <1>0, <1>2, <1>4
      <4>2. issue.amount \in Nat /\ issue.fee \in Nat
        BY <1>1 DEF IssueRequest
      <4>. QED BY <1>0, <3>0, <4>1, <4>2
    <3>3. RegistryOK(q)
      BY <1>0, <1>2, <3>1, <3>2, DecreaseToBeIssuedOK
    <3>. QED BY <1>2, <3>1, <3>3, UnlockGriefingOK
  <2>. QED BY <1>0, <1>4, <2>1, FinishIssue
<1>5. ASSUME x >= expected, NEW k \in surplus_issued(issue, x),
             finish_issue(i, increase_issue_amount(issue, k), expected + k)
      PROVE  RegistryInv' /\ tokens' \in Ledger /\ IssueTypeOK'
  <2>. DEFINE w == registry.vault[issue.vault]
  <2>1. w \in Vault
    BY <1>0, <1>2, VaultsTyped DEF RegistryOK
  <2>2. issuable_tokens(w) \in Nat /\ x - expected \in Nat
    BY <1>0, <1>2, <1>5, <2>1, IssuableNat
  <2>3. k \in Nat
    <3>1. k = 0 \/ k = min(x - expected, issuable_tokens(w))
      BY <1>5 DEF surplus_issued, Try
    <3>. QED BY <2>2, <3>1 DEF min
  <2>4. ASSUME NEW s \in increase_issue_amount(issue, k) PROVE RegistryOK(s)
    <3>1. PICK q : /\ q = registry \/ q \in try_increase_to_be_issued_tokens(registry, issue.vault, k)
                   /\ s \in unlock_griefing(q, issue.requester, issue.griefing_collateral)
      BY <2>4 DEF increase_issue_amount
    <3>2. RegistryOK(q)
      BY <1>0, <1>2, <2>3, <3>1, TryIncreaseToBeIssuedOK
    <3>. QED BY <1>2, <3>1, <3>2, UnlockGriefingOK
  <2>5. expected + k \in Nat
    BY <1>2, <2>3
  <2>. QED BY <1>5, <2>4, <2>5, FinishIssue
<1>. QED BY <1>3, <1>4, <1>5 DEF execute_issue, issue

LEMMA CancelIssue ==
    ASSUME BridgeInv, NEW i \in IssueIds, NEW a, cancel_issue(a, i)
    PROVE  RegistryInv' /\ tokens' \in Ledger /\ IssueTypeOK'
<1>. DEFINE issue == issueRequests[i]
            total == issue.amount + issue.fee
<1>0. RegistryOK(registry) /\ ParamsOK
  BY DEF BridgeInv, RegistryInv
<1>1. issueRequests \in Seq(IssueRequest) /\ i \in DOMAIN issueRequests /\ issue \in IssueRequest
  BY RequestChanged DEF BridgeInv, IssueTypeOK, IssueIds
<1>2. /\ issue.vault \in Vaults /\ issue.requester \in Accounts
      /\ issue.griefing_collateral \in Nat /\ total \in Nat
  BY <1>1 DEF IssueRequest
<1>3. PICK q, r : /\ q \in unlock_griefing(registry, issue.requester, issue.griefing_collateral)
                  /\ r \in decrease_to_be_issued(q, issue.vault, total)
                  /\ r = registry'
  BY DEF cancel_issue
<1>4. RegistryOK(q)
  BY <1>0, <1>2, <1>3, UnlockGriefingOK
<1>5. RegistryOK(r)
  BY <1>2, <1>3, <1>4, DecreaseToBeIssuedOK
<1>. DEFINE d == [issue EXCEPT !.status = "Cancelled"]
            e == [d EXCEPT !.expired = FALSE]
<1>6. issueRequests' = [issueRequests EXCEPT ![i].status = "Cancelled", ![i].expired = FALSE]
      /\ UNCHANGED <<exchangeRate, params, tokens>>
  BY DEF cancel_issue
<1>7. issueRequests' = [issueRequests EXCEPT ![i] = e]
  BY <1>1, <1>6
<1>. HIDE DEF issue
<1>8. d \in IssueRequest
  BY <1>1 DEF IssueRequest
<1>. HIDE DEF d
<1>9. e \in IssueRequest
  BY <1>8 DEF IssueRequest
<1>. HIDE DEF e
<1>10. IssueTypeOK'
  BY <1>1, <1>7, <1>9, RequestChanged DEF IssueTypeOK
<1>. QED BY <1>0, <1>3, <1>5, <1>6, <1>10 DEF BridgeInv, RegistryInv, ParamsOK

LEMMA IssueExpires ==
    ASSUME BridgeInv, NEW i \in IssueIds, issue_expires(i)
    PROVE  RegistryInv' /\ tokens' \in Ledger /\ IssueTypeOK'
<1>. DEFINE issue == issueRequests[i]
            e == [issue EXCEPT !.expired = TRUE]
<1>1. issueRequests \in Seq(IssueRequest) /\ i \in DOMAIN issueRequests /\ issue \in IssueRequest
  BY RequestChanged DEF BridgeInv, IssueTypeOK, IssueIds
<1>2. issueRequests' = [issueRequests EXCEPT ![i].expired = TRUE]
      /\ UNCHANGED <<registryVars, tokens>>
  BY DEF issue_expires
<1>3. issueRequests' = [issueRequests EXCEPT ![i] = e]
  BY <1>1, <1>2
<1>. HIDE DEF issue
<1>4. e \in IssueRequest
  BY <1>1 DEF IssueRequest
<1>. HIDE DEF e
<1>5. IssueTypeOK'
  BY <1>1, <1>3, <1>4, RequestChanged DEF IssueTypeOK
<1>. QED BY <1>2, <1>5 DEF BridgeInv, RegistryInv, ParamsOK, registryVars

LEMMA IssueNextInv ==
    ASSUME BridgeInv, IssueNext
    PROVE  RegistryInv' /\ tokens' \in Ledger /\ IssueTypeOK'
<1>1. CASE \E a \in Requesters, v \in Vaults, x \in TokenAmounts : request_issue(a, v, x)
  BY <1>1, RequestIssue
<1>2. CASE \E i \in IssueIds, a \in Requesters, x \in TokenAmounts : execute_issue(a, i, x)
  BY <1>2, ExecuteIssue
<1>3. CASE \E i \in IssueIds, a \in Requesters : cancel_issue(a, i)
  BY <1>3, CancelIssue
<1>4. CASE \E i \in IssueIds : issue_expires(i)
  BY <1>4, IssueExpires
<1>. QED BY <1>1, <1>2, <1>3, <1>4 DEF IssueNext

-----------------------------------------------------------------------------
(* The redeem pallet                                                       *)

LEMMA ReleaseReplaceCollateralOK ==
    ASSUME NEW r, RegistryOK(r), NEW v \in Vaults, NEW t \in Nat,
           NEW s \in release_replace_collateral(r, v, t)
    PROVE  RegistryOK(s)
<1>. DEFINE g == used_replace_collateral(r.vault[v], t)
            q == decrease_to_be_replaced_tokens(r, v, t)
<1>1. r.vault[v] \in Vault
  BY VaultsTyped DEF RegistryOK
<1>2. g \in Nat
  BY <1>1, UsedReplace DEF Vault
<1>3. RegistryOK(q)
  BY DecreaseToBeReplacedOK
<1>4. CASE g = 0
  BY <1>3, <1>4 DEF release_replace_collateral
<1>5. CASE g # 0
  <2>1. s \in release_funds(q, <<"AvailableReplaceCollateral", v>>, g)
    BY <1>5, ToFreeBalance DEF release_replace_collateral
  <2>. HIDE DEF q, g
  <2>. QED BY <1>2, <1>3, <2>1, ReleaseReplaceOK
<1>. QED BY <1>4, <1>5

LEMMA RedeemStatus ==
    ASSUME BridgeInv, NEW i \in RedeemIds, NEW st \in RedeemRequestStatus
    PROVE  set_redeem_status(i, st) \in Seq(RedeemRequest)
<1>. DEFINE redeem == redeemRequests[i]
            d == [redeem EXCEPT !.status = st]
            e == [d EXCEPT !.expired = FALSE]
<1>1. /\ redeemRequests \in Seq(RedeemRequest) /\ i \in DOMAIN redeemRequests
      /\ redeem \in RedeemRequest
  BY RequestChanged DEF BridgeInv, RedeemTypeOK, RedeemIds
<1>2. set_redeem_status(i, st) = [redeemRequests EXCEPT ![i] = e]
  BY <1>1 DEF set_redeem_status
<1>. HIDE DEF redeem
<1>3. d \in RedeemRequest
  BY <1>1 DEF RedeemRequest
<1>. HIDE DEF d
<1>4. e \in RedeemRequest
  BY <1>3 DEF RedeemRequest
<1>. HIDE DEF e
<1>. QED BY <1>1, <1>2, <1>4, RequestChanged

LEMMA RedeemTyped ==
    ASSUME BridgeInv, NEW i \in RedeemIds
    PROVE  /\ redeemRequests[i] \in RedeemRequest
           /\ redeemRequests[i].vault \in Vaults
           /\ redeemRequests[i].redeemer \in Accounts
           /\ burn_amount(redeemRequests[i]) \in Nat
           /\ redeemRequests[i].fee \in Nat
           /\ redeemRequests[i].premium \in Nat
<1>1. redeemRequests[i] \in RedeemRequest
  BY RequestChanged DEF BridgeInv, RedeemTypeOK, RedeemIds
<1>. QED BY <1>1 DEF RedeemRequest, burn_amount

(* The premium of a redeem request is a balance if the vault's pending     *)
(* redeems are covered and the premium rate is below the secure threshold. *)
LEMMA PremiumNat ==
    ASSUME ParamsOK, NEW w \in Vault, w.to_be_redeemed <= backed_tokens(w),
           PremiumRedeemFee < params.secure, NEW x \in Nat
    PROVE  redeem_premium(w, x) \in Nat
<1>. DEFINE b == to_be_backed_tokens(w)
            need == get_required_collateral_for_wrapped(b)
            missing == saturating_sub(need, w.stake)
            rate == checked_div(PremiumRedeemFee, params.secure - PremiumRedeemFee)
<1>1. params.secure \in Nat /\ exchangeRate \in Nat /\ w.stake \in Nat
  BY ParamsPositive DEF Vault
<1>2. b \in Nat
  BY DEF to_be_backed_tokens, backed_tokens, Vault
<1>. HIDE DEF b
<1>3. mul_rounding_up(b, params.secure) \in Nat
  BY <1>1, <1>2, MulNat
<1>4. need \in Nat
  BY <1>1, <1>3, MulNat DEF get_required_collateral_for_wrapped, wrapped_to_collateral
<1>. HIDE DEF need
<1>5. missing \in Nat
  BY <1>1, <1>4 DEF saturating_sub
<1>. HIDE DEF missing
<1>6. params.secure - PremiumRedeemFee \in Nat \ {0} /\ PremiumRedeemFee \in Nat
  BY <1>1, FeeAssumption
<1>7. rate \in Nat
  BY <1>6, DivNat
<1>. HIDE DEF rate
<1>8. checked_mul(missing, rate) \in Nat
  BY <1>5, <1>7, MulNat
<1>9. get_vault_max_premium_redeem(w, PremiumRedeemFee) \in Nat
  BY <1>8 DEF get_vault_max_premium_redeem, missing, rate, need, b
<1>10. wrapped_to_collateral(x) \in Nat
  BY <1>1, MulNat DEF wrapped_to_collateral
<1>11. get_premium_redeem_fee(wrapped_to_collateral(x)) \in Nat
  BY <1>6, <1>10, MulNat DEF get_premium_redeem_fee
<1>. QED BY <1>9, <1>11 DEF redeem_premium, min

LEMMA RequestRedeem ==
    ASSUME BridgeInv, NEW a \in Requesters, NEW v \in Vaults, NEW x \in TokenAmounts,
           NEW f \in InclusionFees, request_redeem(a, v, x, f)
    PROVE  RegistryInv' /\ tokens' \in Ledger /\ RedeemTypeOK'
<1>0. RegistryOK(registry) /\ ParamsOK /\ x \in Nat /\ f \in Nat /\ a \in Accounts /\ a \in Holders
  BY HoldersTyped, RegistryAssumption, RedeemAssumption DEF BridgeInv, RegistryInv
<1>1. PICK fee : fee = IF a = v THEN 0 ELSE get_redeem_fee(x)
  OBVIOUS
<1>2. PICK burned, received : burned = x - fee /\ received = burned - f
  OBVIOUS
<1>3. fee \in Nat /\ fee <= x
  BY <1>0, <1>1, FeeBounded, FeeAssumption DEF get_redeem_fee
<1>4. /\ f <= burned
      /\ registry.vault[v].to_be_redeemed <= backed_tokens(registry.vault[v])
      /\ PremiumRedeemFee < params.secure
      /\ registry' \in UNION {release_replace_collateral(s, v, burned) :
                                 s \in try_increase_to_be_redeemed_tokens(registry, v, burned)}
      /\ tokens' \in lock_on(tokens, a, x)
      /\ redeemRequests' = Append(redeemRequests,
             [vault |-> v, redeemer |-> a, amount_btc |-> received, transfer_fee_btc |-> f,
              fee |-> fee, premium |-> redeem_premium(registry.vault[v], received),
              expired |-> FALSE, status |-> "Pending"])
      /\ UNCHANGED <<exchangeRate, params>>
  BY <1>1, <1>2 DEF request_redeem
<1>5. burned \in Nat /\ received \in Nat
  <2>1. burned \in Nat
    BY <1>0, <1>2, <1>3
  <2>2. f <= burned
    BY <1>4
  <2>. QED BY <1>0, <1>2, <2>1, <2>2
<1>6. RegistryOK(registry')
  <2>1. PICK s, r : /\ s \in try_increase_to_be_redeemed_tokens(registry, v, burned)
                    /\ r \in release_replace_collateral(s, v, burned)
                    /\ r = registry'
    BY <1>4
  <2>2. RegistryOK(s)
    BY <1>0, <1>5, <2>1, TryIncreaseToBeRedeemedOK
  <2>. QED BY <1>5, <2>1, <2>2, ReleaseReplaceCollateralOK
<1>7. tokens' \in Ledger
  <2>1. PICK t : t = tokens' /\ t \in lock_on(tokens, a, x)
    BY <1>4
  <2>. QED BY <1>0, <2>1, LockType DEF BridgeInv
<1>8. redeem_premium(registry.vault[v], received) \in Nat
  <2>1. registry.vault[v] \in Vault
    BY <1>0, VaultsTyped DEF RegistryOK
  <2>2. registry.vault[v].to_be_redeemed <= backed_tokens(registry.vault[v])
        /\ PremiumRedeemFee < params.secure
    BY <1>4
  <2>. QED BY <1>0, <1>5, <2>1, <2>2, PremiumNat
<1>9. RedeemTypeOK'
  <2>1. PICK p : p = redeem_premium(registry.vault[v], received) /\ p \in Nat
    BY <1>8
  <2>2. [vault |-> v, redeemer |-> a, amount_btc |-> received, transfer_fee_btc |-> f,
         fee |-> fee, premium |-> p, expired |-> FALSE, status |-> "Pending"] \in RedeemRequest
    BY <1>0, <1>3, <1>5, <2>1 DEF RedeemRequest, RedeemRequestStatus
  <2>. QED BY <1>4, <2>1, <2>2, RequestAdded DEF BridgeInv, RedeemTypeOK
<1>. QED BY <1>0, <1>4, <1>6, <1>7, <1>9 DEF RegistryInv, ParamsOK

LEMMA LiquidationRedeem ==
    ASSUME BridgeInv, NEW a \in Requesters, NEW x \in TokenAmounts, liquidation_redeem(a, x)
    PROVE  RegistryInv' /\ tokens' \in Ledger /\ RedeemTypeOK'
<1>0. RegistryOK(registry) /\ ParamsOK /\ x \in Nat /\ a \in Holders /\ tokens \in Ledger
  BY HoldersTyped, RegistryAssumption DEF BridgeInv, RegistryInv
<1>1. PICK r, t, k : /\ r = registry' /\ r \in redeem_tokens_liquidation(registry, a, x)
                     /\ t \in lock_on(tokens, a, x) /\ k \in burn_from(t, a, x) /\ k = tokens'
  BY DEF liquidation_redeem
<1>2. RegistryOK(r)
  BY <1>0, <1>1, RedeemLiquidationOK
<1>3. t \in Ledger
  BY <1>0, <1>1, LockType
<1>4. k \in Ledger
  BY <1>0, <1>1, <1>3, LockType
<1>5. UNCHANGED <<exchangeRate, params, redeemRequests>>
  BY DEF liquidation_redeem
<1>. QED BY <1>0, <1>1, <1>2, <1>4, <1>5 DEF BridgeInv, RegistryInv, ParamsOK, RedeemTypeOK

LEMMA ExecuteRedeem ==
    ASSUME BridgeInv, NEW i \in RedeemIds, execute_redeem(i)
    PROVE  RegistryInv' /\ tokens' \in Ledger /\ RedeemTypeOK'
<1>. DEFINE redeem == redeemRequests[i]
<1>0. RegistryOK(registry) /\ ParamsOK /\ tokens \in Ledger
  BY DEF BridgeInv, RegistryInv
<1>1. /\ redeem.vault \in Vaults /\ redeem.redeemer \in Holders /\ FeePool \in Holders
      /\ burn_amount(redeem) \in Nat /\ redeem.fee \in Nat /\ redeem.premium \in Nat
  BY RedeemTyped, HoldersTyped
<1>2. PICK q, r, t, k :
           /\ r = registry' /\ q \in distribute_rewards(registry, redeem.fee)
           /\ r \in redeem_tokens(q, redeem.vault, burn_amount(redeem), redeem.premium)
           /\ t \in burn_from(tokens, redeem.redeemer, burn_amount(redeem))
           /\ k \in unlock_and_transfer(t, redeem.redeemer, FeePool, redeem.fee)
           /\ k = tokens'
  BY DEF execute_redeem
<1>3. redeemRequests' = set_redeem_status(i, "Completed") /\ UNCHANGED <<exchangeRate, params>>
  BY DEF execute_redeem
<1>. HIDE DEF redeem
<1>a. RegistryOK(q)
  BY <1>0, <1>2, RewardsDistributed, SamePartsOK DEF RegistryOK, RegistrySound
<1>4. RegistryOK(r)
  BY <1>0, <1>1, <1>2, <1>a, RedeemTokensOK
<1>5. t \in Ledger
  BY <1>0, <1>1, <1>2, LockType
<1>6. k \in Ledger
  BY <1>1, <1>2, <1>5, UnlockTransferType
<1>7. RedeemTypeOK'
  BY <1>3, RedeemStatus DEF RedeemTypeOK, RedeemRequestStatus
<1>. QED BY <1>0, <1>2, <1>3, <1>4, <1>6, <1>7 DEF RegistryInv, ParamsOK

(* Whatever cancel_redeem takes from the vault, the tokens can be settled. *)
LEMMA SlashForCancel ==
    ASSUME BridgeInv, NEW i \in RedeemIds, NEW reimburse \in BOOLEAN,
           NEW s \in slash_for_cancel(redeemRequests[i], reimburse)
    PROVE  Settling(s, redeemRequests[i].vault, burn_amount(redeemRequests[i]))
<1>. DEFINE redeem == redeemRequests[i]
<1>0. RegistryOK(registry) /\ ParamsOK
  BY DEF BridgeInv, RegistryInv
<1>1. PICK v, n, u : /\ v = redeem.vault /\ n = burn_amount(redeem) /\ u = redeem.redeemer
                     /\ v \in Vaults /\ n \in Nat
  BY RedeemTyped
<1>2. PICK w : w = registry.vault[v] /\ w \in Vault
  BY <1>0, <1>1, VaultsTyped DEF RegistryOK
<1>. HIDE DEF redeem
<1>3. CASE is_liquidated(w)
  <2>. DEFINE c == liquidated_share(registry.vault[v], n)
  <2>1. PICK q, d : /\ q \in decrease_liquidated_collateral(registry, v, c)
                    /\ d = IF reimburse THEN <<"FreeBalance", u>> ELSE <<"LiquidationVault", v>>
                    /\ s \in transfer_funds(q, <<"LiquidatedCollateral", v>>, d, c)
    BY <1>1, <1>2, <1>3 DEF slash_for_cancel, redeem
  <2>2. CASE reimburse
    <3>1. s \in transfer_funds(q, <<"LiquidatedCollateral", v>>, <<"FreeBalance", u>>, c)
      BY <2>1, <2>2
    <3>2. Settling(s, v, n)
      BY <1>0, <1>1, <2>1, <3>1, ConfiscateSettling
    <3>. QED BY <1>1, <3>2 DEF redeem
  <2>3. CASE ~reimburse
    <3>1. s \in transfer_funds(q, <<"LiquidatedCollateral", v>>, <<"LiquidationVault", v>>, c)
      BY <2>1, <2>3
    <3>2. Settling(s, v, n)
      BY <1>0, <1>1, <2>1, <3>1, ConfiscateSettling
    <3>. QED BY <1>1, <3>2 DEF redeem
  <2>. QED BY <2>2, <2>3
<1>4. CASE ~is_liquidated(w)
  <2>. DEFINE value == wrapped_to_collateral(n)
              slash == IF reimburse THEN value + get_punishment_fee(value)
                       ELSE get_punishment_fee(value)
  <2>1. PICK q, c : /\ c = min(w.stake, slash)
                    /\ q \in transfer_funds(registry, <<"Collateral", v>>, <<"FreeBalance", u>>, c)
                    /\ s = q \/ s \in ban_vault(q, v)
    BY <1>1, <1>2, <1>4 DEF slash_for_cancel, try_ban_vault, redeem
  <2>2. value \in Nat
    BY <1>0, <1>1, ParamsPositive, MulNat DEF wrapped_to_collateral
  <2>. HIDE DEF value
  <2>3. get_punishment_fee(value) \in Nat
    BY <2>2, MulNat, FeeAssumption DEF get_punishment_fee
  <2>4. slash \in Nat /\ w.stake \in Nat
    BY <1>2, <2>2, <2>3 DEF Vault
  <2>. HIDE DEF slash
  <2>5. c \in Nat
    BY <2>1, <2>4 DEF min
  <2>6. q \in release_funds(registry, <<"Collateral", v>>, c)
    BY <2>1, ToFreeBalance
  <2>7. RegistryOK(q) /\ q.vault[v].status = w.status
    BY <1>0, <1>1, <1>2, <1>4, <2>5, <2>6, SlashStakeOK
  <2>8. RegistryOK(s) /\ s.vault[v].status = w.status
    BY <1>1, <2>1, <2>7, BanVaultOK
  <2>9. ~is_liquidated(s.vault[v])
    BY <1>4, <2>8 DEF is_liquidated
  <2>10. Settling(s, v, n)
    BY <1>1, <2>8, <2>9, ActiveSettling
  <2>. QED BY <1>1, <2>10 DEF redeem
<1>. QED BY <1>3, <1>4

LEMMA CancelRedeem ==
    ASSUME BridgeInv, NEW i \in RedeemIds, NEW a, NEW reimburse \in BOOLEAN,
           cancel_redeem(a, i, reimburse)
    PROVE  RegistryInv' /\ tokens' \in Ledger /\ RedeemTypeOK'
<1>. DEFINE redeem == redeemRequests[i]
<1>0. RegistryOK(registry) /\ ParamsOK /\ tokens \in Ledger
  BY DEF BridgeInv, RegistryInv
<1>1. PICK v, n, u, fee :
           /\ v = redeem.vault /\ n = burn_amount(redeem) /\ u = redeem.redeemer
           /\ fee = redeem.fee
           /\ v \in Vaults /\ v \in Holders /\ n \in Nat /\ u \in Holders /\ fee \in Nat
  BY RedeemTyped, HoldersTyped
<1>2. PICK q, s :
           /\ q \in slash_for_cancel(redeem, reimburse)
           /\ s = q \/ s \in distribute_rewards(q, fee)
           /\ IF reimburse THEN reimburse_redeem(i, s) ELSE retry_redeem(i, s)
  BY <1>1 DEF cancel_redeem
<1>3. Settling(s, v, n)
  <2>1. Settling(q, v, n) /\ q \in Registry
    BY <1>1, <1>2, SlashForCancel DEF Settling, RegistrySound
  <2>. QED BY <1>2, <2>1, RewardsDistributed, SamePartsSettling
<1>4. PICK r, k : r = registry' /\ k = tokens'
  OBVIOUS
<1>5. RegistryOK(r) /\ k \in Ledger /\ RedeemTypeOK'
  <2>1. CASE reimburse /\ registry' \in execute_redeem_tokens(s, v, n)
             /\ tokens' \in UNION {burn_from(t, u, n) :
                                      t \in unlock_and_transfer(tokens, u, FeePool, fee)}
             /\ redeemRequests' = set_redeem_status(i,
                   IF is_liquidated(s.vault[v]) THEN "Reimbursed" ELSE "ReimbursedOwed")
    <3>1. RegistryOK(r)
      BY <1>1, <1>3, <1>4, <2>1, SettleOK
    <3>2. PICK t : t \in unlock_and_transfer(tokens, u, FeePool, fee) /\ k \in burn_from(t, u, n)
      BY <1>4, <2>1
    <3>3. t \in Ledger
      BY <1>0, <1>1, <3>2, UnlockTransferType, HoldersTyped
    <3>4. k \in Ledger
      BY <1>1, <3>2, <3>3, LockType
    <3>5. RedeemTypeOK'
      BY <2>1, RedeemStatus DEF RedeemTypeOK, RedeemRequestStatus
    <3>. QED BY <3>1, <3>4, <3>5
  <2>2. CASE reimburse /\ registry' \in decrease_to_be_redeemed(s, v, n)
             /\ tokens' \in UNION {unlock_and_transfer(t, u, v, n) :
                                      t \in unlock_and_transfer(tokens, u, FeePool, fee)}
             /\ redeemRequests' = set_redeem_status(i, "Reimbursed")
    <3>1. RegistryOK(r)
      BY <1>1, <1>3, <1>4, <2>2, SettleOK
    <3>2. PICK t : /\ t \in unlock_and_transfer(tokens, u, FeePool, fee)
                   /\ k \in unlock_and_transfer(t, u, v, n)
      BY <1>4, <2>2
    <3>3. t \in Ledger
      BY <1>0, <1>1, <3>2, UnlockTransferType, HoldersTyped
    <3>4. k \in Ledger
      BY <1>1, <3>2, <3>3, UnlockTransferType
    <3>5. RedeemTypeOK'
      BY <2>2, RedeemStatus DEF RedeemTypeOK, RedeemRequestStatus
    <3>. QED BY <3>1, <3>4, <3>5
  <2>3. CASE retry_redeem(i, s)
    <3>1. PICK m : m = burn_amount(redeem) + redeem.fee /\ k \in unlock_on(tokens, u, m)
      BY <1>1, <1>4, <2>3 DEF retry_redeem
    <3>2. m \in Nat
      <4>1. m = n + fee
        BY <1>1, <3>1
      <4>. QED BY <1>1, <4>1
    <3>3. k \in Ledger
      BY <1>0, <1>1, <3>1, <3>2, LockType
    <3>4. r \in decrease_to_be_redeemed(s, v, n)
      BY <1>1, <1>4, <2>3 DEF retry_redeem
    <3>5. RegistryOK(r)
      BY <1>1, <1>3, <3>4, SettleOK
    <3>6. redeemRequests' = set_redeem_status(i, "Retried")
      BY <2>3 DEF retry_redeem
    <3>7. RedeemTypeOK'
      BY <3>6, RedeemStatus DEF RedeemTypeOK, RedeemRequestStatus
    <3>. QED BY <3>3, <3>5, <3>7
  <2>. QED BY <1>1, <1>2, <2>1, <2>2, <2>3 DEF reimburse_redeem
<1>6. UNCHANGED <<exchangeRate, params>>
  BY DEF cancel_redeem
<1>. QED BY <1>0, <1>4, <1>5, <1>6 DEF RegistryInv, ParamsOK

LEMMA MintReimbursed ==
    ASSUME BridgeInv, NEW i \in RedeemIds, NEW v \in Vaults,
           mint_tokens_for_reimbursed_redeem(v, i)
    PROVE  RegistryInv' /\ tokens' \in Ledger /\ RedeemTypeOK'
<1>0. RegistryOK(registry) /\ ParamsOK /\ tokens \in Ledger /\ v \in Holders
  BY HoldersTyped DEF BridgeInv, RegistryInv
<1>1. PICK n : n = burn_amount(redeemRequests[i]) /\ n \in Nat
  BY RedeemTyped
<1>2. PICK s, r : /\ s \in try_increase_to_be_issued_tokens(registry, v, n)
                  /\ r \in execute_issue_tokens(s, v, n) /\ r = registry'
  BY <1>1 DEF mint_tokens_for_reimbursed_redeem
<1>3. RegistryOK(s)
  BY <1>0, <1>1, <1>2, TryIncreaseToBeIssuedOK
<1>4. RegistryOK(r)
  BY <1>1, <1>2, <1>3, ExecuteIssueTokensOK
<1>5. /\ tokens' = mint_to(tokens, v, n)
      /\ redeemRequests' = set_redeem_status(i, "Reimbursed")
      /\ UNCHANGED <<exchangeRate, params>>
  BY <1>1 DEF mint_tokens_for_reimbursed_redeem
<1>6. tokens' \in Ledger
  BY <1>0, <1>1, <1>5, MintType
<1>7. RedeemTypeOK'
  BY <1>5, RedeemStatus DEF RedeemTypeOK, RedeemRequestStatus
<1>. QED BY <1>0, <1>2, <1>4, <1>5, <1>6, <1>7 DEF RegistryInv, ParamsOK

LEMMA SelfRedeem ==
    ASSUME BridgeInv, NEW v \in Vaults, NEW x \in TokenAmounts, self_redeem(v, x)
    PROVE  RegistryInv' /\ tokens' \in Ledger /\ RedeemTypeOK'
<1>0. RegistryOK(registry) /\ ParamsOK /\ tokens \in Ledger /\ v \in Holders /\ x \in Nat
  BY HoldersTyped, RegistryAssumption DEF BridgeInv, RegistryInv
<1>1. PICK fee : fee = IF x = registry.vault[v].issued - registry.vault[v].to_be_redeemed
                       THEN 0 ELSE get_redeem_fee(x)
  OBVIOUS
<1>2. PICK n : n = x - fee
  OBVIOUS
<1>3. fee \in Nat /\ fee <= x /\ n \in Nat
  <2>1. fee \in Nat /\ fee <= x
    BY <1>0, <1>1, FeeBounded, FeeAssumption DEF get_redeem_fee
  <2>. QED BY <1>0, <1>2, <2>1
<1>4. /\ tokens' \in UNION {UNION {transfer(u, v, FeePool, fee) : u \in burn_from(t, v, n)} :
                               t \in lock_on(tokens, v, n)}
      /\ registry' \in
            UNION {UNION {release_replace_collateral(t, v, n) : t \in redeem_tokens(s, v, n, 0)} :
                      s \in UNION {try_increase_to_be_redeemed_tokens(q, v, n) :
                                      q \in distribute_rewards(registry, fee)}}
      /\ UNCHANGED <<exchangeRate, params, redeemRequests>>
  BY <1>1, <1>2 DEF self_redeem
<1>5. PICK t, u, k : /\ t \in lock_on(tokens, v, n) /\ u \in burn_from(t, v, n)
                     /\ k \in transfer(u, v, FeePool, fee) /\ k = tokens'
  BY <1>4
<1>6. t \in Ledger
  BY <1>0, <1>3, <1>5, LockType
<1>7. u \in Ledger
  BY <1>0, <1>3, <1>5, <1>6, LockType
<1>8. k \in Ledger
  BY <1>0, <1>3, <1>5, <1>7, TransferType, HoldersTyped
<1>9. PICK d, p, q, r : /\ d \in distribute_rewards(registry, fee)
                        /\ p \in try_increase_to_be_redeemed_tokens(d, v, n)
                        /\ q \in redeem_tokens(p, v, n, 0)
                        /\ r \in release_replace_collateral(q, v, n) /\ r = registry'
  BY <1>4
<1>a. RegistryOK(d)
  BY <1>0, <1>9, RewardsDistributed, SamePartsOK DEF RegistryOK, RegistrySound
<1>10. RegistryOK(p)
  BY <1>0, <1>3, <1>9, <1>a, TryIncreaseToBeRedeemedOK
<1>11. RegistryOK(q)
  BY <1>0, <1>3, <1>9, <1>10, RedeemTokensOK
<1>12. RegistryOK(r)
  BY <1>3, <1>9, <1>11, ReleaseReplaceCollateralOK
<1>. QED BY <1>0, <1>4, <1>5, <1>8, <1>9, <1>12 DEF BridgeInv, RegistryInv, ParamsOK, RedeemTypeOK

LEMMA RedeemExpires ==
    ASSUME BridgeInv, NEW i \in RedeemIds, redeem_expires(i)
    PROVE  RegistryInv' /\ tokens' \in Ledger /\ RedeemTypeOK'
<1>. DEFINE redeem == redeemRequests[i]
            e == [redeem EXCEPT !.expired = TRUE]
<1>1. /\ redeemRequests \in Seq(RedeemRequest) /\ i \in DOMAIN redeemRequests
      /\ redeem \in RedeemRequest
  BY RequestChanged DEF BridgeInv, RedeemTypeOK, RedeemIds
<1>2. redeemRequests' = [redeemRequests EXCEPT ![i].expired = TRUE]
      /\ UNCHANGED <<registryVars, tokens>>
  BY DEF redeem_expires
<1>3. redeemRequests' = [redeemRequests EXCEPT ![i] = e]
  BY <1>1, <1>2
<1>. HIDE DEF redeem
<1>4. e \in RedeemRequest
  BY <1>1 DEF RedeemRequest
<1>. HIDE DEF e
<1>5. RedeemTypeOK'
  BY <1>1, <1>3, <1>4, RequestChanged DEF RedeemTypeOK
<1>. QED BY <1>2, <1>5 DEF BridgeInv, RegistryInv, ParamsOK, registryVars

LEMMA RedeemNextInv ==
    ASSUME BridgeInv, RedeemNext
    PROVE  RegistryInv' /\ tokens' \in Ledger /\ RedeemTypeOK'
<1>1. CASE \E a \in Requesters, v \in Vaults, x \in TokenAmounts, f \in InclusionFees :
              request_redeem(a, v, x, f)
  BY <1>1, RequestRedeem
<1>2. CASE \E a \in Requesters, x \in TokenAmounts : liquidation_redeem(a, x)
  BY <1>2, LiquidationRedeem
<1>3. CASE \E i \in RedeemIds : execute_redeem(i)
  BY <1>3, ExecuteRedeem
<1>4. CASE \E i \in RedeemIds, a \in Requesters, b \in BOOLEAN : cancel_redeem(a, i, b)
  BY <1>4, CancelRedeem
<1>5. CASE \E i \in RedeemIds, v \in Vaults : mint_tokens_for_reimbursed_redeem(v, i)
  BY <1>5, MintReimbursed
<1>6. CASE \E v \in Vaults, x \in TokenAmounts : self_redeem(v, x)
  BY <1>6, SelfRedeem
<1>7. CASE \E i \in RedeemIds : redeem_expires(i)
  BY <1>7, RedeemExpires
<1>. QED BY <1>1, <1>2, <1>3, <1>4, <1>5, <1>6, <1>7 DEF RedeemNext

-----------------------------------------------------------------------------
(* The replace pallet                                                      *)

LEMMA ReplaceTyped ==
    ASSUME BridgeInv, NEW i \in ReplaceIds
    PROVE  /\ replaceRequests \in Seq(ReplaceRequest) /\ i \in DOMAIN replaceRequests
           /\ replaceRequests[i] \in ReplaceRequest
           /\ replaceRequests[i].old_vault \in Vaults
           /\ replaceRequests[i].new_vault \in Vaults
           /\ replaceRequests[i].amount \in Nat
           /\ replaceRequests[i].collateral \in Nat
           /\ replaceRequests[i].griefing_collateral \in Nat
<1>1. /\ replaceRequests \in Seq(ReplaceRequest) /\ i \in DOMAIN replaceRequests
      /\ replaceRequests[i] \in ReplaceRequest
  BY RequestChanged DEF BridgeInv, ReplaceTypeOK, ReplaceIds
<1>. QED BY <1>1 DEF ReplaceRequest

(* The last step of an accepted request.                                   *)
LEMMA ReplaceStatus ==
    ASSUME BridgeInv, NEW i \in ReplaceIds, NEW st \in {"Pending", "Completed", "Cancelled"},
           NEW ex \in BOOLEAN
    PROVE  [replaceRequests EXCEPT ![i].status = st, ![i].expired = ex] \in Seq(ReplaceRequest)
<1>. DEFINE replace == replaceRequests[i]
            d == [replace EXCEPT !.status = st]
            e == [d EXCEPT !.expired = ex]
<1>1. /\ replaceRequests \in Seq(ReplaceRequest) /\ i \in DOMAIN replaceRequests
      /\ replace \in ReplaceRequest
  BY ReplaceTyped
<1>2. [replaceRequests EXCEPT ![i].status = st, ![i].expired = ex] = [replaceRequests EXCEPT ![i] = e]
  BY <1>1
<1>. HIDE DEF replace
<1>3. d \in ReplaceRequest
  BY <1>1 DEF ReplaceRequest
<1>. HIDE DEF d
<1>4. e \in ReplaceRequest
  BY <1>3 DEF ReplaceRequest
<1>. HIDE DEF e
<1>. QED BY <1>1, <1>2, <1>4, RequestChanged

LEMMA AcceptTokensOK ==
    ASSUME NEW r, RegistryOK(r), NEW old \in Vaults, NEW new \in Vaults, NEW n \in Nat,
           NEW s \in accept_replace_tokens(r, old, new, n)
    PROVE  RegistryOK(s)
<1>1. PICK q : /\ q \in try_increase_to_be_redeemed_tokens(r, old, n)
               /\ s \in try_increase_to_be_issued_tokens(q, new, n)
  BY DEF accept_replace_tokens
<1>2. RegistryOK(q)
  BY <1>1, TryIncreaseToBeRedeemedOK
<1>. QED BY <1>1, <1>2, TryIncreaseToBeIssuedOK

LEMMA RequestReplace ==
    ASSUME BridgeInv, NEW v \in Vaults, NEW x \in TokenAmounts, request_replace(v, x)
    PROVE  RegistryInv' /\ ReplaceTypeOK'
<1>0. RegistryOK(registry) /\ ParamsOK /\ x \in Nat
  BY RegistryAssumption DEF BridgeInv, RegistryInv
<1>. DEFINE w == registry.vault[v]
<1>1. w \in Vault
  BY <1>0, VaultsTyped DEF RegistryOK
<1>2. PICK n : n = min(x, w.issued - w.to_be_replaced - w.to_be_redeemed)
  OBVIOUS
<1>3. n \in Nat
  <2>1. w.to_be_replaced + w.to_be_redeemed <= w.issued
    BY DEF request_replace
  <2>2. w.issued \in Nat /\ w.to_be_replaced \in Nat /\ w.to_be_redeemed \in Nat
    BY <1>1 DEF Vault
  <2>. HIDE DEF w
  <2>. QED BY <1>0, <1>2, <2>1, <2>2 DEF min
<1>4. PICK g : g = get_replace_griefing_collateral(n)
  OBVIOUS
<1>5. g \in Nat
  <2>1. checked_mul(n, GriefingRate) \in Nat
    BY <1>3, FeeAssumption, MulNat
  <2>. QED BY <1>4, <2>1, FeeAssumption, MulNat DEF get_replace_griefing_collateral
<1>6. PICK s, r : /\ s \in try_increase_to_be_replaced_tokens(registry, v, n)
                  /\ r \in transfer_funds(s, <<"FreeBalance", v>>,
                                          <<"AvailableReplaceCollateral", v>>, g)
                  /\ r = registry'
  BY <1>2, <1>4 DEF request_replace
<1>7. RegistryOK(s)
  BY <1>0, <1>3, <1>6, TryIncreaseToBeReplacedOK
<1>8. PICK q : /\ q \in release_funds(s, <<"FreeBalance", v>>, g)
               /\ r \in claim_funds(q, <<"AvailableReplaceCollateral", v>>, g)
  BY <1>6, Transferred
<1>9. q = s /\ q.vault[v].status # "none"
  BY <1>8 DEF release_funds, claim_funds, Try, is_active
<1>10. RegistryOK(r)
  BY <1>5, <1>7, <1>8, <1>9, ClaimReplaceOK
<1>11. UNCHANGED <<exchangeRate, params, replaceRequests>>
  BY DEF request_replace
<1>. QED BY <1>0, <1>6, <1>10, <1>11 DEF BridgeInv, RegistryInv, ParamsOK, ReplaceTypeOK

LEMMA WithdrawReplace ==
    ASSUME BridgeInv, NEW v \in Vaults, NEW x \in TokenAmounts, withdraw_replace(v, x)
    PROVE  RegistryInv' /\ ReplaceTypeOK'
<1>0. RegistryOK(registry) /\ ParamsOK /\ x \in Nat
  BY RegistryAssumption DEF BridgeInv, RegistryInv
<1>1. PICK r : r = registry' /\ r \in withdraw_replace_request(registry, v, x)
  BY DEF withdraw_replace
<1>2. RegistryOK(r)
  BY <1>0, <1>1, WithdrawReplaceOK
<1>3. UNCHANGED <<exchangeRate, params, replaceRequests>>
  BY DEF withdraw_replace
<1>. QED BY <1>0, <1>1, <1>2, <1>3 DEF BridgeInv, RegistryInv, ParamsOK, ReplaceTypeOK

LEMMA AcceptReplace ==
    ASSUME BridgeInv, NEW old \in Vaults, NEW new \in Vaults, NEW x \in TokenAmounts,
           NEW c \in CollateralAmounts, accept_replace(old, new, x, c)
    PROVE  RegistryInv' /\ ReplaceTypeOK'
<1>0. RegistryOK(registry) /\ ParamsOK /\ x \in Nat /\ c \in Nat
  BY RegistryAssumption DEF BridgeInv, RegistryInv
<1>. DEFINE w == registry.vault[old]
<1>1. w \in Vault
  BY <1>0, VaultsTyped DEF RegistryOK
<1>2. PICK n, g, d, p : /\ n = used_to_be_replaced(w, x)
                        /\ g = used_replace_collateral(w, x)
                        /\ d = calculate_collateral(c, n, x)
                        /\ p = decrease_to_be_replaced_tokens(registry, old, x)
  OBVIOUS
<1>3. n \in Nat /\ n <= x /\ g \in Nat
  <2>1. w.to_be_replaced \in Nat /\ w.replace_collateral \in Nat
    BY <1>1 DEF Vault
  <2>. HIDE DEF w
  <2>. QED BY <1>0, <1>1, <1>2, <2>1, UsedReplace
<1>4. d \in Nat
  BY <1>0, <1>2, <1>3, ShareBounded
<1>5. RegistryOK(p)
  BY <1>0, <1>2, DecreaseToBeReplacedOK
<1>6. PICK q, s, r : /\ q \in try_deposit_collateral(p, new, d)
                     /\ s \in accept_replace_tokens(q, old, new, n)
                     /\ r \in transfer_funds(s, <<"AvailableReplaceCollateral", old>>,
                                             <<"ActiveReplaceCollateral", old>>, g)
                     /\ r = registry'
  BY <1>2 DEF accept_replace
<1>7. RegistryOK(q)
  <2>1. registry.vault[new].status # "none" /\ old # new
    BY DEF accept_replace, ensure_not_banned, is_active
  <2>2. p.vault[new] = registry.vault[new]
    BY <1>0, <1>2, <2>1 DEF decrease_to_be_replaced_tokens, set_vault, RegistryOK,
                            RegistrySound, Registry
  <2>. QED BY <1>0, <1>4, <1>5, <1>6, <2>1, <2>2, TryDepositOK
<1>8. RegistryOK(s)
  BY <1>3, <1>6, <1>7, AcceptTokensOK
<1>9. PICK t : /\ t \in release_funds(s, <<"AvailableReplaceCollateral", old>>, g)
               /\ r \in claim_funds(t, <<"ActiveReplaceCollateral", old>>, g)
  BY <1>6, Transferred
<1>10. RegistryOK(t) /\ t.vault[old].status # "none"
  <2>1. /\ RegistryOK(t) /\ t.vault[old].status = s.vault[old].status
        /\ is_active(s.vault[old])
    BY <1>3, <1>8, <1>9, ReleaseReplaceOK
  <2>. QED BY <2>1 DEF is_active
<1>11. RegistryOK(r)
  BY <1>3, <1>9, <1>10, ClaimReplaceOK
<1>. DEFINE e == [old_vault |-> old, new_vault |-> new, amount |-> n,
                  collateral |-> d, griefing_collateral |-> g,
                  expired |-> FALSE, status |-> "Pending"]
<1>12. e \in ReplaceRequest
  BY <1>3, <1>4 DEF ReplaceRequest
<1>13. replaceRequests' = Append(replaceRequests, e) /\ UNCHANGED <<exchangeRate, params>>
  BY <1>2 DEF accept_replace
<1>. HIDE DEF e
<1>14. ReplaceTypeOK'
  BY <1>12, <1>13, RequestAdded DEF BridgeInv, ReplaceTypeOK
<1>. QED BY <1>0, <1>6, <1>11, <1>13, <1>14 DEF RegistryInv, ParamsOK

LEMMA ExecuteReplace ==
    ASSUME BridgeInv, NEW i \in ReplaceIds, execute_replace(i)
    PROVE  RegistryInv' /\ ReplaceTypeOK'
<1>0. RegistryOK(registry) /\ ParamsOK
  BY DEF BridgeInv, RegistryInv
<1>1. PICK old \in Vaults, new \in Vaults, n \in Nat, g \in Nat :
           /\ old = replaceRequests[i].old_vault /\ new = replaceRequests[i].new_vault
           /\ n = replaceRequests[i].amount /\ g = replaceRequests[i].griefing_collateral
  BY ReplaceTyped
<1>2. PICK s, r : /\ \/ s \in transfer_funds(registry, <<"ActiveReplaceCollateral", old>>,
                                             <<"FreeBalance", old>>, g)
                     \/ s \in accept_replace_tokens(registry, old, new, n)
                  /\ r \in replace_tokens(s, old, new, n)
                  /\ r = registry'
  BY <1>1 DEF execute_replace
<1>3. RegistryOK(s)
  <2>1. CASE s \in transfer_funds(registry, <<"ActiveReplaceCollateral", old>>,
                                  <<"FreeBalance", old>>, g)
    <3>1. s \in release_funds(registry, <<"ActiveReplaceCollateral", old>>, g)
      BY <2>1, ToFreeBalance
    <3>. QED BY <1>0, <3>1, ReleaseReplaceOK
  <2>2. CASE s \in accept_replace_tokens(registry, old, new, n)
    BY <1>0, <2>2, AcceptTokensOK
  <2>. QED BY <1>2, <2>1, <2>2
<1>4. RegistryOK(r)
  BY <1>0, <1>2, <1>3, ReplaceTokensOK
<1>5. /\ replaceRequests' = [replaceRequests EXCEPT ![i].status = "Completed", ![i].expired = FALSE]
      /\ UNCHANGED <<exchangeRate, params>>
  BY DEF execute_replace
<1>6. ReplaceTypeOK'
  BY <1>5, ReplaceStatus DEF ReplaceTypeOK
<1>. QED BY <1>0, <1>2, <1>4, <1>5, <1>6 DEF RegistryInv, ParamsOK

LEMMA CancelReplace ==
    ASSUME BridgeInv, NEW i \in ReplaceIds, cancel_replace(i)
    PROVE  RegistryInv' /\ ReplaceTypeOK'
<1>0. RegistryOK(registry) /\ ParamsOK
  BY DEF BridgeInv, RegistryInv
<1>1. PICK old \in Vaults, new \in Vaults, n \in Nat, g \in Nat, c \in Nat :
           /\ old = replaceRequests[i].old_vault /\ new = replaceRequests[i].new_vault
           /\ n = replaceRequests[i].amount /\ g = replaceRequests[i].griefing_collateral
           /\ c = replaceRequests[i].collateral
  BY ReplaceTyped
<1>2. PICK s, t, r : /\ s \in cancel_replace_tokens(registry, old, new, n)
                     /\ t \in transfer_funds(s, <<"ActiveReplaceCollateral", old>>,
                                             <<"FreeBalance", new>>, g)
                     /\ r \in release_new_vault_collateral(t, new, c)
                     /\ r = registry'
  BY <1>1 DEF cancel_replace
<1>3. RegistryOK(s)
  BY <1>0, <1>2, CancelReplaceTokensOK
<1>4. t \in release_funds(s, <<"ActiveReplaceCollateral", old>>, g)
  BY <1>2, ToFreeBalance
<1>5. RegistryOK(t)
  BY <1>3, <1>4, ReleaseReplaceOK
<1>6. r = t \/ r \in force_withdraw_collateral(t, new, c)
  BY <1>2 DEF release_new_vault_collateral
<1>7. RegistryOK(r)
  BY <1>0, <1>5, <1>6, ForceWithdrawOK
<1>8. /\ replaceRequests' = [replaceRequests EXCEPT ![i].status = "Cancelled", ![i].expired = FALSE]
      /\ UNCHANGED <<exchangeRate, params>>
  BY DEF cancel_replace
<1>9. ReplaceTypeOK'
  BY <1>8, ReplaceStatus DEF ReplaceTypeOK
<1>. QED BY <1>0, <1>2, <1>7, <1>8, <1>9 DEF RegistryInv, ParamsOK

LEMMA ReplaceExpires ==
    ASSUME BridgeInv, NEW i \in ReplaceIds, replace_expires(i)
    PROVE  RegistryInv' /\ ReplaceTypeOK'
<1>. DEFINE replace == replaceRequests[i]
            e == [replace EXCEPT !.expired = TRUE]
<1>1. /\ replaceRequests \in Seq(ReplaceRequest) /\ i \in DOMAIN replaceRequests
      /\ replace \in ReplaceRequest
  BY ReplaceTyped
<1>2. replaceRequests' = [replaceRequests EXCEPT ![i].expired = TRUE]
      /\ UNCHANGED registryVars
  BY DEF replace_expires
<1>3. replaceRequests' = [replaceRequests EXCEPT ![i] = e]
  BY <1>1, <1>2
<1>. HIDE DEF replace
<1>4. e \in ReplaceRequest
  BY <1>1 DEF ReplaceRequest
<1>. HIDE DEF e
<1>5. ReplaceTypeOK'
  BY <1>1, <1>3, <1>4, RequestChanged DEF ReplaceTypeOK
<1>. QED BY <1>2, <1>5 DEF BridgeInv, RegistryInv, ParamsOK, registryVars

LEMMA ReplaceNextInv ==
    ASSUME BridgeInv, ReplaceNext
    PROVE  RegistryInv' /\ ReplaceTypeOK'
<1>1. CASE \E v \in Vaults, x \in TokenAmounts : request_replace(v, x)
  BY <1>1, RequestReplace
<1>2. CASE \E v \in Vaults, x \in TokenAmounts : withdraw_replace(v, x)
  BY <1>2, WithdrawReplace
<1>3. CASE \E old, new \in Vaults, x \in TokenAmounts, c \in CollateralAmounts :
              accept_replace(old, new, x, c)
  BY <1>3, AcceptReplace
<1>4. CASE \E i \in ReplaceIds : execute_replace(i)
  BY <1>4, ExecuteReplace
<1>5. CASE \E i \in ReplaceIds : cancel_replace(i)
  BY <1>5, CancelReplace
<1>6. CASE \E i \in ReplaceIds : replace_expires(i)
  BY <1>6, ReplaceExpires
<1>. QED BY <1>1, <1>2, <1>3, <1>4, <1>5, <1>6 DEF ReplaceNext

-----------------------------------------------------------------------------
(* The bridge                                                              *)

LEMMA BridgeInitInv == Init => BridgeInv
<1>. SUFFICES ASSUME Init PROVE BridgeInv
  OBVIOUS
<1>1. RegistryInv
  BY RegistryInitInv DEF Init
<1>2. tokens \in Ledger
  BY DEF Init, TreasuryInit, Ledger, Balance
<1>3. IssueTypeOK /\ RedeemTypeOK /\ ReplaceTypeOK
  BY DEF Init, IssueInit, RedeemInit, ReplaceInit, IssueTypeOK, RedeemTypeOK, ReplaceTypeOK
<1>. QED BY <1>1, <1>2, <1>3 DEF BridgeInv

LEMMA BridgeNextInv == BridgeInv /\ [Next]_vars => BridgeInv'
<1>. SUFFICES ASSUME BridgeInv, [Next]_vars PROVE BridgeInv'
  OBVIOUS
<1>1. CASE RegistryNext /\ UNCHANGED <<tokens, issueRequests, redeemRequests, replaceRequests>>
  BY <1>1, RegistryNextInv DEF BridgeInv, IssueTypeOK, RedeemTypeOK, ReplaceTypeOK
<1>2. CASE IssueNext /\ UNCHANGED <<redeemRequests, replaceRequests>>
  BY <1>2, IssueNextInv DEF BridgeInv, RedeemTypeOK, ReplaceTypeOK
<1>3. CASE RedeemNext /\ UNCHANGED <<issueRequests, replaceRequests>>
  BY <1>3, RedeemNextInv DEF BridgeInv, IssueTypeOK, ReplaceTypeOK
<1>4. CASE ReplaceNext /\ UNCHANGED <<tokens, issueRequests, redeemRequests>>
  BY <1>4, ReplaceNextInv DEF BridgeInv, IssueTypeOK, RedeemTypeOK
<1>5. CASE UNCHANGED vars
  BY <1>5 DEF vars, BridgeInv, RegistryInv, ParamsOK, IssueTypeOK, RedeemTypeOK, ReplaceTypeOK
<1>. QED BY <1>1, <1>2, <1>3, <1>4, <1>5 DEF Next

(* The inductive invariant: every reachable state of the bridge has well   *)
(* typed requests and balances and a sound vault registry.                 *)
THEOREM BridgeInvariant == Spec => []BridgeInv
BY BridgeInitInv, BridgeNextInv, PTL DEF Spec

(* Every state of the bridge is well typed: in particular no counter of a  *)
(* vault, of the liquidation vault or of the token ledger ever goes        *)
(* negative, although the operations that settle a request subtract from   *)
(* several of them.                                                        *)
THEOREM TypeCorrect == Spec => []TypeOK
<1>1. BridgeInv => TypeOK
  BY DEF BridgeInv, RegistryInv, RegistryOK, RegistrySound, ParamsOK, TypeOK, RegistryTypeOK,
         TreasuryTypeOK, Ledger
<1>. QED BY <1>1, BridgeInvariant, PTL

(* The collateral locked on a vault's account is its stake and what is     *)
(* held for its to-be-redeemed tokens, through deposits, withdrawals,      *)
(* premiums, punishments, liquidation, replacement and recovery            *)
(* (vault-registry: force_withdraw_collateral, transfer_funds,             *)
(* liquidate_vault, redeem_tokens, replace_tokens).                        *)
THEOREM CollateralIsLocked == Spec => []CollateralLocked
<1>1. BridgeInv => CollateralLocked
  BY DEF BridgeInv, RegistryInv, RegistryOK, RegistrySound, Sound, Locked, CollateralLocked
<1>. QED BY <1>1, BridgeInvariant, PTL

(* An active vault has issued what it is to redeem, and a liquidated one   *)
(* has handed over its tokens and its replace offer: the order of the      *)
(* counters that the checked subtractions of the vault type rely on.       *)
THEOREM TokensStayOrdered == Spec => []TokensOrdered
<1>1. BridgeInv => TokensOrdered
  BY DEF BridgeInv, RegistryInv, RegistryOK, RegistrySound, Sound, Ordered, is_liquidated,
         TokensOrdered
<1>. QED BY <1>1, BridgeInvariant, PTL

(* The last redeem or replace request of a liquidated vault that is        *)
(* settled takes all the collateral held for it (decrease_liquidated_      *)
(* collateral with the share of calculate_collateral): none is stranded.   *)
THEOREM CollateralIsNotStranded == Spec => []NoStrandedCollateral
<1>1. BridgeInv => NoStrandedCollateral
  BY DEF BridgeInv, RegistryInv, RegistryOK, NotStranded, NoStrandedCollateral
<1>. QED BY <1>1, BridgeInvariant, PTL

-----------------------------------------------------------------------------
(* Arithmetic                                                              *)

LEMMA QuotientBounds ==
    ASSUME NEW a \in Nat, NEW b \in Nat \ {0}, NEW q, q = a \div b
    PROVE  q \in Nat /\ q * b <= a /\ a < q * b + b
BY SMT

LEMMA MulMonotone ==
    ASSUME NEW a \in Nat, NEW b \in Nat, NEW c \in Nat, a <= b
    PROVE  a * c \in Nat /\ a * c <= b * c
BY SMT

LEMMA MulCancel ==
    ASSUME NEW a \in Nat, NEW b \in Nat, NEW c \in Nat \ {0}, a * c < b * c
    PROVE  a < b
BY SMT

(* A larger amount has a larger product.                                   *)
LEMMA CheckedMulMonotone ==
    ASSUME NEW a \in Nat, NEW b \in Nat, NEW factor \in Nat, a <= b
    PROVE  checked_mul(a, factor) <= checked_mul(b, factor)
<1>1. a * factor \in Nat /\ b * factor \in Nat /\ a * factor <= b * factor
  BY MulMonotone
<1>. QED BY <1>1, DIVAssumption DEF checked_mul

(* B tokens at the rate r and the threshold t ask for u; x more tokens are *)
(* counted against what is left of the collateral, f.  Then all of them    *)
(* ask for at most c more than there is.                                   *)
LEMMA RoundingBound ==
    ASSUME NEW D \in Nat \ {0}, NEW r \in Nat \ {0}, NEW t \in Nat \ {0},
           NEW B \in Nat, NEW x \in Nat, NEW f \in Nat,
           NEW p \in Nat, B * r < p * D + D,
           NEW u \in Nat, p * t < u * D + D,
           NEW a \in Nat, a * r <= f * D,
           NEW y \in Nat, y * t <= a * D, x <= y,
           NEW P \in Nat, P * D <= (B + x) * r,
           NEW q \in Nat, q * D <= P * t,
           NEW c \in Nat, t <= c * D
    PROVE  q <= u + f + c
<1>1. (x * t) * r <= (f * D) * D
  <2>1. x * t <= y * t /\ x * t \in Nat
    BY MulMonotone
  <2>2. x * t <= a * D /\ a * D \in Nat
    BY <2>1
  <2>3. (x * t) * r <= (a * D) * r
    BY <2>1, <2>2, MulMonotone
  <2>4. (a * r) * D <= (f * D) * D
    BY MulMonotone
  <2>5. (a * D) * r = (a * r) * D
    OBVIOUS
  <2>. QED BY <2>1, <2>2, <2>3, <2>4, <2>5
<1>2. (q * D) * D <= (P * D) * t
  <2>1. (q * D) * D <= (P * t) * D
    BY MulMonotone
  <2>2. (P * t) * D = (P * D) * t
    OBVIOUS
  <2>. QED BY <2>1, <2>2
<1>3. (P * D) * t <= (B * r) * t + (x * t) * r
  <2>1. (P * D) * t <= ((B + x) * r) * t
    BY MulMonotone
  <2>2. ((B + x) * r) * t = (B * r) * t + (x * t) * r
    OBVIOUS
  <2>. QED BY <2>1, <2>2
<1>4. (B * r) * t + t <= (p * D + D) * t
  <2>1. (B * r + 1) * t <= (p * D + D) * t
    BY MulMonotone
  <2>. QED BY <2>1
<1>5. (p * D + D) * t < (u * D) * D + D * D + D * t
  <2>1. (p * t + 1) * D <= (u * D + D) * D
    BY MulMonotone
  <2>. QED BY <2>1
<1>6. D * t <= (c * D) * D
  BY MulMonotone
<1>7. (q * D) * D < ((u + f + c + 1) * D) * D
  <2>1. (q * D) * D < (u * D) * D + D * D + (c * D) * D + (f * D) * D
    BY <1>1, <1>2, <1>3, <1>4, <1>5, <1>6
  <2>. QED BY <2>1
<1>8. q * D < (u + f + c + 1) * D
  BY <1>7, MulCancel
<1>9. q < u + f + c + 1
  BY <1>8, MulCancel
<1>. QED BY <1>9

(* A vault that backs what issuable_tokens allows is at its threshold.     *)
LEMMA CapacityChecked ==
    ASSUME ParamsOK, NEW w \in Vault, NEW x \in Nat \ {0}, x <= issuable_tokens(w)
    PROVE  AtSecureThreshold([w EXCEPT !.to_be_issued = @ + x])
<1>. DEFINE z == [w EXCEPT !.to_be_issued = @ + x]
<1>1. PICK D, r, t, B, s : /\ D = DIV /\ r = exchangeRate /\ t = get_secure_threshold(w)
                           /\ B = backed_tokens(w) /\ s = w.stake
  OBVIOUS
<1>2. /\ D \in Nat \ {0} /\ r \in Nat \ {0} /\ t \in Nat \ {0}
      /\ B \in Nat /\ s \in Nat /\ w.to_be_issued \in Nat /\ w.issued \in Nat
  BY <1>1, DIVAssumption, ParamsPositive, SecureThreshold DEF Vault, backed_tokens
<1>3. PICK p, u : p = (B * r) \div D /\ u = (p * t) \div D
  OBVIOUS
<1>4. p \in Nat /\ B * r < p * D + D
  BY <1>2, <1>3, QuotientBounds, B * r \in Nat
<1>5. u \in Nat /\ p * t < u * D + D
  BY <1>2, <1>3, <1>4, QuotientBounds, p * t \in Nat
<1>6. PICK f, a, y : /\ f = get_free_collateral(w) /\ a = (f * D) \div r
                     /\ y = (a * D) \div t
  OBVIOUS
<1>7. f = s - min(s, u)
  BY <1>1, <1>3, <1>6 DEF get_free_collateral, get_used_collateral, checked_mul,
                          wrapped_to_collateral
<1>8. f \in Nat
  BY <1>2, <1>5, <1>7 DEF min
<1>9. a \in Nat /\ a * r <= f * D
  BY <1>2, <1>6, <1>8, QuotientBounds, f * D \in Nat
<1>10. y \in Nat /\ y * t <= a * D
  BY <1>2, <1>6, <1>9, QuotientBounds, a * D \in Nat
<1>11. x <= y
  <2>1. issuable_tokens(w) = 0 \/ issuable_tokens(w) = y
    BY <1>1, <1>6 DEF issuable_tokens, calculate_max_wrapped_from_collateral_for_threshold,
                      collateral_to_wrapped, checked_div
  <2>. QED BY <2>1
(* Something could be issued, so something was left.                       *)
<1>12. f # 0
  <2>1. SUFFICES ASSUME f = 0 PROVE FALSE
    OBVIOUS
  <2>2. a * r <= 0
    BY <1>2, <1>9, <2>1
  <2>3. a = 0
    BY <1>2, <1>9, <2>2
  <2>4. y * t <= 0
    BY <1>2, <1>10, <2>3
  <2>5. y = 0
    BY <1>2, <1>10, <2>4
  <2>. QED BY <1>11, <2>5
<1>13. s = u + f
  BY <1>2, <1>5, <1>7, <1>12 DEF min
<1>14. PICK P, q : P = ((B + x) * r) \div D /\ q = (P * t) \div D
  OBVIOUS
<1>15. P \in Nat /\ P * D <= (B + x) * r
  BY <1>2, <1>14, QuotientBounds, (B + x) * r \in Nat
<1>16. q \in Nat /\ q * D <= P * t
  BY <1>2, <1>14, <1>15, QuotientBounds, P * t \in Nat
<1>17. PICK c : c = (1 * t + (D - 1)) \div D
  OBVIOUS
<1>18. c \in Nat /\ t <= c * D
  <2>1. 1 * t + (D - 1) \in Nat /\ 1 * t + (D - 1) = t + D - 1
    BY <1>2
  <2>2. c \in Nat /\ 1 * t + (D - 1) < c * D + D
    BY <1>2, <1>17, <2>1, QuotientBounds
  <2>. QED BY <1>2, <2>1, <2>2
<1>19. q <= u + f + c
  BY <1>2, <1>4, <1>5, <1>8, <1>9, <1>10, <1>11, <1>15, <1>16, <1>18, RoundingBound
<1>20. /\ z.issued = w.issued /\ z.to_be_issued = w.to_be_issued + x /\ z.stake = s
       /\ z.secure_collateral_threshold = w.secure_collateral_threshold
  BY <1>1 DEF Vault
<1>21. backed_tokens(z) = B + x /\ get_secure_threshold(z) = t
  BY <1>1, <1>2, <1>20 DEF backed_tokens, get_secure_threshold
<1>. HIDE DEF z
<1>22. checked_mul(wrapped_to_collateral(backed_tokens(z)), get_secure_threshold(z)) = q
  BY <1>1, <1>14, <1>21 DEF checked_mul, wrapped_to_collateral
<1>23. mul_rounding_up(1, get_secure_threshold(z)) = c
  BY <1>1, <1>17, <1>21 DEF mul_rounding_up
<1>24. AtSecureThreshold(z)
  BY <1>13, <1>19, <1>20, <1>22, <1>23 DEF AtSecureThreshold
<1>. QED BY <1>24 DEF z

-----------------------------------------------------------------------------
(* What an operation does to the obligations of the vaults                 *)

(* No vault backs more tokens.                                             *)
NoMore(r, s) ==
    \A v \in Vaults : backed_tokens(s.vault[v]) <= backed_tokens(r.vault[v])

(* Nor has any vault less collateral for them, or another threshold.       *)
Eased(r, s) ==
    \A v \in Vaults :
        /\ backed_tokens(s.vault[v]) <= backed_tokens(r.vault[v])
        /\ r.vault[v].stake <= s.vault[v].stake
        /\ s.vault[v].secure_collateral_threshold = r.vault[v].secure_collateral_threshold

(* A vault that backs more tokens has the collateral.                      *)
Obliged(r, s) ==
    \A v \in Vaults : backed_tokens(s.vault[v]) > backed_tokens(r.vault[v])
                          => AtSecureThreshold(s.vault[v])

LEMMA VaultNumbers ==
    ASSUME NEW r \in Registry, NEW v \in Vaults
    PROVE  /\ r.vault[v] \in Vault
           /\ backed_tokens(r.vault[v]) \in Nat /\ r.vault[v].stake \in Nat
           /\ r.vault[v].issued \in Nat /\ r.vault[v].to_be_issued \in Nat
           /\ r.vault[v].secure_collateral_threshold \in Nat
<1>1. r.vault[v] \in Vault
  BY DEF Registry
<1>. QED BY <1>1 DEF Vault, backed_tokens

LEMMA EasedIsNoMore ==
    ASSUME NEW r, NEW s, Eased(r, s)
    PROVE  NoMore(r, s)
BY DEF Eased, NoMore

LEMMA EasedRefl ==
    ASSUME NEW r \in Registry, NEW s, s.vault = r.vault
    PROVE  Eased(r, s)
BY VaultNumbers DEF Eased

LEMMA EasedChain ==
    ASSUME NEW r \in Registry, NEW q \in Registry, NEW s \in Registry, Eased(r, q), Eased(q, s)
    PROVE  Eased(r, s)
BY VaultNumbers DEF Eased

LEMMA NoMoreChain ==
    ASSUME NEW r \in Registry, NEW q \in Registry, NEW s \in Registry, NoMore(r, q), NoMore(q, s)
    PROVE  NoMore(r, s)
BY VaultNumbers DEF NoMore

LEMMA NoMoreIsObliged ==
    ASSUME NEW r \in Registry, NEW s \in Registry, NoMore(r, s)
    PROVE  Obliged(r, s)
BY VaultNumbers DEF NoMore, Obliged

(* Steps without new obligations before the check, and steps that leave    *)
(* the collateral alone after it, do no harm.                              *)
LEMMA ObligedAfter ==
    ASSUME NEW r \in Registry, NEW q \in Registry, NEW s \in Registry, NoMore(r, q), Obliged(q, s)
    PROVE  Obliged(r, s)
BY VaultNumbers DEF NoMore, Obliged

LEMMA ObligedBefore ==
    ASSUME ParamsOK, NEW r \in Registry, NEW q \in Registry, NEW s \in Registry,
           Obliged(r, q), Eased(q, s)
    PROVE  Obliged(r, s)
<1>1. SUFFICES ASSUME NEW v \in Vaults,
                      backed_tokens(s.vault[v]) > backed_tokens(r.vault[v])
               PROVE  AtSecureThreshold(s.vault[v])
  BY DEF Obliged
<1>2. PICK x, y, k : x = q.vault[v] /\ y = s.vault[v] /\ k = backed_tokens(r.vault[v])
  OBVIOUS
<1>3. /\ x \in Vault /\ y \in Vault /\ k \in Nat
      /\ backed_tokens(x) \in Nat /\ backed_tokens(y) \in Nat
      /\ x.stake \in Nat /\ y.stake \in Nat
  BY <1>1, <1>2, VaultNumbers
<1>4. /\ backed_tokens(y) <= backed_tokens(x) /\ x.stake <= y.stake
      /\ y.secure_collateral_threshold = x.secure_collateral_threshold
  BY <1>1, <1>2 DEF Eased
<1>5. AtSecureThreshold(x)
  BY <1>1, <1>2, <1>3, <1>4 DEF Obliged
<1>6. PICK t : t = get_secure_threshold(x) /\ t = get_secure_threshold(y) /\ t \in Nat \ {0}
  BY <1>3, <1>4, SecureThreshold DEF get_secure_threshold
<1>7. PICK a, b : a = wrapped_to_collateral(backed_tokens(x)) /\ b = wrapped_to_collateral(backed_tokens(y))
  OBVIOUS
<1>8. a \in Nat /\ b \in Nat /\ b <= a
  BY <1>3, <1>4, <1>7, ParamsPositive, MulNat, CheckedMulMonotone DEF wrapped_to_collateral
<1>9. /\ checked_mul(b, t) <= checked_mul(a, t)
      /\ checked_mul(b, t) \in Nat /\ checked_mul(a, t) \in Nat /\ mul_rounding_up(1, t) \in Nat
  BY <1>6, <1>8, MulNat, CheckedMulMonotone
<1>10. checked_mul(a, t) <= x.stake + mul_rounding_up(1, t)
  BY <1>5, <1>6, <1>7 DEF AtSecureThreshold
<1>11. checked_mul(b, t) <= y.stake + mul_rounding_up(1, t)
  BY <1>3, <1>4, <1>9, <1>10
<1>. QED BY <1>2, <1>6, <1>7, <1>11 DEF AtSecureThreshold

-----------------------------------------------------------------------------
(* The operations of the registry                                          *)

LEMMA OneVaultEased ==
    ASSUME NEW r \in Registry, NEW v \in Vaults, NEW w, NEW s, s.vault = [r.vault EXCEPT ![v] = w],
           backed_tokens(w) <= backed_tokens(r.vault[v]), r.vault[v].stake <= w.stake,
           w.secure_collateral_threshold = r.vault[v].secure_collateral_threshold
    PROVE  Eased(r, s)
<1>1. r.vault \in [Vaults -> Vault]
  BY DEF Registry
<1>2. SUFFICES ASSUME NEW u \in Vaults
               PROVE  /\ backed_tokens(s.vault[u]) <= backed_tokens(r.vault[u])
                      /\ r.vault[u].stake <= s.vault[u].stake
                      /\ s.vault[u].secure_collateral_threshold
                            = r.vault[u].secure_collateral_threshold
  BY DEF Eased
<1>3. s.vault[u] = IF u = v THEN w ELSE r.vault[u]
  BY <1>1, <1>2
<1>. QED BY <1>2, <1>3, VaultNumbers

LEMMA OneVaultNoMore ==
    ASSUME NEW r \in Registry, NEW v \in Vaults, NEW w, NEW s, s.vault = [r.vault EXCEPT ![v] = w],
           backed_tokens(w) <= backed_tokens(r.vault[v])
    PROVE  NoMore(r, s)
<1>1. r.vault \in [Vaults -> Vault]
  BY DEF Registry
<1>2. SUFFICES ASSUME NEW u \in Vaults
               PROVE  backed_tokens(s.vault[u]) <= backed_tokens(r.vault[u])
  BY DEF NoMore
<1>3. s.vault[u] = IF u = v THEN w ELSE r.vault[u]
  BY <1>1, <1>2
<1>. QED BY <1>2, <1>3, VaultNumbers

(* A change of a vault that concerns neither its tokens nor its threshold, *)
(* and takes nothing from its stake.                                       *)
LEMMA Untouched ==
    ASSUME NEW r \in Registry, NEW v \in Vaults, NEW w, NEW s, s.vault = [r.vault EXCEPT ![v] = w],
           w.issued = r.vault[v].issued, w.to_be_issued = r.vault[v].to_be_issued,
           r.vault[v].stake <= w.stake,
           w.secure_collateral_threshold = r.vault[v].secure_collateral_threshold
    PROVE  Eased(r, s)
<1>1. backed_tokens(w) = backed_tokens(r.vault[v]) /\ backed_tokens(r.vault[v]) \in Nat
  BY VaultNumbers DEF backed_tokens
<1>2. backed_tokens(w) <= backed_tokens(r.vault[v])
  BY <1>1
<1>. QED BY <1>2, OneVaultEased

LEMMA DecreaseToBeIssuedEases ==
    ASSUME NEW r, RegistryOK(r), NEW v \in Vaults, NEW n \in Nat,
           NEW s \in decrease_to_be_issued(r, v, n)
    PROVE  Eased(r, s)
<1>1. r \in Registry /\ r.vault \in [Vaults -> Vault]
  BY DEF RegistryOK, RegistrySound, Registry
<1>2. PICK x : x = r.vault[v] /\ x \in Vault
  BY <1>1
<1>3. CASE is_liquidated(x)
  <2>1. s = [r EXCEPT !.lv.to_be_issued = @ - n]
    BY <1>2, <1>3 DEF decrease_to_be_issued, Try
  <2>2. s.vault = r.vault
    BY <1>1, <2>1 DEF Registry
  <2>. QED BY <1>1, <2>2, EasedRefl
<1>4. CASE ~is_liquidated(x)
  <2>1. n <= x.to_be_issued /\ s = set_vault(r, v, [x EXCEPT !.to_be_issued = @ - n])
    BY <1>2, <1>4 DEF decrease_to_be_issued, Try
  <2>2. PICK w : w = [x EXCEPT !.to_be_issued = @ - n] /\ w \in Vault
    BY <1>2, <2>1 DEF Vault
  <2>3. s.vault = [r.vault EXCEPT ![v] = w]
    BY <1>1, <2>1, <2>2, SetVaultType
  <2>4. /\ backed_tokens(w) <= backed_tokens(x) /\ x.stake <= w.stake
        /\ w.secure_collateral_threshold = x.secure_collateral_threshold
    <3>1. x.issued \in Nat /\ x.to_be_issued \in Nat /\ x.stake \in Nat
      BY <1>2 DEF Vault
    <3>2. /\ w.issued = x.issued /\ w.to_be_issued = x.to_be_issued - n /\ w.stake = x.stake
          /\ w.secure_collateral_threshold = x.secure_collateral_threshold
      BY <1>2, <2>2 DEF Vault
    <3>. QED BY <3>1, <3>2 DEF backed_tokens
  <2>. QED BY <1>1, <1>2, <2>3, <2>4, OneVaultEased
<1>. QED BY <1>3, <1>4

(* issue_tokens moves tokens from one counter of the vault to another.     *)
LEMMA ExecuteIssueEases ==
    ASSUME NEW r, RegistryOK(r), NEW v \in Vaults, NEW n \in Nat,
           NEW s \in execute_issue_tokens(r, v, n)
    PROVE  Eased(r, s)
<1>1. r \in Registry /\ r.vault \in [Vaults -> Vault]
  BY DEF RegistryOK, RegistrySound, Registry
<1>2. PICK x : x = r.vault[v] /\ x \in Vault
  BY <1>1
<1>3. PICK q : q \in decrease_to_be_issued(r, v, n) /\ s = increase_issued(q, v, n)
  BY DEF execute_issue_tokens
<1>4. CASE is_liquidated(x)
  <2>1. q = [r EXCEPT !.lv.to_be_issued = @ - n]
    BY <1>2, <1>3, <1>4 DEF decrease_to_be_issued, Try
  <2>2. q.vault = r.vault
    BY <1>1, <2>1 DEF Registry
  <2>3. s = [q EXCEPT !.lv.issued = @ + n]
    BY <1>2, <1>3, <1>4, <2>2 DEF increase_issued
  <2>4. s.vault = r.vault
    BY <1>1, <2>1, <2>3 DEF Registry
  <2>. QED BY <1>1, <2>4, EasedRefl
<1>5. CASE ~is_liquidated(x)
  <2>1. n <= x.to_be_issued /\ q = set_vault(r, v, [x EXCEPT !.to_be_issued = @ - n])
    BY <1>2, <1>3, <1>5 DEF decrease_to_be_issued, Try
  <2>2. PICK y : y = [x EXCEPT !.to_be_issued = @ - n] /\ y \in Vault
    BY <1>2, <2>1 DEF Vault
  <2>3. q \in Registry /\ q.vault[v] = y /\ q = set_vault(r, v, y)
    <3>1. q = set_vault(r, v, y)
      BY <2>1, <2>2
    <3>. QED BY <1>1, <2>2, <3>1, SetVaultType
  <2>4. y.status = x.status
    BY <1>2, <2>2 DEF Vault
  <2>5. PICK w : w = [y EXCEPT !.issued = @ + n] /\ w \in Vault
    <3>1. y \in Vault
      BY <2>2
    <3>2. PICK m : m = y.issued + n /\ m \in Nat
      BY <3>1 DEF Vault
    <3>3. [y EXCEPT !.issued = m] \in Vault
      BY <3>1, <3>2 DEF Vault
    <3>. QED BY <3>2, <3>3
  <2>6. s = set_vault(q, v, w)
    BY <1>3, <1>5, <2>3, <2>4, <2>5 DEF increase_issued, is_liquidated
  <2>7. s = set_vault(r, v, w)
    BY <1>1, <2>2, <2>3, <2>5, <2>6, SetVaultTwice
  <2>8. s.vault = [r.vault EXCEPT ![v] = w]
    <3>1. w \in Vault
      BY <2>5
    <3>2. set_vault(r, v, w).vault = [r.vault EXCEPT ![v] = w]
      BY <1>1, <3>1, SetVaultType
    <3>. QED BY <2>7, <3>2, Zenon
  <2>9. /\ backed_tokens(w) <= backed_tokens(x) /\ x.stake <= w.stake
        /\ w.secure_collateral_threshold = x.secure_collateral_threshold
    <3>1. x.issued \in Nat /\ x.to_be_issued \in Nat /\ x.stake \in Nat
      BY <1>2 DEF Vault
    <3>2. /\ w.issued = x.issued + n /\ w.to_be_issued = x.to_be_issued - n /\ w.stake = x.stake
          /\ w.secure_collateral_threshold = x.secure_collateral_threshold
      BY <1>2, <2>2, <2>5 DEF Vault
    <3>. QED BY <3>1, <3>2 DEF backed_tokens
  <2>. QED BY <1>1, <1>2, <2>8, <2>9, OneVaultEased
<1>. QED BY <1>4, <1>5

LEMMA DecreaseToBeRedeemedEases ==
    ASSUME NEW r, RegistrySound(r), NEW v \in Vaults, NEW n \in Nat,
           NEW s \in decrease_to_be_redeemed(r, v, n)
    PROVE  Eased(r, s)
<1>1. r \in Registry /\ r.vault[v] \in Vault
  BY VaultsTyped
<1>2. PICK x : x = r.vault[v] /\ x \in Vault /\ x.to_be_redeemed \in Nat
  BY <1>1 DEF Vault
<1>3. /\ n <= r.vault[v].to_be_redeemed
      /\ s.vault = [r.vault EXCEPT ![v] = [r.vault[v] EXCEPT !.to_be_redeemed = @ - n]]
  BY DecreaseToBeRedeemed
<1>4. PICK m : m = x.to_be_redeemed - n /\ m \in Nat
  BY <1>2, <1>3
<1>5. PICK w : w = [x EXCEPT !.to_be_redeemed = m]
  OBVIOUS
<1>6. s.vault = [r.vault EXCEPT ![v] = w]
  BY <1>2, <1>3, <1>4, <1>5
<1>7. /\ w.issued = x.issued /\ w.to_be_issued = x.to_be_issued /\ x.stake <= w.stake
      /\ w.secure_collateral_threshold = x.secure_collateral_threshold
  BY <1>2, <1>5 DEF Vault
<1>. QED BY <1>1, <1>2, <1>6, <1>7, Untouched

LEMMA ExecuteRedeemEases ==
    ASSUME NEW r, RegistrySound(r), NEW v \in Vaults, NEW n \in Nat,
           NEW s \in execute_redeem_tokens(r, v, n)
    PROVE  Eased(r, s)
<1>1. PICK q : q \in decrease_to_be_redeemed(r, v, n) /\ s \in decrease_issued(q, v, n)
  BY DEF execute_redeem_tokens
<1>2. RegistrySound(q) /\ Eased(r, q)
  BY <1>1, DecreaseToBeRedeemed, DecreaseToBeRedeemedEases
<1>3. /\ r \in Registry /\ q \in Registry /\ q.vault \in [Vaults -> Vault]
      /\ s \in Registry
  BY <1>2, VaultsTyped, ExecuteRedeemTokens
<1>4. PICK x : x = q.vault[v] /\ x \in Vault
  BY <1>3
<1>5. Eased(q, s)
  <2>1. CASE is_liquidated(x)
    <3>1. s = [q EXCEPT !.lv.issued = @ - n]
      BY <1>1, <1>4, <2>1 DEF decrease_issued, Try
    <3>2. s.vault = q.vault
      BY <1>3, <3>1 DEF Registry
    <3>. QED BY <1>3, <3>2, EasedRefl
  <2>2. CASE ~is_liquidated(x)
    <3>1. n <= x.issued /\ s = set_vault(q, v, [x EXCEPT !.issued = @ - n])
      BY <1>1, <1>4, <2>2 DEF decrease_issued, Try
    <3>2. PICK w : w = [x EXCEPT !.issued = @ - n] /\ w \in Vault
      BY <1>4, <3>1 DEF Vault
    <3>3. s.vault = [q.vault EXCEPT ![v] = w]
      BY <1>3, <3>1, <3>2, SetVaultType
    <3>4. x.issued \in Nat /\ x.to_be_issued \in Nat /\ x.stake \in Nat
      BY <1>4 DEF Vault
    <3>5. /\ w.issued = x.issued - n /\ w.to_be_issued = x.to_be_issued /\ w.stake = x.stake
          /\ w.secure_collateral_threshold = x.secure_collateral_threshold
      BY <1>4, <3>2 DEF Vault
    <3>6. backed_tokens(w) <= backed_tokens(x) /\ x.stake <= w.stake
      BY <3>4, <3>5 DEF backed_tokens
    <3>. QED BY <1>3, <1>4, <3>3, <3>5, <3>6, OneVaultEased
  <2>. QED BY <2>1, <2>2
<1>. QED BY <1>2, <1>3, <1>5, EasedChain

(* The one operation that adds obligations.                                *)
LEMMA TryIncreaseToBeIssuedObliges ==
    ASSUME ParamsOK, NEW r, RegistryOK(r), NEW v \in Vaults, NEW n \in Nat,
           NEW s \in try_increase_to_be_issued_tokens(r, v, n)
    PROVE  Obliged(r, s)
<1>1. r \in Registry /\ r.vault \in [Vaults -> Vault]
  BY DEF RegistryOK, RegistrySound, Registry
<1>2. PICK x : x = r.vault[v] /\ x \in Vault
  BY <1>1
<1>3. n <= issuable_tokens(x) /\ s = set_vault(r, v, [x EXCEPT !.to_be_issued = @ + n])
  <2>1. issuable_tokens(x) >= n /\ s = set_vault(r, v, [x EXCEPT !.to_be_issued = @ + n])
    BY <1>2 DEF try_increase_to_be_issued_tokens, Try
  <2>2. issuable_tokens(x) \in Nat
    BY <1>2, IssuableNat
  <2>. QED BY <2>1, <2>2
<1>4. PICK m : m = x.to_be_issued + n /\ m \in Nat
  BY <1>2 DEF Vault
<1>5. PICK w : w = [x EXCEPT !.to_be_issued = @ + n] /\ w = [x EXCEPT !.to_be_issued = m]
  BY <1>4
<1>6. w \in Vault /\ w.issued = x.issued /\ w.to_be_issued = m
  BY <1>2, <1>4, <1>5 DEF Vault
<1>7. s.vault = [r.vault EXCEPT ![v] = w]
  BY <1>1, <1>3, <1>5, <1>6, SetVaultType
<1>8. SUFFICES ASSUME NEW u \in Vaults,
                      backed_tokens(s.vault[u]) > backed_tokens(r.vault[u])
               PROVE  AtSecureThreshold(s.vault[u])
  BY DEF Obliged
<1>9. s.vault[u] = IF u = v THEN w ELSE r.vault[u]
  BY <1>1, <1>7, <1>8
<1>10. u = v
  BY <1>1, <1>8, <1>9, VaultNumbers
<1>11. n # 0
  <2>1. x.issued \in Nat /\ x.to_be_issued \in Nat
    BY <1>2 DEF Vault
  <2>2. backed_tokens(w) > backed_tokens(x)
    BY <1>2, <1>8, <1>9, <1>10
  <2>3. x.issued + m > x.issued + x.to_be_issued
    BY <1>6, <2>2 DEF backed_tokens
  <2>. QED BY <1>4, <2>1, <2>3
<1>12. AtSecureThreshold(w)
  BY <1>2, <1>3, <1>5, <1>11, CapacityChecked
<1>. QED BY <1>9, <1>10, <1>12

LEMMA SetVaultUntouched ==
    ASSUME NEW r \in Registry, NEW v \in Vaults, NEW w \in Vault,
           w.issued = r.vault[v].issued, w.to_be_issued = r.vault[v].to_be_issued,
           r.vault[v].stake <= w.stake,
           w.secure_collateral_threshold = r.vault[v].secure_collateral_threshold
    PROVE  Eased(r, set_vault(r, v, w))
<1>1. PICK s : s = set_vault(r, v, w)
  OBVIOUS
<1>2. s.vault = [r.vault EXCEPT ![v] = w]
  BY <1>1, SetVaultType
<1>3. Eased(r, s)
  BY <1>2, Untouched
<1>. QED BY <1>1, <1>3

LEMMA CountersEase ==
    ASSUME NEW r \in Registry, NEW v \in Vaults, NEW n \in Nat, NEW b \in BOOLEAN
    PROVE  /\ Eased(r, set_vault(r, v, [r.vault[v] EXCEPT !.to_be_redeemed = n]))
           /\ Eased(r, set_vault(r, v, [r.vault[v] EXCEPT !.to_be_replaced = n]))
           /\ Eased(r, set_vault(r, v, [r.vault[v] EXCEPT !.banned = b]))
<1>1. PICK x : x = r.vault[v] /\ x \in Vault /\ x.stake \in Nat
  BY VaultNumbers
<1>2. \A w \in {[x EXCEPT !.to_be_redeemed = n], [x EXCEPT !.to_be_replaced = n],
                 [x EXCEPT !.banned = b]} :
          /\ w \in Vault /\ w.issued = x.issued /\ w.to_be_issued = x.to_be_issued
          /\ w.stake = x.stake
          /\ w.secure_collateral_threshold = x.secure_collateral_threshold
  BY <1>1 DEF Vault
<1>3. \A w \in {[x EXCEPT !.to_be_redeemed = n], [x EXCEPT !.to_be_replaced = n],
                 [x EXCEPT !.banned = b]} : Eased(r, set_vault(r, v, w))
  <2>1. SUFFICES ASSUME NEW w \in Vault, w.issued = x.issued, w.to_be_issued = x.to_be_issued,
                        w.stake = x.stake,
                        w.secure_collateral_threshold = x.secure_collateral_threshold
                 PROVE  Eased(r, set_vault(r, v, w))
    BY <1>2
  <2>. QED BY <1>1, <2>1, SetVaultUntouched
<1>. QED BY <1>1, <1>3

LEMMA OffersEase ==
    ASSUME NEW r, RegistryOK(r), NEW v \in Vaults, NEW n \in Nat
    PROVE  /\ \A s \in try_increase_to_be_redeemed_tokens(r, v, n) : Eased(r, s)
           /\ \A s \in try_increase_to_be_replaced_tokens(r, v, n) : Eased(r, s)
           /\ Eased(r, decrease_to_be_replaced_tokens(r, v, n))
           /\ \A s \in ban_vault(r, v) : Eased(r, s)
<1>1. r \in Registry /\ r.vault[v] \in Vault
  BY VaultsTyped DEF RegistryOK
<1>2. PICK x : x = r.vault[v] /\ x \in Vault /\ x.to_be_redeemed \in Nat /\ x.to_be_replaced \in Nat
  BY <1>1 DEF Vault
<1>3. ASSUME NEW s \in try_increase_to_be_redeemed_tokens(r, v, n) PROVE Eased(r, s)
  <2>1. PICK m : m = x.to_be_redeemed + n /\ m \in Nat
    BY <1>2
  <2>2. s = set_vault(r, v, [r.vault[v] EXCEPT !.to_be_redeemed = m])
    BY <1>2, <1>3, <2>1 DEF try_increase_to_be_redeemed_tokens, Try
  <2>. QED BY <1>1, <2>1, <2>2, CountersEase
<1>4. ASSUME NEW s \in try_increase_to_be_replaced_tokens(r, v, n) PROVE Eased(r, s)
  <2>1. PICK m : m = x.to_be_replaced + n /\ m \in Nat
    BY <1>2
  <2>2. s = set_vault(r, v, [r.vault[v] EXCEPT !.to_be_replaced = m])
    BY <1>2, <1>4, <2>1 DEF try_increase_to_be_replaced_tokens, Try
  <2>. QED BY <1>1, <2>1, <2>2, CountersEase
<1>5. Eased(r, decrease_to_be_replaced_tokens(r, v, n))
  <2>1. PICK m : m = x.to_be_replaced - used_to_be_replaced(x, n) /\ m \in Nat
    BY <1>2, UsedReplace
  <2>2. decrease_to_be_replaced_tokens(r, v, n)
           = set_vault(r, v, [r.vault[v] EXCEPT !.to_be_replaced = m])
    BY <1>2, <2>1 DEF decrease_to_be_replaced_tokens
  <2>. QED BY <1>1, <2>1, <2>2, CountersEase
<1>6. ASSUME NEW s \in ban_vault(r, v) PROVE Eased(r, s)
  <2>1. s = set_vault(r, v, [r.vault[v] EXCEPT !.banned = TRUE])
    BY <1>6 DEF ban_vault, Try
  <2>. QED BY <1>1, <2>1, CountersEase
<1>. QED BY <1>3, <1>4, <1>5, <1>6

-----------------------------------------------------------------------------
(* Collateral                                                              *)

LEMMA UnlockEases ==
    ASSUME NEW r \in Registry, NEW v \in Vaults, NEW c \in Nat,
           NEW s \in unlock_collateral(r, v, c)
    PROVE  Eased(r, s) /\ s \in Registry
<1>1. PICK x : x = r.vault[v] /\ x \in Vault /\ x.stake \in Nat
  BY VaultNumbers
<1>2. s \in Registry /\ s.vault = [r.vault EXCEPT ![v] = Unlocked(x, c)]
  BY <1>1, Unlock
<1>3. PICK w : w = Unlocked(x, c)
  OBVIOUS
<1>4. /\ w.issued = x.issued /\ w.to_be_issued = x.to_be_issued /\ w.stake = x.stake
      /\ w.secure_collateral_threshold = x.secure_collateral_threshold
  BY <1>1, <1>3 DEF Vault, Unlocked
<1>. QED BY <1>1, <1>2, <1>3, <1>4, Untouched

LEMMA DecreaseLiquidatedEases ==
    ASSUME NEW r \in Registry, NEW v \in Vaults, NEW c \in Nat,
           NEW s \in decrease_liquidated_collateral(r, v, c)
    PROVE  Eased(r, s) /\ s \in Registry
<1>1. PICK x : x = r.vault[v] /\ x \in Vault /\ x.stake \in Nat
  BY VaultNumbers
<1>2. s \in Registry /\ s.vault = [r.vault EXCEPT ![v] = Unheld(x, c)]
  BY <1>1, DecreaseLiquidated
<1>3. PICK w : w = Unheld(x, c)
  OBVIOUS
<1>4. /\ w.issued = x.issued /\ w.to_be_issued = x.to_be_issued /\ w.stake = x.stake
      /\ w.secure_collateral_threshold = x.secure_collateral_threshold
  BY <1>1, <1>3 DEF Vault, Unheld
<1>. QED BY <1>1, <1>2, <1>3, <1>4, Untouched

LEMMA TotalEases ==
    ASSUME NEW r \in Registry, NEW c \in Nat,
           NEW s \in decrease_total_backing_collateral(r, c)
                       \cup try_increase_total_backing_collateral(r, c)
    PROVE  Eased(r, s) /\ s \in Registry
<1>1. s \in Registry /\ s.vault = r.vault
  BY DecreaseTotal, IncreaseTotal
<1>. QED BY <1>1, EasedRefl

(* More stake and a new reward stake.                                      *)
(* Nor do the rewards that the capacity earns.                             *)
LEMMA RewardsEase ==
    ASSUME NEW r \in Registry, NEW s, SameParts(r, s)
    PROVE  s \in Registry /\ Eased(r, s) /\ NoMore(r, s) /\ (RegistryOK(r) => RegistryOK(s))
<1>1. s \in Registry /\ s.vault = r.vault
  BY DEF SameParts
<1>2. Eased(r, s)
  BY <1>1, EasedRefl
<1>. QED BY <1>1, <1>2, EasedIsNoMore, SamePartsOK

LEMMA PoolDepositEases ==
    ASSUME ParamsOK, NEW r \in Registry, NEW v \in Vaults, NEW c \in Nat,
           NEW s \in pool_deposit_collateral(r, v, c)
    PROVE  Eased(r, s) /\ s \in Registry
<1>1. r.vault[v] \in Vault /\ r.vault[v].stake \in Nat
  BY VaultNumbers
<1>2. PICK y \in Vault, n \in Nat :
           /\ y = [r.vault[v] EXCEPT !.stake = @ + c, !.reward_stake = n]
           /\ y = Deposited(r.vault[v], c)
  BY <1>1, PoolDeposit
<1>3. /\ y.issued = r.vault[v].issued /\ y.to_be_issued = r.vault[v].to_be_issued
      /\ y.stake = r.vault[v].stake + c
      /\ y.secure_collateral_threshold = r.vault[v].secure_collateral_threshold
  BY <1>1, <1>2 DEF Vault
<1>4. r.vault[v].stake <= y.stake
  BY <1>1, <1>3
<1>5. s \in Registry /\ s.vault = [r.vault EXCEPT ![v] = y]
  BY <1>2, StakeDeposited
<1>. QED BY <1>3, <1>4, <1>5, Untouched

LEMMA TryDepositEases ==
    ASSUME ParamsOK, NEW r \in Registry, NEW v \in Vaults, NEW c \in Nat,
           NEW s \in try_deposit_collateral(r, v, c)
    PROVE  Eased(r, s) /\ s \in Registry
<1>1. PICK q, t : /\ q \in pool_deposit_collateral(r, v, c)
                  /\ t = set_vault(q, v, [q.vault[v] EXCEPT !.reserved = @ + c])
                  /\ s \in try_increase_total_backing_collateral(t, c)
  BY DEF try_deposit_collateral, lock_collateral
<1>2. q \in Registry /\ Eased(r, q)
  BY <1>1, PoolDepositEases
<1>3. PICK x : x = q.vault[v] /\ x \in Vault /\ x.stake \in Nat /\ x.reserved \in Nat
  BY <1>2, VaultNumbers DEF Vault
<1>4. PICK m : m = x.reserved + c /\ m \in Nat
  BY <1>3
<1>5. PICK w : w = [x EXCEPT !.reserved = m]
  OBVIOUS
<1>6. /\ w \in Vault /\ w.issued = x.issued /\ w.to_be_issued = x.to_be_issued
      /\ w.stake = x.stake /\ w.secure_collateral_threshold = x.secure_collateral_threshold
  BY <1>3, <1>4, <1>5 DEF Vault
<1>7. t = set_vault(q, v, w)
  BY <1>1, <1>3, <1>4, <1>5
<1>8. t \in Registry /\ Eased(q, t)
  <2>1. q.vault[v].stake <= w.stake
    BY <1>3, <1>6
  <2>2. set_vault(q, v, w) \in Registry /\ Eased(q, set_vault(q, v, w))
    BY <1>2, <1>3, <1>6, <2>1, SetVaultType, SetVaultUntouched
  <2>. QED BY <1>7, <2>2
<1>9. s \in Registry /\ Eased(t, s)
  BY <1>1, <1>8, TotalEases
<1>. QED BY <1>2, <1>8, <1>9, EasedChain

(* A slash or a withdrawal changes the stake and the reward stake only.    *)
LEMMA SlashAddsNothing ==
    ASSUME ParamsOK, NEW r \in Registry, NEW v \in Vaults, NEW c \in Nat, c <= r.vault[v].stake,
           NEW s \in pool_slash_collateral(r, v, c)
    PROVE  NoMore(r, s) /\ s \in Registry
<1>1. r.vault[v] \in Vault /\ r.vault[v].stake \in Nat
  BY VaultNumbers
<1>2. PICK y \in Vault, n \in Nat :
           /\ y = [r.vault[v] EXCEPT !.stake = @ - c, !.reward_stake = n]
           /\ y = Slashed(r.vault[v], c)
  BY <1>1, PoolSlash
<1>4. y.issued = r.vault[v].issued /\ y.to_be_issued = r.vault[v].to_be_issued
  BY <1>1, <1>2 DEF Vault
<1>5. backed_tokens(y) <= backed_tokens(r.vault[v])
  BY <1>1, <1>4, VaultNumbers DEF backed_tokens
<1>6. s \in Registry /\ s.vault = [r.vault EXCEPT ![v] = y]
  BY <1>2, StakeSlashed
<1>. QED BY <1>5, <1>6, OneVaultNoMore

LEMMA ForceWithdrawAddsNothing ==
    ASSUME ParamsOK, NEW r \in Registry, NEW v \in Vaults, NEW c \in Nat,
           NEW s \in force_withdraw_collateral(r, v, c)
    PROVE  NoMore(r, s) /\ s \in Registry
<1>1. PICK q, t : /\ q \in unlock_collateral(r, v, c)
                  /\ t \in decrease_total_backing_collateral(q, c)
                  /\ s \in pool_withdraw_collateral(t, v, c)
  BY DEF force_withdraw_collateral
<1>2. q \in Registry /\ Eased(r, q)
  BY <1>1, UnlockEases
<1>3. t \in Registry /\ Eased(q, t)
  BY <1>1, <1>2, TotalEases
<1>4. c <= t.vault[v].stake /\ s \in pool_slash_collateral(t, v, c)
  BY <1>1, <1>3, Withdraws
<1>5. s \in Registry /\ NoMore(t, s)
  BY <1>3, <1>4, SlashAddsNothing
<1>6. NoMore(r, q) /\ NoMore(q, t)
  BY <1>2, <1>3, EasedIsNoMore
<1>. QED BY <1>2, <1>3, <1>5, <1>6, NoMoreChain

LEMMA SlashStakeAddsNothing ==
    ASSUME ParamsOK, NEW r, RegistryOK(r), NEW v \in Vaults, ~is_liquidated(r.vault[v]),
           NEW c \in Nat, NEW s \in release_funds(r, <<"Collateral", v>>, c)
    PROVE  NoMore(r, s)
<1>1. PICK q, t : /\ q \in unlock_collateral(r, v, c)
                  /\ t \in decrease_total_backing_collateral(q, c)
                  /\ s \in pool_slash_collateral(t, v, c)
  BY ReleaseCollateral
<1>2. r \in Registry /\ r.vault[v] \in Vault /\ Locked(r.vault[v]) /\ Ordered(r.vault[v])
  BY VaultsTyped DEF RegistryOK
<1>3. q \in Registry /\ Eased(r, q)
  BY <1>1, <1>2, UnlockEases
<1>4. t \in Registry /\ Eased(q, t)
  BY <1>1, <1>3, TotalEases
<1>5. c <= t.vault[v].stake
  <2>1. c <= r.vault[v].reserved
    BY <1>1, <1>2, Unlock
  <2>2. r.vault[v].reserved = r.vault[v].stake
    BY <1>2 DEF Locked, Ordered, is_liquidated, Vault
  <2>3. r.vault[v].stake <= q.vault[v].stake /\ q.vault[v].stake <= t.vault[v].stake
    BY <1>3, <1>4 DEF Eased
  <2>. QED BY <1>2, <1>3, <1>4, <2>1, <2>2, <2>3, VaultNumbers
<1>6. s \in Registry /\ NoMore(t, s)
  BY <1>1, <1>4, <1>5, SlashAddsNothing
<1>7. NoMore(r, q) /\ NoMore(q, t)
  BY <1>3, <1>4, EasedIsNoMore
<1>. QED BY <1>2, <1>3, <1>4, <1>6, <1>7, NoMoreChain

(* The griefing collateral of a replace offer or request comes or goes.    *)
LEMMA ReplaceCollateralEases ==
    ASSUME NEW r \in Registry, NEW v \in Vaults, NEW c \in Nat,
           NEW s \in release_funds(r, <<"AvailableReplaceCollateral", v>>, c)
                       \cup release_funds(r, <<"ActiveReplaceCollateral", v>>, c)
                       \cup claim_funds(r, <<"AvailableReplaceCollateral", v>>, c)
                       \cup claim_funds(r, <<"ActiveReplaceCollateral", v>>, c)
    PROVE  Eased(r, s)
<1>1. r.vault \in [Vaults -> Vault] /\ r.vault[v] \in Vault /\ r.vault[v].stake \in Nat
  BY VaultNumbers DEF Registry
<1>2. \E k : s.vault = [r.vault EXCEPT ![v].replace_collateral = k]
           \/ s.vault = [r.vault EXCEPT ![v].active_replace_collateral = k]
  <2>1. CASE s \in release_funds(r, <<"AvailableReplaceCollateral", v>>, c)
    <3>1. s \in unlock_griefing([r EXCEPT !.vault[v].replace_collateral = @ - c], v, c)
      BY <2>1 DEF release_funds
    <3>2. s.vault = [r.vault EXCEPT ![v].replace_collateral = @ - c]
      BY <1>1, <3>1 DEF unlock_griefing, Try, Registry
    <3>. QED BY <3>2
  <2>2. CASE s \in release_funds(r, <<"ActiveReplaceCollateral", v>>, c)
    <3>1. s \in unlock_griefing([r EXCEPT !.vault[v].active_replace_collateral = @ - c], v, c)
      BY <2>2 DEF release_funds
    <3>2. s.vault = [r.vault EXCEPT ![v].active_replace_collateral = @ - c]
      BY <1>1, <3>1 DEF unlock_griefing, Try, Registry
    <3>. QED BY <3>2
  <2>3. CASE s \in claim_funds(r, <<"AvailableReplaceCollateral", v>>, c)
    <3>1. s = [r EXCEPT !.vault[v].replace_collateral = @ + c, !.griefing[v] = @ + c]
      BY <2>3 DEF claim_funds, Try
    <3>2. s.vault = [r.vault EXCEPT ![v].replace_collateral = @ + c]
      BY <1>1, <3>1 DEF Registry
    <3>. QED BY <3>2
  <2>4. CASE s \in claim_funds(r, <<"ActiveReplaceCollateral", v>>, c)
    <3>1. s = [r EXCEPT !.vault[v].active_replace_collateral = @ + c, !.griefing[v] = @ + c]
      BY <2>4 DEF claim_funds
    <3>2. s.vault = [r.vault EXCEPT ![v].active_replace_collateral = @ + c]
      BY <1>1, <3>1 DEF Registry
    <3>. QED BY <3>2
  <2>. QED BY <2>1, <2>2, <2>3, <2>4
<1>3. PICK k, w : /\ w = [r.vault[v] EXCEPT !.replace_collateral = k]
                     \/ w = [r.vault[v] EXCEPT !.active_replace_collateral = k]
                  /\ s.vault = [r.vault EXCEPT ![v] = w]
  BY <1>1, <1>2
<1>4. /\ w.issued = r.vault[v].issued /\ w.to_be_issued = r.vault[v].to_be_issued
      /\ w.stake = r.vault[v].stake
      /\ w.secure_collateral_threshold = r.vault[v].secure_collateral_threshold
  BY <1>1, <1>3 DEF Vault
<1>5. r.vault[v].stake <= w.stake
  BY <1>1, <1>4
<1>. QED BY <1>3, <1>4, <1>5, Untouched

LEMMA GriefingEases ==
    ASSUME NEW r \in Registry, NEW a, NEW c,
           NEW s, s \in unlock_griefing(r, a, c) \/ s = [r EXCEPT !.griefing[a] = @ + c]
    PROVE  Eased(r, s)
<1>1. s.vault = r.vault
  BY DEF unlock_griefing, Try, Registry
<1>. QED BY <1>1, EasedRefl

(* The liquidation vault is not a vault of anyone.                         *)
LEMMA LiquidationVaultEases ==
    ASSUME NEW r \in Registry, NEW u, NEW c \in Nat,
           NEW s \in claim_funds(r, <<"LiquidationVault", u>>, c)
                       \cup release_funds(r, <<"LiquidationVault", u>>, c)
    PROVE  s.vault = r.vault
<1>1. CASE s \in claim_funds(r, <<"LiquidationVault", u>>, c)
  <2>1. PICK q : /\ q \in try_increase_total_backing_collateral(r, c)
                 /\ s = [q EXCEPT !.lv.collateral = @ + c, !.lv.reserved = @ + c]
    BY <1>1 DEF claim_funds
  <2>2. q \in Registry /\ q.vault = r.vault
    BY <2>1, IncreaseTotal
  <2>3. s.vault = q.vault
    BY <2>1, <2>2 DEF Registry
  <2>. QED BY <2>2, <2>3
<1>2. CASE s \in release_funds(r, <<"LiquidationVault", u>>, c)
  <2>1. s = [r EXCEPT !.lv.collateral = @ - c, !.lv.reserved = @ - c, !.total = @ - c]
    BY <1>2 DEF release_funds, Try
  <2>. QED BY <2>1 DEF Registry
<1>. QED BY <1>1, <1>2

(* What a liquidated vault held for a request leaves its account.          *)
LEMMA ConfiscationEases ==
    ASSUME NEW r \in Registry, NEW v \in Vaults, NEW c \in Nat, NEW u, NEW kind,
           kind = "FreeBalance" \/ kind = "LiquidationVault",
           NEW s \in transfer_funds(r, <<"LiquidatedCollateral", v>>, <<kind, u>>, c)
    PROVE  Eased(r, s)
<1>1. PICK p : /\ p \in release_funds(r, <<"LiquidatedCollateral", v>>, c)
               /\ s \in claim_funds(p, <<kind, u>>, c)
  BY Transferred
<1>2. PICK q : /\ q \in decrease_total_backing_collateral(r, c)
               /\ p \in unlock_collateral(q, v, c)
  BY <1>1, ReleaseLiquidated
<1>3. q \in Registry /\ Eased(r, q)
  BY <1>2, TotalEases
<1>4. p \in Registry /\ Eased(q, p)
  BY <1>2, <1>3, UnlockEases
<1>5. s.vault = p.vault
  <2>1. CASE kind = "FreeBalance"
    <3>1. s = p
      BY <1>1, <2>1 DEF claim_funds
    <3>. QED BY <3>1
  <2>2. CASE kind = "LiquidationVault"
    <3>1. s \in claim_funds(p, <<"LiquidationVault", u>>, c)
      BY <1>1, <2>2
    <3>. QED BY <1>4, <3>1, LiquidationVaultEases
  <2>. QED BY <2>1, <2>2
<1>6. Eased(r, p)
  BY <1>3, <1>4, EasedChain
<1>. QED BY <1>5, <1>6 DEF Eased

LEMMA WithdrawReplaceEases ==
    ASSUME NEW r, RegistryOK(r), NEW v \in Vaults, NEW n \in Nat,
           NEW s \in withdraw_replace_request(r, v, n)
    PROVE  Eased(r, s)
<1>1. PICK q, c : /\ q = decrease_to_be_replaced_tokens(r, v, n)
                  /\ c = used_replace_collateral(r.vault[v], n)
  OBVIOUS
<1>2. s \in release_funds(q, <<"AvailableReplaceCollateral", v>>, c)
  BY <1>1, ToFreeBalance DEF withdraw_replace_request
<1>3. r \in Registry /\ r.vault[v] \in Vault
  BY VaultsTyped DEF RegistryOK
<1>4. c \in Nat
  BY <1>1, <1>3, UsedReplace DEF Vault
<1>5. q \in Registry /\ Eased(r, q)
  BY <1>1, DecreaseToBeReplacedOK, OffersEase DEF RegistryOK, RegistrySound
<1>6. Eased(q, s)
  BY <1>2, <1>4, <1>5, ReplaceCollateralEases
<1>7. s \in Registry
  BY WithdrawReplaceOK DEF RegistryOK, RegistrySound
<1>. QED BY <1>3, <1>5, <1>6, <1>7, EasedChain

(* A liquidated vault is left with no tokens.                              *)
LEMMA LiquidationAddsNothing ==
    ASSUME ParamsOK, NEW r, RegistryOK(r), NEW v \in Vaults, NEW s \in liquidate_vault(r, v)
    PROVE  NoMore(r, s)
<1>1. PICK q, x : /\ q \in withdraw_replace_request(r, v, r.vault[v].to_be_replaced)
                  /\ x \in Vault /\ s.vault = [q.vault EXCEPT ![v] = Moved(x)]
  <2>1. MovedAfterWithdrawal(r, v, s)
    BY LiquidateVaultOK
  <2>. QED BY <2>1 DEF MovedAfterWithdrawal
<1>2. r \in Registry /\ s \in Registry /\ r.vault[v].to_be_replaced \in Nat
  BY LiquidateVaultOK, VaultsTyped DEF RegistryOK, RegistrySound, Vault
<1>3. q \in Registry /\ Eased(r, q)
  BY <1>1, <1>2, WithdrawReplaceOK, WithdrawReplaceEases DEF RegistryOK, RegistrySound
<1>4. backed_tokens(Moved(x)) = 0
  BY <1>1, MovedType DEF backed_tokens
<1>5. backed_tokens(Moved(x)) <= backed_tokens(q.vault[v])
  BY <1>3, <1>4, VaultNumbers
<1>6. NoMore(q, s)
  BY <1>1, <1>3, <1>5, OneVaultNoMore
<1>7. NoMore(r, q)
  BY <1>3, EasedIsNoMore
<1>. QED BY <1>2, <1>3, <1>6, <1>7, NoMoreChain

LEMMA RedeemTokensAddsNothing ==
    ASSUME ParamsOK, NEW r, RegistryOK(r), NEW v \in Vaults, NEW n \in Nat,
           NEW premium \in Nat, NEW s \in redeem_tokens(r, v, n, premium)
    PROVE  NoMore(r, s)
<1>1. PICK c : c = liquidated_share(r.vault[v], n)
  OBVIOUS
<1>2. PICK q \in execute_redeem_tokens(r, v, n) :
           s \in IF ~is_liquidated(q.vault[v])
                 THEN IF premium = 0 THEN {q}
                      ELSE transfer_funds(q, <<"Collateral", v>>, <<"FreeBalance", v>>, premium)
                 ELSE UNION {UNION {unlock_collateral(u, v, c) :
                                       u \in decrease_liquidated_collateral(t, v, c)} :
                                t \in decrease_total_backing_collateral(q, c)}
  BY <1>1 DEF redeem_tokens
<1>3. /\ RegistrySound(r) /\ r \in Registry /\ r.vault[v] \in Vault
      /\ RegistrySound(q) /\ q \in Registry /\ q.vault[v].status = r.vault[v].status
      /\ NoMore(r, q) /\ s \in Registry
  <2>1. RegistrySound(r) /\ r \in Registry /\ r.vault[v] \in Vault
    BY VaultsTyped DEF RegistryOK
  <2>2. RegistrySound(q) /\ q.vault[v].status = r.vault[v].status
    BY <1>2, <2>1, ExecuteRedeemTokens
  <2>3. NoMore(r, q)
    BY <1>2, <2>1, ExecuteRedeemEases, EasedIsNoMore
  <2>4. s \in Registry
    BY RedeemTokensOK DEF RegistryOK, RegistrySound
  <2>. QED BY <2>1, <2>2, <2>3, <2>4, VaultsTyped
<1>4. NoMore(q, s)
  <2>1. CASE ~is_liquidated(q.vault[v]) /\ premium = 0
    <3>1. s = q
      BY <1>2, <2>1
    <3>. QED BY <1>3, <3>1, EasedRefl, EasedIsNoMore
  <2>2. CASE ~is_liquidated(q.vault[v]) /\ premium # 0
    <3>1. s \in release_funds(q, <<"Collateral", v>>, premium)
      BY <1>2, <2>2, ToFreeBalance
    <3>2. ~is_liquidated(r.vault[v])
      BY <1>3, <2>2 DEF is_liquidated
    <3>3. Settling(r, v, n)
      BY <3>2, ActiveSettling
    <3>4. RegistryOK(q)
      BY <1>2, <3>3, SettleOK
    <3>. QED BY <2>2, <3>1, <3>4, SlashStakeAddsNothing
  <2>3. CASE is_liquidated(q.vault[v])
    <3>1. PICK t, u : /\ t \in decrease_total_backing_collateral(q, c)
                      /\ u \in decrease_liquidated_collateral(t, v, c)
                      /\ s \in unlock_collateral(u, v, c)
      BY <1>2, <2>3
    <3>2. c \in Nat
      BY <1>1, <1>3, LiquidatedShare
    <3>3. t \in Registry /\ Eased(q, t)
      BY <1>3, <3>1, <3>2, TotalEases
    <3>4. u \in Registry /\ Eased(t, u)
      BY <3>1, <3>2, <3>3, DecreaseLiquidatedEases
    <3>5. Eased(u, s)
      BY <3>1, <3>2, <3>4, UnlockEases
    <3>6. Eased(q, u)
      BY <1>3, <3>3, <3>4, EasedChain
    <3>7. Eased(q, s)
      BY <1>3, <3>4, <3>5, <3>6, EasedChain
    <3>. QED BY <3>7, EasedIsNoMore
  <2>. QED BY <2>1, <2>2, <2>3
<1>. QED BY <1>3, <1>4, NoMoreChain

LEMMA RedeemLiquidationEases ==
    ASSUME NEW r, RegistryOK(r), NEW u, NEW n \in Nat,
           NEW s \in redeem_tokens_liquidation(r, u, n)
    PROVE  Eased(r, s)
<1>1. r \in Registry /\ s \in Registry
  BY RedeemLiquidationOK DEF RegistryOK, RegistrySound
<1>2. PICK c, q : /\ q \in transfer_funds(r, <<"LiquidationVault", u>>, <<"FreeBalance", u>>, c)
                  /\ s = [q EXCEPT !.lv.issued = @ - n]
  BY DEF redeem_tokens_liquidation
<1>3. q \in release_funds(r, <<"LiquidationVault", u>>, c)
  BY <1>2, ToFreeBalance
<1>4. q = [r EXCEPT !.lv.collateral = @ - c, !.lv.reserved = @ - c, !.total = @ - c]
  BY <1>3 DEF release_funds, Try
<1>5. s.vault = r.vault
  BY <1>1, <1>2, <1>4 DEF Registry
<1>. QED BY <1>1, <1>5, EasedRefl

LEMMA ReplaceTokensEases ==
    ASSUME ParamsOK, NEW r, RegistryOK(r), NEW old \in Vaults, NEW new \in Vaults,
           NEW n \in Nat, NEW s \in replace_tokens(r, old, new, n)
    PROVE  Eased(r, s)
<1>1. PICK c : c = liquidated_share(r.vault[old], n)
  OBVIOUS
<1>2. PICK q, t : /\ q \in IF is_liquidated(r.vault[old])
                            THEN UNION {pool_deposit_collateral(p, old, c) :
                                           p \in decrease_liquidated_collateral(r, old, c)}
                            ELSE {r}
                  /\ t \in execute_redeem_tokens(q, old, n)
                  /\ s \in execute_issue_tokens(t, new, n)
  BY <1>1 DEF replace_tokens
<1>3. r \in Registry /\ r.vault[old] \in Vault /\ c \in Nat
  BY <1>1, VaultsTyped, LiquidatedShare DEF RegistryOK
<1>4. Settling(q, old, n) /\ Eased(r, q)
  <2>1. CASE is_liquidated(r.vault[old])
    <3>1. PICK p : /\ p \in decrease_liquidated_collateral(r, old, c)
                   /\ q \in pool_deposit_collateral(p, old, c)
      BY <1>2, <2>1
    <3>2. Settling(q, old, n)
      BY <1>1, <2>1, <3>1, RedepositSettling
    <3>3. p \in Registry /\ Eased(r, p)
      BY <1>3, <3>1, DecreaseLiquidatedEases
    <3>4. q \in Registry /\ Eased(p, q)
      BY <1>3, <3>1, <3>3, PoolDepositEases
    <3>. QED BY <1>3, <3>2, <3>3, <3>4, EasedChain
  <2>2. CASE ~is_liquidated(r.vault[old])
    <3>1. q = r
      BY <1>2, <2>2
    <3>. QED BY <1>3, <2>2, <3>1, ActiveSettling, EasedRefl
  <2>. QED BY <2>1, <2>2
<1>5. RegistryOK(t)
  BY <1>2, <1>4, SettleOK
<1>6. RegistrySound(q) /\ q \in Registry /\ t \in Registry
  BY <1>4, <1>5, VaultsTyped DEF Settling, RegistryOK, RegistrySound
<1>7. Eased(q, t)
  BY <1>2, <1>6, ExecuteRedeemEases
<1>8. Eased(t, s) /\ s \in Registry
  BY <1>2, <1>5, ExecuteIssueEases, ExecuteIssueTokensOK DEF RegistryOK, RegistrySound
<1>9. Eased(r, t)
  BY <1>3, <1>4, <1>6, <1>7, EasedChain
<1>. QED BY <1>3, <1>6, <1>8, <1>9, EasedChain

LEMMA CancelReplaceTokensEases ==
    ASSUME NEW r, RegistryOK(r), NEW old \in Vaults, NEW new \in Vaults, NEW n \in Nat,
           NEW s \in cancel_replace_tokens(r, old, new, n)
    PROVE  Eased(r, s)
<1>1. PICK c : c = liquidated_share(r.vault[old], n)
  OBVIOUS
<1>2. PICK q, t : /\ q \in IF is_liquidated(r.vault[old])
                            THEN UNION {transfer_funds(p, <<"LiquidatedCollateral", old>>,
                                                       <<"LiquidationVault", old>>, c) :
                                           p \in decrease_liquidated_collateral(r, old, c)}
                            ELSE {r}
                  /\ t \in decrease_to_be_redeemed(q, old, n)
                  /\ s \in decrease_to_be_issued(t, new, n)
  BY <1>1 DEF cancel_replace_tokens
<1>3. r \in Registry /\ r.vault[old] \in Vault /\ c \in Nat
  BY <1>1, VaultsTyped, LiquidatedShare DEF RegistryOK
<1>4. Settling(q, old, n)
  <2>1. CASE is_liquidated(r.vault[old])
    <3>1. PICK p : /\ p \in decrease_liquidated_collateral(r, old, c)
                   /\ q \in transfer_funds(p, <<"LiquidatedCollateral", old>>,
                                           <<"LiquidationVault", old>>, c)
      BY <1>2, <2>1
    <3>. QED BY <1>1, <3>1, ConfiscateSettling
  <2>2. CASE ~is_liquidated(r.vault[old])
    BY <1>2, <2>2, ActiveSettling
  <2>. QED BY <2>1, <2>2
<1>5. RegistryOK(t)
  BY <1>2, <1>4, SettleOK
<1>6. RegistrySound(q) /\ q \in Registry /\ t \in Registry
  BY <1>4, <1>5, VaultsTyped DEF Settling, RegistryOK, RegistrySound
<1>7. Eased(r, q)
  <2>1. CASE is_liquidated(r.vault[old])
    <3>1. PICK p : /\ p \in decrease_liquidated_collateral(r, old, c)
                   /\ q \in transfer_funds(p, <<"LiquidatedCollateral", old>>,
                                           <<"LiquidationVault", old>>, c)
      BY <1>2, <2>1
    <3>2. p \in Registry /\ Eased(r, p)
      BY <1>3, <3>1, DecreaseLiquidatedEases
    <3>3. Eased(p, q)
      BY <1>3, <3>1, <3>2, ConfiscationEases
    <3>. QED BY <1>3, <1>6, <3>2, <3>3, EasedChain
  <2>2. CASE ~is_liquidated(r.vault[old])
    BY <1>2, <1>3, <2>2, EasedRefl
  <2>. QED BY <2>1, <2>2
<1>8. Eased(q, t)
  BY <1>2, <1>6, DecreaseToBeRedeemedEases
<1>9. Eased(t, s) /\ s \in Registry
  BY <1>2, <1>5, DecreaseToBeIssuedEases, DecreaseToBeIssuedOK DEF RegistryOK, RegistrySound
<1>10. Eased(r, t)
  BY <1>3, <1>6, <1>7, <1>8, EasedChain
<1>. QED BY <1>3, <1>6, <1>9, <1>10, EasedChain

LEMMA ReleaseReplaceCollateralEases ==
    ASSUME NEW r, RegistryOK(r), NEW v \in Vaults, NEW n \in Nat,
           NEW s \in release_replace_collateral(r, v, n)
    PROVE  Eased(r, s)
<1>1. PICK q, c : /\ q = decrease_to_be_replaced_tokens(r, v, n)
                  /\ c = used_replace_collateral(r.vault[v], n)
  OBVIOUS
<1>2. r \in Registry /\ r.vault[v] \in Vault /\ s \in Registry
  BY ReleaseReplaceCollateralOK, VaultsTyped DEF RegistryOK, RegistrySound
<1>3. c \in Nat
  BY <1>1, <1>2, UsedReplace DEF Vault
<1>4. q \in Registry /\ Eased(r, q)
  BY <1>1, DecreaseToBeReplacedOK, OffersEase DEF RegistryOK, RegistrySound
<1>5. s = q \/ s \in release_funds(q, <<"AvailableReplaceCollateral", v>>, c)
  BY <1>1, ToFreeBalance DEF release_replace_collateral
<1>6. Eased(q, s)
  BY <1>3, <1>4, <1>5, ReplaceCollateralEases, EasedRefl
<1>. QED BY <1>2, <1>4, <1>6, EasedChain

(* The punishment of a vault that missed a redeem.                         *)
LEMMA SlashForCancelAddsNothing ==
    ASSUME BridgeInv, NEW i \in RedeemIds, NEW reimburse \in BOOLEAN,
           NEW s \in slash_for_cancel(redeemRequests[i], reimburse)
    PROVE  NoMore(registry, s)
<1>. DEFINE redeem == redeemRequests[i]
<1>0. RegistryOK(registry) /\ ParamsOK /\ registry \in Registry
  BY DEF BridgeInv, RegistryInv, RegistryOK, RegistrySound
<1>1. PICK v, n, u : /\ v = redeem.vault /\ n = burn_amount(redeem) /\ u = redeem.redeemer
                     /\ v \in Vaults /\ n \in Nat
  BY RedeemTyped
<1>2. PICK w : w = registry.vault[v] /\ w \in Vault
  BY <1>0, <1>1, VaultsTyped DEF RegistryOK
<1>3. s \in Registry
  BY SlashForCancel, VaultsTyped DEF Settling, RegistrySound
<1>. HIDE DEF redeem
<1>4. CASE is_liquidated(w)
  <2>. DEFINE c == liquidated_share(w, n)
  <2>1. PICK q, kind, a :
             /\ q \in decrease_liquidated_collateral(registry, v, c)
             /\ kind = "FreeBalance" \/ kind = "LiquidationVault"
             /\ s \in transfer_funds(q, <<"LiquidatedCollateral", v>>, <<kind, a>>, c)
    <3>1. PICK q, d : /\ q \in decrease_liquidated_collateral(registry, v, c)
                      /\ d = IF reimburse THEN <<"FreeBalance", u>> ELSE <<"LiquidationVault", v>>
                      /\ s \in transfer_funds(q, <<"LiquidatedCollateral", v>>, d, c)
      BY <1>1, <1>2, <1>4 DEF slash_for_cancel, redeem
    <3>2. \E kind, a : d = <<kind, a>> /\ (kind = "FreeBalance" \/ kind = "LiquidationVault")
      BY <3>1
    <3>. QED BY <3>1, <3>2
  <2>2. c \in Nat
    BY <1>1, <1>2, LiquidatedShare
  <2>. HIDE DEF c
  <2>3. q \in Registry /\ Eased(registry, q)
    BY <1>0, <1>1, <2>1, <2>2, DecreaseLiquidatedEases
  <2>4. Eased(q, s)
    BY <1>1, <2>1, <2>2, <2>3, ConfiscationEases
  <2>5. Eased(registry, s)
    BY <1>0, <1>3, <2>3, <2>4, EasedChain
  <2>. QED BY <2>5, EasedIsNoMore
<1>5. CASE ~is_liquidated(w)
  <2>. DEFINE value == wrapped_to_collateral(n)
              slash == IF reimburse THEN value + get_punishment_fee(value)
                       ELSE get_punishment_fee(value)
  <2>1. PICK q, c : /\ c = min(w.stake, slash)
                    /\ q \in transfer_funds(registry, <<"Collateral", v>>, <<"FreeBalance", u>>, c)
                    /\ s = q \/ s \in ban_vault(q, v)
    BY <1>1, <1>2, <1>5 DEF slash_for_cancel, try_ban_vault, redeem
  <2>2. value \in Nat
    BY <1>0, <1>1, ParamsPositive, MulNat DEF wrapped_to_collateral
  <2>. HIDE DEF value
  <2>3. get_punishment_fee(value) \in Nat
    BY <2>2, MulNat, FeeAssumption DEF get_punishment_fee
  <2>4. slash \in Nat /\ w.stake \in Nat
    BY <1>2, <2>2, <2>3 DEF Vault
  <2>. HIDE DEF slash
  <2>5. c \in Nat
    BY <2>1, <2>4 DEF min
  <2>6. q \in release_funds(registry, <<"Collateral", v>>, c)
    BY <2>1, ToFreeBalance
  <2>7. RegistryOK(q) /\ q \in Registry
    BY <1>0, <1>1, <1>2, <1>5, <2>5, <2>6, SlashStakeOK DEF RegistryOK, RegistrySound
  <2>8. NoMore(registry, q)
    BY <1>0, <1>1, <1>2, <1>5, <2>5, <2>6, SlashStakeAddsNothing
  <2>9. Eased(q, s)
    BY <1>1, <2>1, <2>7, OffersEase, EasedRefl, 0 \in Nat
  <2>. QED BY <1>0, <1>3, <2>7, <2>8, <2>9, EasedIsNoMore, NoMoreChain
<1>. QED BY <1>4, <1>5

-----------------------------------------------------------------------------
(* The extrinsics                                                          *)

LEMMA RegistryObliges ==
    ASSUME BridgeInv, BridgeInv', RegistryNext
    PROVE  Obliged(registry, registry')
<1>1. PICK r, s : r = registry /\ s = registry'
  OBVIOUS
<1>2. RegistryOK(r) /\ ParamsOK /\ r \in Registry /\ s \in Registry
  BY <1>1 DEF BridgeInv, RegistryInv, RegistryOK, RegistrySound
<1>3. SUFFICES NoMore(r, s)
  BY <1>1, <1>2, NoMoreIsObliged
<1>4. CASE s = r
  BY <1>2, <1>4, EasedRefl, EasedIsNoMore
<1>5. ASSUME NEW v \in Vaults, NEW c \in Nat,
             \/ register_vault(v, c) \/ deposit_collateral(v, c) \/ withdraw_collateral(v, c)
      PROVE  NoMore(r, s)
  <2>1. CASE register_vault(v, c)
    <3>1. PICK x, q : /\ x = [NoVault EXCEPT !.status = "accepting"]
                      /\ q = set_vault(r, v, x) /\ s \in try_deposit_collateral(q, v, c)
      BY <1>1, <2>1 DEF register_vault
    <3>2. x \in Vault /\ x.issued = 0 /\ x.to_be_issued = 0
      BY <3>1 DEF NoVault, Vault, VaultStatus
    <3>3. q \in Registry /\ q.vault = [r.vault EXCEPT ![v] = x]
      BY <1>2, <3>1, <3>2, SetVaultType
    <3>4. backed_tokens(x) <= backed_tokens(r.vault[v])
      BY <1>2, <3>2, VaultNumbers DEF backed_tokens
    <3>5. NoMore(r, q)
      BY <1>2, <3>3, <3>4, OneVaultNoMore
    <3>6. NoMore(q, s)
      BY <1>2, <1>5, <3>1, <3>3, TryDepositEases, EasedIsNoMore
    <3>. QED BY <1>2, <3>3, <3>5, <3>6, NoMoreChain
  <2>2. CASE deposit_collateral(v, c)
    <3>1. s \in try_deposit_collateral(r, v, c)
      BY <1>1, <2>2 DEF deposit_collateral
    <3>. QED BY <1>2, <3>1, TryDepositEases, EasedIsNoMore
  <2>3. CASE withdraw_collateral(v, c)
    <3>1. s \in force_withdraw_collateral(r, v, c)
      BY <1>1, <2>3 DEF withdraw_collateral
    <3>. QED BY <1>2, <3>1, ForceWithdrawAddsNothing
  <2>. QED BY <1>5, <2>1, <2>2, <2>3
<1>6. ASSUME NEW v \in Vaults, report_undercollateralized_vault(v)
      PROVE  NoMore(r, s)
  <2>1. s \in liquidate_vault(r, v)
    BY <1>1, <1>6 DEF report_undercollateralized_vault
  <2>. QED BY <1>2, <2>1, LiquidationAddsNothing
(* The calls that touch neither the tokens nor the stake of the vault.     *)
<1>7. ASSUME NEW v \in Vaults, NEW x, s.vault = [r.vault EXCEPT ![v] = x],
             x.issued = r.vault[v].issued, x.to_be_issued = r.vault[v].to_be_issued
      PROVE  NoMore(r, s)
  <2>1. backed_tokens(x) <= backed_tokens(r.vault[v])
    BY <1>2, <1>7, VaultNumbers DEF backed_tokens
  <2>. QED BY <1>2, <1>7, <2>1, OneVaultNoMore
<1>8. ASSUME NEW v \in Vaults, NEW x \in Vault, s \in update_pools(r, v, x),
             x.issued = r.vault[v].issued, x.to_be_issued = r.vault[v].to_be_issued
      PROVE  NoMore(r, s)
  <2>1. PICK n \in Nat : update_reward_stake(x) = [x EXCEPT !.reward_stake = n]
    BY <1>2, UpdateRewardStake
  <2>2. PICK y : y = [x EXCEPT !.reward_stake = n]
    OBVIOUS
  <2>3. y \in Vault /\ y.issued = x.issued /\ y.to_be_issued = x.to_be_issued
    BY <2>2 DEF Vault
  <2>4. PICK q : SameParts(r, q) /\ s = set_vault(q, v, y)
    BY <1>2, <1>8, <2>1, <2>2, PoolsUpdated
  <2>5. s.vault = [r.vault EXCEPT ![v] = y]
    BY <2>3, <2>4, SetVaultType DEF SameParts
  <2>. QED BY <1>7, <1>8, <2>3, <2>5
<1>9. ASSUME NEW v \in Vaults, NEW b \in BOOLEAN, accept_new_issues(v, b)
      PROVE  NoMore(r, s)
  <2>1. PICK st, x : /\ st = IF b THEN "accepting" ELSE "paused"
                     /\ x = [r.vault[v] EXCEPT !.status = st]
                     /\ s \in update_pools(r, v, x)
    BY <1>1, <1>9 DEF accept_new_issues
  <2>2. st \in VaultStatus /\ r.vault[v] \in Vault
    BY <1>2, <2>1, VaultNumbers DEF VaultStatus
  <2>3. x \in Vault /\ x.issued = r.vault[v].issued /\ x.to_be_issued = r.vault[v].to_be_issued
    BY <2>1, <2>2 DEF Vault
  <2>. QED BY <1>8, <2>1, <2>3
<1>10. ASSUME NEW v \in Vaults, NEW t \in CustomThresholds, set_custom_secure_threshold(v, t)
       PROVE  NoMore(r, s)
  <2>1. PICK x : /\ x = [r.vault[v] EXCEPT !.secure_collateral_threshold = t]
                 /\ s \in update_pools(r, v, x)
    BY <1>1, <1>10 DEF set_custom_secure_threshold
  <2>2. t \in Nat /\ r.vault[v] \in Vault
    BY <1>2, RegistryAssumption, VaultNumbers
  <2>3. x \in Vault /\ x.issued = r.vault[v].issued /\ x.to_be_issued = r.vault[v].to_be_issued
    BY <2>1, <2>2 DEF Vault
  <2>. QED BY <1>8, <2>1, <2>3
<1>11. ASSUME NEW v \in Vaults, recover_vault_id(v) \/ ban_expires(v)
       PROVE  NoMore(r, s)
  <2>0. r.vault[v] \in Vault /\ r.vault \in [Vaults -> Vault]
    BY <1>2, VaultNumbers DEF Registry
  <2>1. CASE recover_vault_id(v)
    <3>1. PICK x : /\ x = [r.vault[v] EXCEPT !.status = "accepting"] /\ s = set_vault(r, v, x)
      BY <1>1, <2>1 DEF recover_vault_id
    <3>2. x \in Vault /\ x.issued = r.vault[v].issued /\ x.to_be_issued = r.vault[v].to_be_issued
      BY <2>0, <3>1 DEF Vault, VaultStatus
    <3>3. s.vault = [r.vault EXCEPT ![v] = x]
      BY <1>2, <3>1, <3>2, SetVaultType
    <3>. QED BY <1>7, <3>2, <3>3
  <2>2. CASE ban_expires(v)
    <3>1. s.vault = [r.vault EXCEPT ![v].banned = FALSE]
      BY <1>1, <1>2, <2>2 DEF ban_expires, Registry
    <3>2. PICK x : x = [r.vault[v] EXCEPT !.banned = FALSE]
      OBVIOUS
    <3>3. s.vault = [r.vault EXCEPT ![v] = x]
      BY <2>0, <3>1, <3>2
    <3>4. x.issued = r.vault[v].issued /\ x.to_be_issued = r.vault[v].to_be_issued
      BY <2>0, <3>2 DEF Vault
    <3>. QED BY <1>7, <3>3, <3>4
  <2>. QED BY <1>11, <2>1, <2>2
<1>12. CASE set_parameters
  BY <1>1, <1>4, <1>12 DEF set_parameters
<1>a. CASE (\E rate \in Rates : feed_values(rate)) \/ distribute_block_reward
  BY <1>1, <1>2, <1>a, CapacityMoves, RewardsEase
<1>13. ASSUME NEW v \in Vaults
       PROVE  CollateralAmounts \subseteq Nat /\ registry.vault[v].stake \in Nat
  BY <1>1, <1>2, VaultNumbers, RegistryAssumption
<1>. QED BY <1>5, <1>6, <1>9, <1>10, <1>11, <1>12, <1>a, <1>13 DEF RegistryNext

LEMMA IssueObliges ==
    ASSUME BridgeInv, BridgeInv', IssueNext
    PROVE  Obliged(registry, registry')
<1>1. PICK s : s = registry'
  OBVIOUS
<1>2. RegistryOK(registry) /\ ParamsOK /\ registry \in Registry /\ s \in Registry
  BY <1>1 DEF BridgeInv, RegistryInv, RegistryOK, RegistrySound
<1>3. CASE \E a \in Requesters, v \in Vaults, x \in TokenAmounts : request_issue(a, v, x)
  <2>1. PICK a \in Requesters, v \in Vaults, x \in TokenAmounts : request_issue(a, v, x)
    BY <1>3
  <2>2. PICK g, q : /\ q \in try_increase_to_be_issued_tokens(registry, v, x)
                    /\ s = [q EXCEPT !.griefing[a] = @ + g]
    BY <1>1, <2>1 DEF request_issue
  <2>3. x \in Nat
    BY RegistryAssumption
  <2>4. Obliged(registry, q) /\ q \in Registry
    BY <1>2, <2>2, <2>3, TryIncreaseToBeIssuedObliges, TryIncreaseToBeIssuedOK
       DEF RegistryOK, RegistrySound
  <2>5. Eased(q, s)
    BY <2>2, <2>4, GriefingEases
  <2>. QED BY <1>1, <1>2, <2>4, <2>5, ObligedBefore
<1>4. ASSUME NEW i \in IssueIds, NEW prepared, NEW total \in Nat,
             \A q \in prepared : RegistryOK(q) /\ Obliged(registry, q),
             finish_issue(i, prepared, total)
      PROVE  Obliged(registry, s)
  <2>1. issueRequests[i] \in IssueRequest
    BY RequestChanged DEF BridgeInv, IssueTypeOK, IssueIds
  <2>2. PICK v : /\ v = set_issue_amount(issueRequests[i], total).vault /\ v \in Vaults
    BY <1>4, <2>1, SetIssueAmountType DEF IssueRequest
  <2>3. PICK q, t, fee : /\ q \in prepared /\ t \in execute_issue_tokens(q, v, total)
                         /\ s \in distribute_rewards(t, fee)
    BY <1>1, <1>4, <2>2 DEF finish_issue
  <2>4. RegistryOK(q) /\ Obliged(registry, q) /\ q \in Registry
    BY <1>4, <2>3 DEF RegistryOK, RegistrySound
  <2>5. Eased(q, t) /\ t \in Registry
    BY <1>4, <2>2, <2>3, <2>4, ExecuteIssueEases, ExecuteIssueTokensOK
       DEF RegistryOK, RegistrySound
  <2>6. Eased(t, s)
    BY <2>3, <2>5, RewardsDistributed, RewardsEase
  <2>7. Eased(q, s)
    BY <1>2, <2>4, <2>5, <2>6, EasedChain
  <2>. QED BY <1>2, <2>4, <2>7, ObligedBefore
<1>5. ASSUME NEW i \in IssueIds, NEW a \in Requesters, NEW x \in TokenAmounts,
             execute_issue(a, i, x)
      PROVE  Obliged(registry, s)
  <2>1. PICK issue \in IssueRequest : issue = issueRequests[i]
    BY RequestChanged DEF BridgeInv, IssueTypeOK, IssueIds
  <2>2. PICK expected, v, g, u : /\ expected = issue.amount + issue.fee /\ v = issue.vault
                                 /\ g = issue.griefing_collateral /\ u = issue.requester
    OBVIOUS
  <2>3. v \in Vaults /\ u \in Accounts /\ g \in Nat /\ expected \in Nat /\ x \in Nat
    BY <2>1, <2>2, RegistryAssumption DEF IssueRequest
  <2>4. ASSUME NEW q, RegistryOK(q), Obliged(registry, q), NEW t \in unlock_griefing(q, u, g)
        PROVE  RegistryOK(t) /\ Obliged(registry, t)
    <3>1. RegistryOK(t) /\ q \in Registry /\ t \in Registry
      BY <2>3, <2>4, UnlockGriefingOK DEF RegistryOK, RegistrySound
    <3>2. Eased(q, t)
      BY <2>4, <3>1, GriefingEases
    <3>. QED BY <1>2, <2>4, <3>1, <3>2, ObligedBefore
  <2>5. CASE finish_issue(i, reopen_cancelled(issue, x), x)
    <3>1. ASSUME NEW q \in reopen_cancelled(issue, x)
          PROVE  RegistryOK(q) /\ Obliged(registry, q)
      <4>1. q \in try_increase_to_be_issued_tokens(registry, v, x)
        BY <2>2, <3>1 DEF reopen_cancelled
      <4>. QED BY <1>2, <2>3, <4>1, TryIncreaseToBeIssuedObliges, TryIncreaseToBeIssuedOK
    <3>. QED BY <1>4, <2>3, <2>5, <3>1
  <2>6. CASE x < expected /\ finish_issue(i, decrease_issue_amount(issue, x), x)
    <3>1. ASSUME NEW t \in decrease_issue_amount(issue, x)
          PROVE  RegistryOK(t) /\ Obliged(registry, t)
      <4>1. PICK d : d = issue.amount + issue.fee - x /\ d \in Nat
        <5>1. issue.amount \in Nat /\ issue.fee \in Nat
          BY DEF IssueRequest
        <5>2. issue.amount + issue.fee - x = expected - x
          BY <2>2, <2>3, <5>1
        <5>3. expected - x \in Nat
          BY <2>3, <2>6
        <5>. QED BY <5>2, <5>3
      <4>2. PICK q : q \in decrease_to_be_issued(registry, v, d) /\ t \in unlock_griefing(q, u, g)
        BY <2>2, <3>1, <4>1, Zenon DEF decrease_issue_amount
      <4>3. RegistryOK(q) /\ q \in Registry
        BY <1>2, <2>3, <4>1, <4>2, DecreaseToBeIssuedOK DEF RegistryOK, RegistrySound
      <4>4. Obliged(registry, q)
        BY <1>2, <2>3, <4>1, <4>2, <4>3, DecreaseToBeIssuedEases, EasedIsNoMore, NoMoreIsObliged
      <4>. QED BY <2>4, <4>2, <4>3, <4>4
    <3>. QED BY <1>4, <2>3, <2>6, <3>1
  <2>7. ASSUME x >= expected, NEW k \in surplus_issued(issue, x),
               finish_issue(i, increase_issue_amount(issue, k), expected + k)
        PROVE  Obliged(registry, s)
    <3>1. PICK y : y = issuable_tokens(registry.vault[v]) /\ y \in Nat
      BY <1>2, <2>3, VaultsTyped, IssuableNat DEF RegistryOK
    <3>2. k = 0 \/ k = min(x - (issue.amount + issue.fee), y)
      BY <2>2, <2>7, <3>1 DEF surplus_issued, Try
    <3>3. k \in Nat
      BY <2>2, <2>3, <2>7, <3>1, <3>2 DEF min
    <3>4. ASSUME NEW t \in increase_issue_amount(issue, k)
          PROVE  RegistryOK(t) /\ Obliged(registry, t)
      <4>1. PICK q : /\ q = registry \/ q \in try_increase_to_be_issued_tokens(registry, v, k)
                     /\ t \in unlock_griefing(q, u, g)
        BY <2>2, <3>4 DEF increase_issue_amount
      <4>2. RegistryOK(q) /\ Obliged(registry, q)
        <5>1. CASE q = registry
          BY <1>2, <5>1, EasedRefl, EasedIsNoMore, NoMoreIsObliged
        <5>2. CASE q \in try_increase_to_be_issued_tokens(registry, v, k)
          BY <1>2, <2>3, <3>3, <5>2, TryIncreaseToBeIssuedObliges, TryIncreaseToBeIssuedOK
        <5>. QED BY <4>1, <5>1, <5>2
      <4>. QED BY <2>4, <4>1, <4>2
    <3>. QED BY <1>4, <2>3, <2>7, <3>3, <3>4, expected + k \in Nat
  <2>. QED BY <1>5, <2>1, <2>2, <2>5, <2>6, <2>7 DEF execute_issue
<1>6. ASSUME NEW i \in IssueIds, NEW a \in Requesters, cancel_issue(a, i)
      PROVE  Obliged(registry, s)
  <2>1. PICK issue \in IssueRequest : issue = issueRequests[i]
    BY RequestChanged DEF BridgeInv, IssueTypeOK, IssueIds
  <2>2. PICK total, v, g, u : /\ total = issue.amount + issue.fee /\ v = issue.vault
                              /\ g = issue.griefing_collateral /\ u = issue.requester
    OBVIOUS
  <2>3. v \in Vaults /\ u \in Accounts /\ g \in Nat /\ total \in Nat
    BY <2>1, <2>2 DEF IssueRequest
  <2>4. PICK q : /\ q \in unlock_griefing(registry, u, g)
                 /\ s \in decrease_to_be_issued(q, v, total)
    BY <1>1, <1>6, <2>1, <2>2 DEF cancel_issue
  <2>5. RegistryOK(q) /\ q \in Registry /\ Eased(registry, q)
    BY <1>2, <2>3, <2>4, UnlockGriefingOK, GriefingEases DEF RegistryOK, RegistrySound
  <2>6. Eased(q, s)
    BY <2>3, <2>4, <2>5, DecreaseToBeIssuedEases
  <2>7. Eased(registry, s)
    BY <1>2, <2>5, <2>6, EasedChain
  <2>. QED BY <1>2, <2>7, EasedIsNoMore, NoMoreIsObliged
<1>7. CASE \E i \in IssueIds : issue_expires(i)
  <2>1. s = registry
    BY <1>1, <1>7 DEF issue_expires, registryVars
  <2>. QED BY <1>1, <1>2, <2>1, EasedRefl, EasedIsNoMore, NoMoreIsObliged
<1>. QED BY <1>1, <1>3, <1>5, <1>6, <1>7 DEF IssueNext

LEMMA RedeemObliges ==
    ASSUME BridgeInv, BridgeInv', RedeemNext
    PROVE  Obliged(registry, registry')
<1>1. PICK r : r = registry'
  OBVIOUS
<1>2. RegistryOK(registry) /\ ParamsOK /\ registry \in Registry /\ r \in Registry
  BY <1>1 DEF BridgeInv, RegistryInv, RegistryOK, RegistrySound
<1>3. ASSUME NoMore(registry, r) PROVE Obliged(registry, r)
  BY <1>2, <1>3, NoMoreIsObliged
<1>4. ASSUME NEW a \in Requesters, NEW v \in Vaults, NEW x \in TokenAmounts,
             NEW f \in InclusionFees, request_redeem(a, v, x, f)
      PROVE  Obliged(registry, r)
  <2>1. PICK fee, n : /\ fee = (IF a = v THEN 0 ELSE get_redeem_fee(x)) /\ n = x - fee
    OBVIOUS
  <2>2. n \in Nat
    <3>1. x \in Nat
      BY RegistryAssumption
    <3>2. fee \in Nat /\ fee <= x
      BY <2>1, <3>1, FeeBounded, FeeAssumption DEF get_redeem_fee
    <3>. QED BY <2>1, <3>1, <3>2
  <2>3. PICK s : /\ s \in try_increase_to_be_redeemed_tokens(registry, v, n)
                 /\ r \in release_replace_collateral(s, v, n)
    BY <1>1, <1>4, <2>1 DEF request_redeem
  <2>4. RegistryOK(s) /\ s \in Registry /\ Eased(registry, s)
    BY <1>2, <2>2, <2>3, TryIncreaseToBeRedeemedOK, OffersEase DEF RegistryOK, RegistrySound
  <2>5. Eased(s, r)
    BY <2>2, <2>3, <2>4, ReleaseReplaceCollateralEases
  <2>6. Eased(registry, r)
    BY <1>2, <2>4, <2>5, EasedChain
  <2>. QED BY <1>3, <2>6, EasedIsNoMore
<1>5. ASSUME NEW a \in Requesters, NEW x \in TokenAmounts, liquidation_redeem(a, x)
      PROVE  Obliged(registry, r)
  <2>1. r \in redeem_tokens_liquidation(registry, a, x) /\ x \in Nat
    BY <1>1, <1>5, RegistryAssumption DEF liquidation_redeem
  <2>. QED BY <1>2, <1>3, <2>1, RedeemLiquidationEases, EasedIsNoMore
<1>6. ASSUME NEW i \in RedeemIds, execute_redeem(i)
      PROVE  Obliged(registry, r)
  <2>1. PICK v \in Vaults, n \in Nat, premium \in Nat :
             /\ v = redeemRequests[i].vault /\ n = burn_amount(redeemRequests[i])
             /\ premium = redeemRequests[i].premium
    BY RedeemTyped
  <2>2. PICK q, fee : q \in distribute_rewards(registry, fee) /\ r \in redeem_tokens(q, v, n, premium)
    BY <1>1, <1>6, <2>1 DEF execute_redeem
  <2>3. RegistryOK(q) /\ q \in Registry /\ NoMore(registry, q)
    BY <1>2, <2>2, RewardsDistributed, RewardsEase
  <2>4. NoMore(registry, r)
    BY <1>2, <2>2, <2>3, RedeemTokensAddsNothing, NoMoreChain
  <2>. QED BY <1>3, <2>4
<1>7. ASSUME NEW i \in RedeemIds, NEW a \in Requesters, NEW b \in BOOLEAN,
             cancel_redeem(a, i, b)
      PROVE  Obliged(registry, r)
  <2>1. PICK v \in Vaults, n \in Nat :
             v = redeemRequests[i].vault /\ n = burn_amount(redeemRequests[i])
    BY RedeemTyped
  <2>2. PICK q, s, fee :
             /\ q \in slash_for_cancel(redeemRequests[i], b)
             /\ s = q \/ s \in distribute_rewards(q, fee)
             /\ IF b THEN reimburse_redeem(i, s) ELSE retry_redeem(i, s)
    BY <1>7 DEF cancel_redeem
  <2>3. RegistrySound(s) /\ s \in Registry /\ NoMore(registry, s)
    <3>1. RegistrySound(q) /\ q \in Registry /\ NoMore(registry, q)
      BY <2>2, SlashForCancel, SlashForCancelAddsNothing, VaultsTyped DEF Settling, RegistrySound
    <3>2. CASE s \in distribute_rewards(q, fee)
      <4>1. SameParts(q, s)
        BY <3>1, <3>2, RewardsDistributed
      <4>. QED BY <1>2, <3>1, <4>1, SamePartsOK, RewardsEase, NoMoreChain
    <3>. QED BY <2>2, <3>1, <3>2
  <2>4. r \in execute_redeem_tokens(s, v, n) \/ r \in decrease_to_be_redeemed(s, v, n)
    BY <1>1, <2>1, <2>2 DEF reimburse_redeem, retry_redeem
  <2>5. NoMore(s, r)
    BY <2>3, <2>4, ExecuteRedeemEases, DecreaseToBeRedeemedEases, EasedIsNoMore
  <2>6. NoMore(registry, r)
    BY <1>2, <2>3, <2>5, NoMoreChain
  <2>. QED BY <1>3, <2>6
<1>8. ASSUME NEW i \in RedeemIds, NEW v \in Vaults, mint_tokens_for_reimbursed_redeem(v, i)
      PROVE  Obliged(registry, r)
  <2>1. PICK n \in Nat : n = burn_amount(redeemRequests[i])
    BY RedeemTyped
  <2>2. PICK s : /\ s \in try_increase_to_be_issued_tokens(registry, v, n)
                 /\ r \in execute_issue_tokens(s, v, n)
    BY <1>1, <1>8, <2>1 DEF mint_tokens_for_reimbursed_redeem
  <2>3. RegistryOK(s) /\ s \in Registry /\ Obliged(registry, s)
    BY <1>2, <2>2, TryIncreaseToBeIssuedObliges, TryIncreaseToBeIssuedOK
       DEF RegistryOK, RegistrySound
  <2>4. Eased(s, r)
    BY <2>2, <2>3, ExecuteIssueEases
  <2>. QED BY <1>2, <2>3, <2>4, ObligedBefore
<1>9. ASSUME NEW v \in Vaults, NEW x \in TokenAmounts, self_redeem(v, x)
      PROVE  Obliged(registry, r)
  <2>1. PICK fee, n : /\ fee = (IF x = registry.vault[v].issued - registry.vault[v].to_be_redeemed
                                THEN 0 ELSE get_redeem_fee(x))
                      /\ n = x - fee
    OBVIOUS
  <2>2. n \in Nat
    <3>1. x \in Nat
      BY RegistryAssumption
    <3>2. fee \in Nat /\ fee <= x
      BY <2>1, <3>1, FeeBounded, FeeAssumption DEF get_redeem_fee
    <3>. QED BY <2>1, <3>1, <3>2
  <2>3. PICK d, s, t : /\ d \in distribute_rewards(registry, fee)
                       /\ s \in try_increase_to_be_redeemed_tokens(d, v, n)
                       /\ t \in redeem_tokens(s, v, n, 0)
                       /\ r \in release_replace_collateral(t, v, n)
    BY <1>1, <1>9, <2>1 DEF self_redeem
  <2>a. RegistryOK(d) /\ d \in Registry /\ NoMore(registry, d)
    BY <1>2, <2>3, RewardsDistributed, RewardsEase
  <2>4. RegistryOK(s) /\ s \in Registry /\ NoMore(registry, s)
    <3>1. RegistryOK(s) /\ s \in Registry /\ NoMore(d, s)
      BY <2>2, <2>3, <2>a, TryIncreaseToBeRedeemedOK, OffersEase, EasedIsNoMore
         DEF RegistryOK, RegistrySound
    <3>. QED BY <1>2, <2>a, <3>1, NoMoreChain
  <2>5. RegistryOK(t) /\ t \in Registry /\ NoMore(s, t)
    BY <1>2, <2>2, <2>3, <2>4, RedeemTokensOK, RedeemTokensAddsNothing, 0 \in Nat
       DEF RegistryOK, RegistrySound
  <2>6. NoMore(t, r)
    BY <2>2, <2>3, <2>5, ReleaseReplaceCollateralEases, EasedIsNoMore
  <2>7. NoMore(registry, t)
    BY <1>2, <2>4, <2>5, NoMoreChain
  <2>8. NoMore(registry, r)
    BY <1>2, <2>5, <2>6, <2>7, NoMoreChain
  <2>. QED BY <1>3, <2>8
<1>10. CASE \E i \in RedeemIds : redeem_expires(i)
  <2>1. r = registry
    BY <1>1, <1>10 DEF redeem_expires, registryVars
  <2>. QED BY <1>1, <1>2, <1>3, <2>1, EasedRefl, EasedIsNoMore
<1>. QED BY <1>1, <1>4, <1>5, <1>6, <1>7, <1>8, <1>9, <1>10 DEF RedeemNext

(* Tokens change hands only if the new vault can back them.                *)
LEMMA AcceptTokensObliges ==
    ASSUME ParamsOK, NEW r, RegistryOK(r), NEW old \in Vaults, NEW new \in Vaults, NEW n \in Nat,
           NEW s \in accept_replace_tokens(r, old, new, n)
    PROVE  Obliged(r, s)
<1>1. PICK q : /\ q \in try_increase_to_be_redeemed_tokens(r, old, n)
               /\ s \in try_increase_to_be_issued_tokens(q, new, n)
  BY DEF accept_replace_tokens
<1>2. RegistryOK(q) /\ NoMore(r, q)
  BY <1>1, TryIncreaseToBeRedeemedOK, OffersEase, EasedIsNoMore
<1>3. Obliged(q, s)
  BY <1>1, <1>2, TryIncreaseToBeIssuedObliges
<1>4. r \in Registry /\ q \in Registry /\ s \in Registry
  BY <1>2, AcceptTokensOK DEF RegistryOK, RegistrySound
<1>. QED BY <1>2, <1>3, <1>4, ObligedAfter

LEMMA AcceptReplaceObliges ==
    ASSUME BridgeInv, BridgeInv', NEW old \in Vaults, NEW new \in Vaults,
           NEW x \in TokenAmounts, NEW c \in CollateralAmounts, accept_replace(old, new, x, c)
    PROVE  Obliged(registry, registry')
<1>1. PICK r : r = registry'
  OBVIOUS
<1>2. /\ RegistryOK(registry) /\ ParamsOK /\ registry \in Registry /\ r \in Registry
      /\ x \in Nat /\ c \in Nat
  BY <1>1, RegistryAssumption DEF BridgeInv, RegistryInv, RegistryOK, RegistrySound
<1>3. PICK w : w = registry.vault[old] /\ w \in Vault
  BY <1>2, VaultsTyped DEF RegistryOK
<1>4. PICK n, g, d, p : /\ n = used_to_be_replaced(w, x)
                        /\ g = used_replace_collateral(w, x)
                        /\ d = calculate_collateral(c, n, x)
                        /\ p = decrease_to_be_replaced_tokens(registry, old, x)
  OBVIOUS
<1>5. n \in Nat /\ n <= x /\ g \in Nat
  <2>1. w.to_be_replaced \in Nat /\ w.replace_collateral \in Nat
    BY <1>3 DEF Vault
  <2>. QED BY <1>2, <1>3, <1>4, <2>1, UsedReplace
<1>6. d \in Nat
  BY <1>2, <1>4, <1>5, ShareBounded
<1>7. PICK q, s : /\ q \in try_deposit_collateral(p, new, d)
                  /\ s \in accept_replace_tokens(q, old, new, n)
                  /\ r \in transfer_funds(s, <<"AvailableReplaceCollateral", old>>,
                                          <<"ActiveReplaceCollateral", old>>, g)
  BY <1>1, <1>3, <1>4 DEF accept_replace
<1>8. RegistryOK(p) /\ p \in Registry /\ NoMore(registry, p)
  <2>1. RegistryOK(p)
    BY <1>2, <1>4, DecreaseToBeReplacedOK
  <2>2. Eased(registry, p)
    BY <1>2, <1>4, OffersEase
  <2>. QED BY <2>1, <2>2, EasedIsNoMore DEF RegistryOK, RegistrySound
<1>9. RegistryOK(q)
  <2>1. registry.vault[new].status # "none" /\ old # new
    BY DEF accept_replace, ensure_not_banned, is_active
  <2>2. p.vault[new] = registry.vault[new]
    BY <1>2, <1>4, <2>1 DEF decrease_to_be_replaced_tokens, set_vault, Registry
  <2>. QED BY <1>2, <1>6, <1>7, <1>8, <2>1, <2>2, TryDepositOK
<1>10. q \in Registry /\ NoMore(p, q)
  BY <1>2, <1>6, <1>7, <1>8, TryDepositEases, EasedIsNoMore
<1>11. RegistryOK(s) /\ s \in Registry /\ Obliged(q, s)
  BY <1>2, <1>5, <1>7, <1>9, AcceptTokensOK, AcceptTokensObliges DEF RegistryOK, RegistrySound
<1>12. Eased(s, r)
  <2>1. PICK t : /\ t \in release_funds(s, <<"AvailableReplaceCollateral", old>>, g)
                 /\ r \in claim_funds(t, <<"ActiveReplaceCollateral", old>>, g)
    BY <1>7, Transferred
  <2>2. t \in Registry /\ Eased(s, t)
    BY <1>5, <1>11, <2>1, ReleaseReplaceOK, ReplaceCollateralEases DEF RegistryOK, RegistrySound
  <2>3. Eased(t, r)
    BY <1>5, <2>1, <2>2, ReplaceCollateralEases
  <2>. QED BY <1>2, <1>11, <2>2, <2>3, EasedChain
<1>13. NoMore(registry, q)
  BY <1>2, <1>8, <1>10, NoMoreChain
<1>14. Obliged(registry, s)
  BY <1>2, <1>10, <1>11, <1>13, ObligedAfter
<1>. QED BY <1>1, <1>2, <1>11, <1>12, <1>14, ObligedBefore

LEMMA ReplaceObliges ==
    ASSUME BridgeInv, BridgeInv', ReplaceNext
    PROVE  Obliged(registry, registry')
<1>1. PICK r : r = registry'
  OBVIOUS
<1>2. RegistryOK(registry) /\ ParamsOK /\ registry \in Registry /\ r \in Registry
  BY <1>1 DEF BridgeInv, RegistryInv, RegistryOK, RegistrySound
<1>3. ASSUME NoMore(registry, r) PROVE Obliged(registry, r)
  BY <1>2, <1>3, NoMoreIsObliged
<1>4. ASSUME NEW v \in Vaults, NEW x \in TokenAmounts, request_replace(v, x)
      PROVE  Obliged(registry, r)
  <2>1. PICK w : w = registry.vault[v] /\ w \in Vault
    BY <1>2, VaultsTyped DEF RegistryOK
  <2>2. PICK n, g : /\ n = min(x, w.issued - w.to_be_replaced - w.to_be_redeemed)
                    /\ g = get_replace_griefing_collateral(n)
    OBVIOUS
  <2>3. n \in Nat
    <3>1. w.to_be_replaced + w.to_be_redeemed <= w.issued
      BY <1>4, <2>1 DEF request_replace
    <3>2. /\ w.issued \in Nat /\ w.to_be_replaced \in Nat /\ w.to_be_redeemed \in Nat
          /\ x \in Nat
      BY <2>1, RegistryAssumption DEF Vault
    <3>. QED BY <2>2, <3>1, <3>2 DEF min
  <2>4. g \in Nat
    BY <2>2, <2>3, FeeAssumption, MulNat DEF get_replace_griefing_collateral
  <2>5. PICK s : /\ s \in try_increase_to_be_replaced_tokens(registry, v, n)
                 /\ r \in transfer_funds(s, <<"FreeBalance", v>>,
                                         <<"AvailableReplaceCollateral", v>>, g)
    BY <1>1, <1>4, <2>1, <2>2 DEF request_replace
  <2>6. s \in Registry /\ Eased(registry, s)
    BY <1>2, <2>3, <2>5, TryIncreaseToBeReplacedOK, OffersEase DEF RegistryOK, RegistrySound
  <2>7. Eased(s, r)
    <3>1. PICK q : /\ q \in release_funds(s, <<"FreeBalance", v>>, g)
                   /\ r \in claim_funds(q, <<"AvailableReplaceCollateral", v>>, g)
      BY <2>5, Transferred
    <3>2. q = s
      BY <3>1 DEF release_funds
    <3>. QED BY <2>4, <2>6, <3>1, <3>2, ReplaceCollateralEases
  <2>8. Eased(registry, r)
    BY <1>2, <2>6, <2>7, EasedChain
  <2>. QED BY <1>3, <2>8, EasedIsNoMore
<1>5. ASSUME NEW v \in Vaults, NEW x \in TokenAmounts, withdraw_replace(v, x)
      PROVE  Obliged(registry, r)
  <2>1. r \in withdraw_replace_request(registry, v, x) /\ x \in Nat
    BY <1>1, <1>5, RegistryAssumption DEF withdraw_replace
  <2>. QED BY <1>2, <1>3, <2>1, WithdrawReplaceEases, EasedIsNoMore
<1>6. ASSUME NEW i \in ReplaceIds, execute_replace(i)
      PROVE  Obliged(registry, r)
  <2>1. PICK old \in Vaults, new \in Vaults, n \in Nat, g \in Nat :
             /\ old = replaceRequests[i].old_vault /\ new = replaceRequests[i].new_vault
             /\ n = replaceRequests[i].amount /\ g = replaceRequests[i].griefing_collateral
    BY ReplaceTyped
  <2>2. PICK s : /\ \/ s \in transfer_funds(registry, <<"ActiveReplaceCollateral", old>>,
                                            <<"FreeBalance", old>>, g)
                    \/ s \in accept_replace_tokens(registry, old, new, n)
                 /\ r \in replace_tokens(s, old, new, n)
    BY <1>1, <1>6, <2>1 DEF execute_replace
  <2>3. RegistryOK(s) /\ Obliged(registry, s)
    <3>1. CASE s \in transfer_funds(registry, <<"ActiveReplaceCollateral", old>>,
                                    <<"FreeBalance", old>>, g)
      <4>1. s \in release_funds(registry, <<"ActiveReplaceCollateral", old>>, g)
        BY <3>1, ToFreeBalance
      <4>2. RegistryOK(s) /\ s \in Registry /\ Eased(registry, s)
        <5>1. RegistryOK(s)
          BY <1>2, <4>1, ReleaseReplaceOK
        <5>2. Eased(registry, s)
          BY <1>2, <4>1, ReplaceCollateralEases
        <5>. QED BY <5>1, <5>2 DEF RegistryOK, RegistrySound
      <4>. QED BY <1>2, <4>2, EasedIsNoMore, NoMoreIsObliged
    <3>2. CASE s \in accept_replace_tokens(registry, old, new, n)
      BY <1>2, <3>2, AcceptTokensOK, AcceptTokensObliges
    <3>. QED BY <2>2, <3>1, <3>2
  <2>4. Eased(s, r) /\ s \in Registry
    BY <1>2, <2>2, <2>3, ReplaceTokensEases DEF RegistryOK, RegistrySound
  <2>. QED BY <1>2, <2>3, <2>4, ObligedBefore
<1>7. ASSUME NEW i \in ReplaceIds, cancel_replace(i)
      PROVE  Obliged(registry, r)
  <2>1. PICK old \in Vaults, new \in Vaults, n \in Nat, g \in Nat, c \in Nat :
             /\ old = replaceRequests[i].old_vault /\ new = replaceRequests[i].new_vault
             /\ n = replaceRequests[i].amount /\ g = replaceRequests[i].griefing_collateral
             /\ c = replaceRequests[i].collateral
    BY ReplaceTyped
  <2>2. PICK s, t : /\ s \in cancel_replace_tokens(registry, old, new, n)
                    /\ t \in transfer_funds(s, <<"ActiveReplaceCollateral", old>>,
                                            <<"FreeBalance", new>>, g)
                    /\ r \in release_new_vault_collateral(t, new, c)
    BY <1>1, <1>7, <2>1 DEF cancel_replace
  <2>3. RegistryOK(s) /\ s \in Registry /\ NoMore(registry, s)
    BY <1>2, <2>2, CancelReplaceTokensOK, CancelReplaceTokensEases, EasedIsNoMore
       DEF RegistryOK, RegistrySound
  <2>4. t \in release_funds(s, <<"ActiveReplaceCollateral", old>>, g)
    BY <2>2, ToFreeBalance
  <2>5. t \in Registry /\ NoMore(s, t)
    BY <2>3, <2>4, ReleaseReplaceOK, ReplaceCollateralEases, EasedIsNoMore
       DEF RegistryOK, RegistrySound
  <2>6. NoMore(t, r)
    <3>1. r = t \/ r \in force_withdraw_collateral(t, new, c)
      BY <2>2 DEF release_new_vault_collateral
    <3>. QED BY <1>2, <2>5, <3>1, ForceWithdrawAddsNothing, EasedRefl, EasedIsNoMore
  <2>7. NoMore(registry, t)
    BY <1>2, <2>3, <2>5, NoMoreChain
  <2>8. NoMore(registry, r)
    BY <1>2, <2>5, <2>6, <2>7, NoMoreChain
  <2>. QED BY <1>3, <2>8
<1>8. CASE \E i \in ReplaceIds : replace_expires(i)
  <2>1. r = registry
    BY <1>1, <1>8 DEF replace_expires, registryVars
  <2>. QED BY <1>1, <1>2, <1>3, <2>1, EasedRefl, EasedIsNoMore
<1>. QED BY <1>1, <1>4, <1>5, <1>6, <1>7, <1>8, AcceptReplaceObliges DEF ReplaceNext

(* A step of the bridge that makes a vault back more tokens, be it a       *)
(* request, a late or too large payment, an accepted replace or a mint     *)
(* after reimbursement (try_increase_to_be_issued_tokens is the only way), *)
(* leaves the vault with the collateral that its secure threshold asks     *)
(* for, up to the threshold's multiple of one unit of collateral.          *)
THEOREM NewObligationsBacked == Spec => ObligationsCollateralised
<1>1. BridgeInv /\ BridgeInv' /\ [Next]_vars =>
         [\A v \in Vaults :
             backed_tokens(registry'.vault[v]) > backed_tokens(registry.vault[v])
                 => AtSecureThreshold(registry'.vault[v])]_vars
  <2>1. SUFFICES ASSUME BridgeInv, BridgeInv', Next
                 PROVE  \A v \in Vaults :
                           backed_tokens(registry'.vault[v]) > backed_tokens(registry.vault[v])
                               => AtSecureThreshold(registry'.vault[v])
    OBVIOUS
  <2>2. Obliged(registry, registry')
    BY <2>1, RegistryObliges, IssueObliges, RedeemObliges, ReplaceObliges DEF Next
  <2>. QED BY <2>2 DEF Obliged
<1>. QED BY <1>1, BridgeInvariant, PTL DEF Spec, ObligationsCollateralised
=============================================================================
