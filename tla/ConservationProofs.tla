------------------------- MODULE ConservationProofs -------------------------
(***************************************************************************)
(* Conservation in the bridge.  First what every operation of the vault    *)
(* registry does to the sums the bridge is accountable for: the tokens     *)
(* issued, to be issued and to be redeemed, the griefing collateral, and   *)
(* the two totals the registry keeps besides (the recorded collateral, and *)
(* the copy of the to-be-redeemed tokens of liquidated vaults); and what a *)
(* request that is opened, closed or settled in part does to the sums over *)
(* the requests.  Then the inductive step of the conservation theorems,    *)
(* one lemma per extrinsic, and the theorems.  Last what the bridge does   *)
(* to the life of a request: every step starts one request, moves one on,  *)
(* or touches none, and mints or burns what that request stands for; so    *)
(* the bridge mints once for a payment and implements Custody.             *)
(***************************************************************************)
EXTENDS BridgeProofs

-----------------------------------------------------------------------------
(* The books of a registry                                                 *)

Redeeming(r) == Field(r.vault, "to_be_redeemed")

(* Griefing collateral of accepted replace requests, and what an account   *)
(* has locked for anything but replace.                                    *)
AcceptedGriefing(r) == Field(r.vault, "active_replace_collateral")
RequestGriefing(r) ==
    [a \in Accounts |-> r.griefing[a] -
        IF a \in Vaults
        THEN r.vault[a].replace_collateral + r.vault[a].active_replace_collateral
        ELSE 0]

(* How far the recorded total and the liquidation vault's copy are off.    *)
CollateralExcess(r) == r.total - held_collateral(r)
CopyExcess(r) ==
    r.lv.to_be_redeemed - Total(Redeeming(r), {v \in Vaults : is_liquidated(r.vault[v])})

SameTokens(r, s) ==
    /\ issued_tokens(s) = issued_tokens(r)
    /\ to_be_issued_tokens(s) = to_be_issued_tokens(r)
    /\ Redeeming(s) = Redeeming(r)

SameGriefing(r, s) ==
    /\ RequestGriefing(s) = RequestGriefing(r)
    /\ AcceptedGriefing(s) = AcceptedGriefing(r)

SameExcess(r, s) ==
    /\ CollateralExcess(s) = CollateralExcess(r)
    /\ CopyExcess(s) = CopyExcess(r)

SameBooks(r, s) == SameTokens(r, s) /\ SameGriefing(r, s) /\ SameExcess(r, s)

(* The books do not depend on the capacity.                                *)
LEMMA SamePartsBooks ==
    ASSUME NEW r, NEW q, SameParts(r, q)
    PROVE  SameBooks(r, q)
<1>1. q.vault = r.vault /\ q.lv = r.lv /\ q.total = r.total /\ q.griefing = r.griefing
  BY DEF SameParts
<1>2. SameTokens(r, q) /\ AcceptedGriefing(q) = AcceptedGriefing(r)
  BY <1>1 DEF SameTokens, Redeeming, AcceptedGriefing, issued_tokens, to_be_issued_tokens
<1>3. RequestGriefing(q) = RequestGriefing(r)
  BY <1>1 DEF RequestGriefing
<1>4. CollateralExcess(q) = CollateralExcess(r)
  BY <1>1 DEF CollateralExcess, held_collateral
<1>5. CopyExcess(q) = CopyExcess(r)
  BY <1>1 DEF CopyExcess, Redeeming
<1>. QED BY <1>2, <1>3, <1>4, <1>5 DEF SameBooks, SameGriefing, SameExcess

LEMMA RegistryParts ==
    ASSUME NEW r \in Registry
    PROVE  /\ r.vault \in [Vaults -> Vault] /\ r.lv \in SystemVault
           /\ r.total \in Nat /\ r.griefing \in [Accounts -> Nat]
BY DEF Registry

LEMMA FieldsNat ==
    ASSUME NEW r \in Registry
    PROVE  /\ Field(r.vault, "issued") \in [Vaults -> Nat]
           /\ Field(r.vault, "to_be_issued") \in [Vaults -> Nat]
           /\ Redeeming(r) \in [Vaults -> Nat]
           /\ AcceptedGriefing(r) \in [Vaults -> Nat]
           /\ [v \in Vaults |-> r.vault[v].stake + r.vault[v].liquidated_collateral]
                 \in [Vaults -> Nat]
<1>1. r.vault \in [Vaults -> Vault]
  BY RegistryParts
<1>. QED BY <1>1 DEF Field, Redeeming, AcceptedGriefing, Vault

(* Each book is a number, or a function to numbers.                        *)
LEMMA BooksTyped ==
    ASSUME NEW r \in Registry
    PROVE  /\ issued_tokens(r) \in Nat /\ to_be_issued_tokens(r) \in Nat
           /\ Redeeming(r) \in [Vaults -> Nat]
           /\ held_collateral(r) \in Nat
           /\ CollateralExcess(r) \in Int /\ CopyExcess(r) \in Int
           /\ RequestGriefing(r) \in [Accounts -> Int]
           /\ AcceptedGriefing(r) \in [Vaults -> Nat]
<1>0. /\ r.vault \in [Vaults -> Vault] /\ r.lv \in SystemVault
      /\ r.total \in Nat /\ r.griefing \in [Accounts -> Nat]
  BY RegistryParts
<1>1. /\ r.lv.issued \in Nat /\ r.lv.to_be_issued \in Nat
      /\ r.lv.to_be_redeemed \in Nat /\ r.lv.collateral \in Nat
  BY <1>0 DEF SystemVault
<1>. DEFINE c == [v \in Vaults |-> r.vault[v].stake + r.vault[v].liquidated_collateral]
            L == {v \in Vaults : is_liquidated(r.vault[v])}
<1>2. IsFiniteSet(L)
  BY AccountsAssumption, FS_Subset
<1>3. /\ Total(Field(r.vault, "issued"), Vaults) \in Nat
      /\ Total(Field(r.vault, "to_be_issued"), Vaults) \in Nat
      /\ Total(c, Vaults) \in Nat /\ Total(Redeeming(r), L) \in Nat
  BY <1>2, FieldsNat, AccountsAssumption, TotalNat
<1>4. RequestGriefing(r) \in [Accounts -> Int]
  <2>1. ASSUME NEW a \in Vaults
        PROVE  r.vault[a].replace_collateral + r.vault[a].active_replace_collateral \in Nat
    BY <1>0 DEF Vault
  <2>. QED BY <1>0, <2>1 DEF RequestGriefing
<1>. HIDE DEF c, L
<1>5. issued_tokens(r) \in Nat /\ to_be_issued_tokens(r) \in Nat
  BY <1>1, <1>3 DEF issued_tokens, to_be_issued_tokens
<1>6. held_collateral(r) \in Nat
  BY <1>1, <1>3 DEF held_collateral, c
<1>7. CopyExcess(r) \in Int
  BY <1>1, <1>3 DEF CopyExcess, L
<1>. QED BY <1>0, <1>4, <1>5, <1>6, <1>7, FieldsNat DEF CollateralExcess

-----------------------------------------------------------------------------
(* One vault changes, or none                                              *)

LEMMA TokensOfVault ==
    ASSUME NEW r \in Registry, NEW s \in Registry, NEW v \in Vaults, NEW w \in Vault,
           s.vault = [r.vault EXCEPT ![v] = w]
    PROVE  /\ issued_tokens(s) = issued_tokens(r) + (w.issued - r.vault[v].issued)
                                     + (s.lv.issued - r.lv.issued)
           /\ to_be_issued_tokens(s) = to_be_issued_tokens(r)
                                     + (w.to_be_issued - r.vault[v].to_be_issued)
                                     + (s.lv.to_be_issued - r.lv.to_be_issued)
           /\ Redeeming(s) = [Redeeming(r) EXCEPT ![v] = w.to_be_redeemed]
           /\ AcceptedGriefing(s) = [AcceptedGriefing(r) EXCEPT ![v] = w.active_replace_collateral]
<1>0. r.vault \in [Vaults -> Vault] /\ s.vault = [r.vault EXCEPT ![v] = w]
  BY RegistryParts
<1>1. /\ w.issued \in Nat /\ w.to_be_issued \in Nat /\ w.to_be_redeemed \in Nat
      /\ w.active_replace_collateral \in Nat
  BY DEF Vault
<1>2. r.vault[v] \in Vault /\ r.lv \in SystemVault /\ s.lv \in SystemVault
  BY RegistryParts
<1>3. /\ r.vault[v].issued \in Nat /\ r.vault[v].to_be_issued \in Nat
      /\ r.lv.issued \in Nat /\ s.lv.issued \in Nat
      /\ r.lv.to_be_issued \in Nat /\ s.lv.to_be_issued \in Nat
  BY <1>2 DEF Vault, SystemVault
<1>4. /\ Total(Field(r.vault, "issued"), Vaults) \in Nat
      /\ Total(Field(r.vault, "to_be_issued"), Vaults) \in Nat
  BY FieldsNat, AccountsAssumption, TotalNat
<1>5. Total(Field(s.vault, "issued"), Vaults)
         = Total(Field(r.vault, "issued"), Vaults) - r.vault[v].issued + w.issued
  <2>. DEFINE f == Field(r.vault, "issued")
              g == Field(s.vault, "issued")
  <2>1. f[v] = r.vault[v].issued /\ g[v] = w.issued
    BY <1>0 DEF Field
  <2>2. g[v] \in Nat /\ \A u \in Vaults : f[u] \in Nat /\ (u # v => g[u] = f[u])
    BY <1>0 DEF Field, Vault
  <2>. HIDE DEF f, g
  <2>3. Total(g, Vaults) = Total(f, Vaults) - f[v] + g[v]
    BY <2>2, AccountsAssumption, TotalChange
  <2>. QED BY <2>1, <2>3 DEF f, g
<1>6. Total(Field(s.vault, "to_be_issued"), Vaults)
         = Total(Field(r.vault, "to_be_issued"), Vaults) - r.vault[v].to_be_issued
              + w.to_be_issued
  <2>. DEFINE f == Field(r.vault, "to_be_issued")
              g == Field(s.vault, "to_be_issued")
  <2>1. f[v] = r.vault[v].to_be_issued /\ g[v] = w.to_be_issued
    BY <1>0 DEF Field
  <2>2. g[v] \in Nat /\ \A u \in Vaults : f[u] \in Nat /\ (u # v => g[u] = f[u])
    BY <1>0 DEF Field, Vault
  <2>. HIDE DEF f, g
  <2>3. Total(g, Vaults) = Total(f, Vaults) - f[v] + g[v]
    BY <2>2, AccountsAssumption, TotalChange
  <2>. QED BY <2>1, <2>3 DEF f, g
<1>7. Redeeming(s) = [Redeeming(r) EXCEPT ![v] = w.to_be_redeemed]
  BY <1>0 DEF Redeeming, Field
<1>8. AcceptedGriefing(s) = [AcceptedGriefing(r) EXCEPT ![v] = w.active_replace_collateral]
  BY <1>0 DEF AcceptedGriefing, Field
<1>9. issued_tokens(s) = issued_tokens(r) + (w.issued - r.vault[v].issued)
                                     + (s.lv.issued - r.lv.issued)
  BY <1>1, <1>3, <1>4, <1>5 DEF issued_tokens
<1>10. to_be_issued_tokens(s) = to_be_issued_tokens(r)
                                     + (w.to_be_issued - r.vault[v].to_be_issued)
                                     + (s.lv.to_be_issued - r.lv.to_be_issued)
  BY <1>1, <1>3, <1>4, <1>6 DEF to_be_issued_tokens
<1>. QED BY <1>7, <1>8, <1>9, <1>10

(* The collateral that is counted for a vault, and the to-be-redeemed      *)
(* tokens that the liquidation vault has a copy of.                        *)
Backing(w) == w.stake + w.liquidated_collateral
Copied(w) == IF is_liquidated(w) THEN w.to_be_redeemed ELSE 0

LEMMA CopiedTotal ==
    ASSUME NEW r \in Registry
    PROVE  CopyExcess(r) = r.lv.to_be_redeemed
                              - Total([v \in Vaults |-> Copied(r.vault[v])], Vaults)
<1>. DEFINE L == {v \in Vaults : is_liquidated(r.vault[v])}
            g == [v \in Vaults |-> Copied(r.vault[v])]
<1>1. \A v \in Vaults : g[v] = IF v \in L THEN Redeeming(r)[v] ELSE 0
  BY RegistryParts DEF Copied, Redeeming, Field
<1>2. L \in SUBSET Vaults
  OBVIOUS
<1>. HIDE DEF L, g
<1>3. Total(Redeeming(r), L) = Total(g, Vaults)
  BY <1>1, <1>2, TotalPart
<1>. QED BY <1>3 DEF CopyExcess, L, g

LEMMA ExcessOfVault ==
    ASSUME NEW r \in Registry, NEW s \in Registry, NEW v \in Vaults, NEW w \in Vault,
           s.vault = [r.vault EXCEPT ![v] = w]
    PROVE  /\ CollateralExcess(s) = CollateralExcess(r) + (s.total - r.total)
                                     - (Backing(w) - Backing(r.vault[v]))
                                     - (s.lv.collateral - r.lv.collateral)
           /\ CopyExcess(s) = CopyExcess(r) + (s.lv.to_be_redeemed - r.lv.to_be_redeemed)
                                     - (Copied(w) - Copied(r.vault[v]))
<1>1. /\ r.vault \in [Vaults -> Vault] /\ s.vault \in [Vaults -> Vault]
      /\ r.lv \in SystemVault /\ s.lv \in SystemVault /\ r.total \in Nat /\ s.total \in Nat
  BY RegistryParts
<1>2. /\ r.lv.collateral \in Nat /\ s.lv.collateral \in Nat
      /\ r.lv.to_be_redeemed \in Nat /\ s.lv.to_be_redeemed \in Nat
  BY <1>1 DEF SystemVault
<1>3. \A x \in Vault : Backing(x) \in Nat /\ Copied(x) \in Nat
  BY DEF Vault, Backing, Copied
<1>. DEFINE f(q) == [u \in Vaults |-> Backing(q.vault[u])]
            g(q) == [u \in Vaults |-> Copied(q.vault[u])]
<1>4. \A u \in Vaults : f(r)[u] \in Nat /\ f(s)[u] \in Nat /\ g(r)[u] \in Nat /\ g(s)[u] \in Nat
  BY <1>1, <1>3
<1>5. \A u \in Vaults : u # v => f(s)[u] = f(r)[u] /\ g(s)[u] = g(r)[u]
  BY <1>1
<1>6. /\ f(r)[v] = Backing(r.vault[v]) /\ f(s)[v] = Backing(w)
      /\ g(r)[v] = Copied(r.vault[v]) /\ g(s)[v] = Copied(w)
  BY <1>1
<1>7. Total(f(r), Vaults) \in Nat /\ Total(g(r), Vaults) \in Nat
  BY <1>4, AccountsAssumption, TotalNat
<1>8. /\ held_collateral(r) = Total(f(r), Vaults) + r.lv.collateral
      /\ held_collateral(s) = Total(f(s), Vaults) + s.lv.collateral
  BY DEF held_collateral, Backing
<1>9. /\ CopyExcess(r) = r.lv.to_be_redeemed - Total(g(r), Vaults)
      /\ CopyExcess(s) = s.lv.to_be_redeemed - Total(g(s), Vaults)
  BY CopiedTotal
<1>. HIDE DEF f, g
<1>10. Total(f(s), Vaults) = Total(f(r), Vaults) - f(r)[v] + f(s)[v]
  BY <1>4, <1>5, AccountsAssumption, TotalChange
<1>11. Total(g(s), Vaults) = Total(g(r), Vaults) - g(r)[v] + g(s)[v]
  BY <1>4, <1>5, AccountsAssumption, TotalChange
<1>12. /\ Backing(w) \in Nat /\ Backing(r.vault[v]) \in Nat
       /\ Copied(w) \in Nat /\ Copied(r.vault[v]) \in Nat
  BY <1>1, <1>3
<1>13. CopyExcess(s) = CopyExcess(r) + (s.lv.to_be_redeemed - r.lv.to_be_redeemed)
                                     - (Copied(w) - Copied(r.vault[v]))
  BY <1>2, <1>6, <1>7, <1>9, <1>11, <1>12
<1>14. CollateralExcess(s) = CollateralExcess(r) + (s.total - r.total)
                                     - (Backing(w) - Backing(r.vault[v]))
                                     - (s.lv.collateral - r.lv.collateral)
  BY <1>1, <1>2, <1>6, <1>7, <1>8, <1>10, <1>12 DEF CollateralExcess
<1>. QED BY <1>13, <1>14

(* The griefing collateral that is locked for replace.                     *)
Offered(w) == w.replace_collateral + w.active_replace_collateral

LEMMA GriefingOfVault ==
    ASSUME NEW r \in Registry, NEW s \in Registry, NEW v \in Vaults, NEW w \in Vault,
           s.vault = [r.vault EXCEPT ![v] = w],
           \A a \in Accounts : a # v => s.griefing[a] = r.griefing[a],
           s.griefing[v] - r.griefing[v] = Offered(w) - Offered(r.vault[v])
    PROVE  RequestGriefing(s) = RequestGriefing(r)
<1>1. /\ r.vault \in [Vaults -> Vault] /\ s.vault \in [Vaults -> Vault]
      /\ r.griefing \in [Accounts -> Nat] /\ s.griefing \in [Accounts -> Nat]
      /\ v \in Accounts
  BY RegistryParts DEF Accounts
<1>2. /\ RequestGriefing(r) = [a \in Accounts |-> r.griefing[a] -
                                  IF a \in Vaults THEN Offered(r.vault[a]) ELSE 0]
      /\ RequestGriefing(s) = [a \in Accounts |-> s.griefing[a] -
                                  IF a \in Vaults THEN Offered(s.vault[a]) ELSE 0]
  BY DEF RequestGriefing, Offered
<1>3. Offered(w) \in Nat /\ Offered(r.vault[v]) \in Nat
  BY <1>1 DEF Vault, Offered
<1>4. s.griefing[v] - Offered(s.vault[v]) = r.griefing[v] - Offered(r.vault[v])
  BY <1>1, <1>3
<1>. QED BY <1>1, <1>2, <1>4

(***************************************************************************)
(* A vault that keeps the tokens it is to redeem or hands them to nobody,  *)
(* with the liquidation vault, the total and the griefing balances as they *)
(* were: what is left of the three lemmas above.                           *)
(***************************************************************************)
LEMMA CountersOfVault ==
    ASSUME NEW r \in Registry, NEW v \in Vaults, NEW w \in Vault,
           Backing(w) = Backing(r.vault[v]), Copied(w) = Copied(r.vault[v]),
           w.replace_collateral = r.vault[v].replace_collateral,
           w.active_replace_collateral = r.vault[v].active_replace_collateral
    PROVE  /\ issued_tokens(set_vault(r, v, w))
                 = issued_tokens(r) + (w.issued - r.vault[v].issued)
           /\ to_be_issued_tokens(set_vault(r, v, w))
                 = to_be_issued_tokens(r) + (w.to_be_issued - r.vault[v].to_be_issued)
           /\ Redeeming(set_vault(r, v, w)) = [Redeeming(r) EXCEPT ![v] = w.to_be_redeemed]
           /\ SameGriefing(r, set_vault(r, v, w))
           /\ SameExcess(r, set_vault(r, v, w))
<1>1. PICK s : s = set_vault(r, v, w)
  OBVIOUS
<1>2. /\ s \in Registry /\ s.vault = [r.vault EXCEPT ![v] = w]
      /\ s.lv = r.lv /\ s.total = r.total /\ s.griefing = r.griefing
  BY <1>1, SetVaultType
<1>3. /\ r.vault[v] \in Vault /\ r.lv \in SystemVault /\ r.total \in Nat
      /\ r.griefing \in [Accounts -> Nat] /\ v \in Accounts
  BY RegistryParts DEF Accounts
<1>4. /\ w.issued \in Nat /\ w.to_be_issued \in Nat
      /\ r.vault[v].issued \in Nat /\ r.vault[v].to_be_issued \in Nat
      /\ r.lv.issued \in Nat /\ r.lv.to_be_issued \in Nat
      /\ r.lv.collateral \in Nat /\ r.lv.to_be_redeemed \in Nat
      /\ Backing(w) \in Nat /\ Copied(w) \in Nat
      /\ Offered(w) = Offered(r.vault[v]) /\ Offered(w) \in Nat
  BY <1>3 DEF Vault, SystemVault, Backing, Copied, Offered
<1>5. /\ issued_tokens(r) \in Nat /\ to_be_issued_tokens(r) \in Nat
      /\ CollateralExcess(r) \in Int /\ CopyExcess(r) \in Int
  BY BooksTyped
<1>6. /\ issued_tokens(s) = issued_tokens(r) + (w.issued - r.vault[v].issued)
      /\ to_be_issued_tokens(s) = to_be_issued_tokens(r)
                                     + (w.to_be_issued - r.vault[v].to_be_issued)
  <2>1. /\ issued_tokens(s) = issued_tokens(r) + (w.issued - r.vault[v].issued)
                                     + (s.lv.issued - r.lv.issued)
        /\ to_be_issued_tokens(s) = to_be_issued_tokens(r)
                                     + (w.to_be_issued - r.vault[v].to_be_issued)
                                     + (s.lv.to_be_issued - r.lv.to_be_issued)
    BY <1>2, TokensOfVault
  <2>. QED BY <1>2, <1>4, <1>5, <2>1
<1>7. Redeeming(s) = [Redeeming(r) EXCEPT ![v] = w.to_be_redeemed]
  BY <1>2, TokensOfVault
<1>8. SameExcess(r, s)
  <2>1. /\ CollateralExcess(s) = CollateralExcess(r) + (s.total - r.total)
                                     - (Backing(w) - Backing(r.vault[v]))
                                     - (s.lv.collateral - r.lv.collateral)
        /\ CopyExcess(s) = CopyExcess(r) + (s.lv.to_be_redeemed - r.lv.to_be_redeemed)
                                     - (Copied(w) - Copied(r.vault[v]))
    BY <1>2, ExcessOfVault
  <2>. QED BY <1>2, <1>3, <1>4, <1>5, <2>1 DEF SameExcess
<1>9. SameGriefing(r, s)
  <2>1. RequestGriefing(s) = RequestGriefing(r)
    BY <1>2, <1>3, <1>4, GriefingOfVault
  <2>2. AcceptedGriefing(s)
           = [AcceptedGriefing(r) EXCEPT ![v] = r.vault[v].active_replace_collateral]
    BY <1>2, TokensOfVault
  <2>3. AcceptedGriefing(r)[v] = r.vault[v].active_replace_collateral
        /\ AcceptedGriefing(r) \in [Vaults -> Nat]
    BY RegistryParts, FieldsNat DEF AcceptedGriefing, Field
  <2>. QED BY <2>1, <2>2, <2>3 DEF SameGriefing
<1>. QED BY <1>1, <1>6, <1>7, <1>8, <1>9

LEMMA RedeemingOf ==
    ASSUME NEW r \in Registry, NEW v \in Vaults
    PROVE  /\ Redeeming(r)[v] = r.vault[v].to_be_redeemed
           /\ Redeeming(r) = [Redeeming(r) EXCEPT ![v] = r.vault[v].to_be_redeemed]
           /\ AcceptedGriefing(r)[v] = r.vault[v].active_replace_collateral
           /\ AcceptedGriefing(r)
                 = [AcceptedGriefing(r) EXCEPT ![v] = r.vault[v].active_replace_collateral]
<1>1. Redeeming(r)[v] = r.vault[v].to_be_redeemed /\ Redeeming(r) \in [Vaults -> Nat]
  BY RegistryParts, FieldsNat DEF Redeeming, Field
<1>2. /\ AcceptedGriefing(r)[v] = r.vault[v].active_replace_collateral
      /\ AcceptedGriefing(r) \in [Vaults -> Nat]
  BY RegistryParts, FieldsNat DEF AcceptedGriefing, Field
<1>. QED BY <1>1, <1>2

(* The liquidation vault alone changes, or the total or the griefing       *)
(* balances do.                                                            *)
LEMMA BooksOfSystem ==
    ASSUME NEW r \in Registry, NEW s \in Registry, s.vault = r.vault
    PROVE  /\ issued_tokens(s) = issued_tokens(r) + (s.lv.issued - r.lv.issued)
           /\ to_be_issued_tokens(s) = to_be_issued_tokens(r)
                                     + (s.lv.to_be_issued - r.lv.to_be_issued)
           /\ Redeeming(s) = Redeeming(r)
           /\ AcceptedGriefing(s) = AcceptedGriefing(r)
           /\ s.griefing = r.griefing => RequestGriefing(s) = RequestGriefing(r)
           /\ CollateralExcess(s) = CollateralExcess(r) + (s.total - r.total)
                                     - (s.lv.collateral - r.lv.collateral)
           /\ CopyExcess(s) = CopyExcess(r) + (s.lv.to_be_redeemed - r.lv.to_be_redeemed)
<1>1. r.lv \in SystemVault /\ s.lv \in SystemVault /\ r.total \in Nat /\ s.total \in Nat
  BY RegistryParts
<1>2. /\ r.lv.issued \in Nat /\ s.lv.issued \in Nat
      /\ r.lv.to_be_issued \in Nat /\ s.lv.to_be_issued \in Nat
      /\ r.lv.to_be_redeemed \in Nat /\ s.lv.to_be_redeemed \in Nat
      /\ r.lv.collateral \in Nat /\ s.lv.collateral \in Nat
  BY <1>1 DEF SystemVault
<1>. DEFINE i == Total(Field(r.vault, "issued"), Vaults)
            t == Total(Field(r.vault, "to_be_issued"), Vaults)
            c == Total([v \in Vaults |-> r.vault[v].stake + r.vault[v].liquidated_collateral],
                       Vaults)
            k == Total(Redeeming(r), {v \in Vaults : is_liquidated(r.vault[v])})
<1>3. i \in Nat /\ t \in Nat /\ c \in Nat
  BY FieldsNat, AccountsAssumption, TotalNat
<1>4. k \in Nat
  <2>. DEFINE L == {v \in Vaults : is_liquidated(r.vault[v])}
  <2>1. IsFiniteSet(L)
    BY AccountsAssumption, FS_Subset
  <2>2. \A v \in L : Redeeming(r)[v] \in Nat
    BY FieldsNat
  <2>. HIDE DEF L
  <2>. QED BY <2>1, <2>2, TotalNat DEF L
<1>5. /\ issued_tokens(r) = i + r.lv.issued /\ issued_tokens(s) = i + s.lv.issued
      /\ to_be_issued_tokens(r) = t + r.lv.to_be_issued
      /\ to_be_issued_tokens(s) = t + s.lv.to_be_issued
      /\ CollateralExcess(r) = r.total - (c + r.lv.collateral)
      /\ CollateralExcess(s) = s.total - (c + s.lv.collateral)
  BY DEF issued_tokens, to_be_issued_tokens, CollateralExcess, held_collateral
<1>6. CopyExcess(r) = r.lv.to_be_redeemed - k /\ CopyExcess(s) = s.lv.to_be_redeemed - k
  BY DEF CopyExcess, Redeeming
<1>7. /\ Redeeming(s) = Redeeming(r) /\ AcceptedGriefing(s) = AcceptedGriefing(r)
      /\ s.griefing = r.griefing => RequestGriefing(s) = RequestGriefing(r)
  BY DEF Redeeming, AcceptedGriefing, RequestGriefing
<1>. HIDE DEF i, t, c, k
<1>. QED BY <1>1, <1>2, <1>3, <1>4, <1>5, <1>6, <1>7

(* The counters of the liquidation vault change, its collateral does not.  *)
LEMMA CountersOfSystem ==
    ASSUME NEW r \in Registry, NEW l \in SystemVault,
           l.collateral = r.lv.collateral, l.to_be_redeemed = r.lv.to_be_redeemed,
           NEW s, s = [r EXCEPT !.lv = l]
    PROVE  /\ issued_tokens(s) = issued_tokens(r) + (l.issued - r.lv.issued)
           /\ to_be_issued_tokens(s) = to_be_issued_tokens(r)
                                     + (l.to_be_issued - r.lv.to_be_issued)
           /\ Redeeming(s) = Redeeming(r)
           /\ SameGriefing(r, s) /\ SameExcess(r, s)
<1>1. /\ s \in Registry /\ s.vault = r.vault /\ s.lv = l
      /\ s.total = r.total /\ s.griefing = r.griefing
  BY DEF Registry
<1>2. /\ r.lv.collateral \in Nat /\ r.lv.to_be_redeemed \in Nat /\ r.total \in Nat
      /\ CollateralExcess(r) \in Int /\ CopyExcess(r) \in Int
  BY RegistryParts, BooksTyped DEF SystemVault
<1>3. /\ issued_tokens(s) = issued_tokens(r) + (s.lv.issued - r.lv.issued)
      /\ to_be_issued_tokens(s) = to_be_issued_tokens(r)
                                     + (s.lv.to_be_issued - r.lv.to_be_issued)
      /\ Redeeming(s) = Redeeming(r)
      /\ AcceptedGriefing(s) = AcceptedGriefing(r)
      /\ RequestGriefing(s) = RequestGriefing(r)
  BY <1>1, BooksOfSystem
<1>4. /\ CollateralExcess(s) = CollateralExcess(r) + (s.total - r.total)
                                     - (s.lv.collateral - r.lv.collateral)
      /\ CopyExcess(s) = CopyExcess(r) + (s.lv.to_be_redeemed - r.lv.to_be_redeemed)
  BY <1>1, BooksOfSystem
<1>5. SameExcess(r, s)
  BY <1>1, <1>2, <1>4 DEF SameExcess
<1>. QED BY <1>1, <1>3, <1>5 DEF SameGriefing

-----------------------------------------------------------------------------
(* Token counters                                                          *)

LEMMA DecreaseToBeIssuedBooks ==
    ASSUME NEW r, RegistryOK(r), NEW v \in Vaults, NEW amt \in Nat,
           NEW s \in decrease_to_be_issued(r, v, amt)
    PROVE  /\ issued_tokens(s) = issued_tokens(r)
           /\ to_be_issued_tokens(s) = to_be_issued_tokens(r) - amt
           /\ Redeeming(s) = Redeeming(r)
           /\ SameGriefing(r, s) /\ SameExcess(r, s)
<1>1. r \in Registry /\ s \in Registry /\ r.vault[v] \in Vault
  BY DecreaseToBeIssuedOK, VaultsTyped DEF RegistryOK
<1>2. /\ issued_tokens(r) \in Nat /\ to_be_issued_tokens(r) \in Nat
      /\ CollateralExcess(r) \in Int /\ CopyExcess(r) \in Int
  BY <1>1, BooksTyped
<1>3. CASE is_liquidated(r.vault[v])
  <2>. DEFINE l == [r.lv EXCEPT !.to_be_issued = @ - amt]
  <2>1. s = [r EXCEPT !.lv = l] /\ amt <= r.lv.to_be_issued
    BY <1>1, <1>3 DEF decrease_to_be_issued, Try, Registry
  <2>2. /\ l \in SystemVault /\ l.collateral = r.lv.collateral
        /\ l.to_be_redeemed = r.lv.to_be_redeemed
        /\ l.issued - r.lv.issued = 0 /\ l.to_be_issued - r.lv.to_be_issued = 0 - amt
    BY <1>1, <2>1, RegistryParts DEF SystemVault
  <2>. HIDE DEF l
  <2>3. /\ issued_tokens(s) = issued_tokens(r) + (l.issued - r.lv.issued)
        /\ to_be_issued_tokens(s) = to_be_issued_tokens(r)
                                     + (l.to_be_issued - r.lv.to_be_issued)
        /\ Redeeming(s) = Redeeming(r)
        /\ SameGriefing(r, s) /\ SameExcess(r, s)
    BY <1>1, <2>1, <2>2, CountersOfSystem
  <2>. QED BY <1>2, <2>2, <2>3
<1>4. CASE ~is_liquidated(r.vault[v])
  <2>. DEFINE w == [r.vault[v] EXCEPT !.to_be_issued = @ - amt]
  <2>1. s = set_vault(r, v, w) /\ amt <= r.vault[v].to_be_issued
    BY <1>4 DEF decrease_to_be_issued, Try
  <2>2. /\ w \in Vault /\ w.issued = r.vault[v].issued
        /\ w.to_be_issued = r.vault[v].to_be_issued - amt
        /\ w.to_be_redeemed = r.vault[v].to_be_redeemed
        /\ w.replace_collateral = r.vault[v].replace_collateral
        /\ w.active_replace_collateral = r.vault[v].active_replace_collateral
        /\ Backing(w) = Backing(r.vault[v]) /\ Copied(w) = Copied(r.vault[v])
        /\ r.vault[v].issued \in Nat /\ r.vault[v].to_be_issued \in Nat
    BY <1>1, <2>1 DEF Vault, Backing, Copied, is_liquidated
  <2>. HIDE DEF w
  <2>3. /\ issued_tokens(s) = issued_tokens(r) + (w.issued - r.vault[v].issued)
        /\ to_be_issued_tokens(s)
              = to_be_issued_tokens(r) + (w.to_be_issued - r.vault[v].to_be_issued)
        /\ Redeeming(s) = [Redeeming(r) EXCEPT ![v] = w.to_be_redeemed]
        /\ SameGriefing(r, s) /\ SameExcess(r, s)
    BY <1>1, <2>1, <2>2, CountersOfVault
  <2>. QED BY <1>1, <1>2, <2>2, <2>3, RedeemingOf
<1>. QED BY <1>3, <1>4

LEMMA IncreaseIssuedBooks ==
    ASSUME NEW r, RegistryOK(r), NEW v \in Vaults, NEW amt \in Nat,
           NEW s, s = increase_issued(r, v, amt)
    PROVE  /\ issued_tokens(s) = issued_tokens(r) + amt
           /\ to_be_issued_tokens(s) = to_be_issued_tokens(r)
           /\ Redeeming(s) = Redeeming(r)
           /\ SameGriefing(r, s) /\ SameExcess(r, s)
<1>1. r \in Registry /\ r.vault[v] \in Vault
  BY VaultsTyped DEF RegistryOK
<1>2. /\ issued_tokens(r) \in Nat /\ to_be_issued_tokens(r) \in Nat
      /\ CollateralExcess(r) \in Int /\ CopyExcess(r) \in Int
  BY <1>1, BooksTyped
<1>3. CASE is_liquidated(r.vault[v])
  <2>. DEFINE l == [r.lv EXCEPT !.issued = @ + amt]
  <2>1. s = [r EXCEPT !.lv = l]
    BY <1>1, <1>3 DEF increase_issued, Registry
  <2>2. /\ l \in SystemVault /\ l.collateral = r.lv.collateral
        /\ l.to_be_redeemed = r.lv.to_be_redeemed
        /\ l.to_be_issued - r.lv.to_be_issued = 0 /\ l.issued - r.lv.issued = amt
    BY <1>1, <2>1, RegistryParts DEF SystemVault
  <2>. HIDE DEF l
  <2>3. /\ issued_tokens(s) = issued_tokens(r) + (l.issued - r.lv.issued)
        /\ to_be_issued_tokens(s) = to_be_issued_tokens(r)
                                     + (l.to_be_issued - r.lv.to_be_issued)
        /\ Redeeming(s) = Redeeming(r)
        /\ SameGriefing(r, s) /\ SameExcess(r, s)
    BY <1>1, <2>1, <2>2, CountersOfSystem
  <2>. QED BY <1>2, <2>2, <2>3
<1>4. CASE ~is_liquidated(r.vault[v])
  <2>. DEFINE w == [r.vault[v] EXCEPT !.issued = @ + amt]
  <2>1. s = set_vault(r, v, w)
    BY <1>4 DEF increase_issued
  <2>2. /\ w \in Vault /\ w.issued = r.vault[v].issued + amt
        /\ w.to_be_issued = r.vault[v].to_be_issued
        /\ w.to_be_redeemed = r.vault[v].to_be_redeemed
        /\ w.replace_collateral = r.vault[v].replace_collateral
        /\ w.active_replace_collateral = r.vault[v].active_replace_collateral
        /\ Backing(w) = Backing(r.vault[v]) /\ Copied(w) = Copied(r.vault[v])
        /\ r.vault[v].issued \in Nat /\ r.vault[v].to_be_issued \in Nat
    BY <1>1 DEF Vault, Backing, Copied, is_liquidated
  <2>. HIDE DEF w
  <2>3. /\ issued_tokens(s) = issued_tokens(r) + (w.issued - r.vault[v].issued)
        /\ to_be_issued_tokens(s)
              = to_be_issued_tokens(r) + (w.to_be_issued - r.vault[v].to_be_issued)
        /\ Redeeming(s) = [Redeeming(r) EXCEPT ![v] = w.to_be_redeemed]
        /\ SameGriefing(r, s) /\ SameExcess(r, s)
    BY <1>1, <2>1, <2>2, CountersOfVault
  <2>. QED BY <1>1, <1>2, <2>2, <2>3, RedeemingOf
<1>. QED BY <1>3, <1>4

(* issue_tokens turns to-be-issued tokens into issued ones.                *)
LEMMA ExecuteIssueBooks ==
    ASSUME NEW r, RegistryOK(r), NEW v \in Vaults, NEW amt \in Nat,
           NEW s \in execute_issue_tokens(r, v, amt)
    PROVE  /\ issued_tokens(s) = issued_tokens(r) + amt
           /\ to_be_issued_tokens(s) = to_be_issued_tokens(r) - amt
           /\ Redeeming(s) = Redeeming(r)
           /\ SameGriefing(r, s) /\ SameExcess(r, s)
<1>1. PICK q \in decrease_to_be_issued(r, v, amt) : s = increase_issued(q, v, amt)
  BY DEF execute_issue_tokens
<1>2. RegistryOK(q)
  BY <1>1, DecreaseToBeIssuedOK
<1>3. /\ issued_tokens(q) = issued_tokens(r)
      /\ to_be_issued_tokens(q) = to_be_issued_tokens(r) - amt
      /\ Redeeming(q) = Redeeming(r)
      /\ SameGriefing(r, q) /\ SameExcess(r, q)
  BY <1>1, DecreaseToBeIssuedBooks
<1>4. /\ issued_tokens(s) = issued_tokens(q) + amt
      /\ to_be_issued_tokens(s) = to_be_issued_tokens(q)
      /\ Redeeming(s) = Redeeming(q)
      /\ SameGriefing(q, s) /\ SameExcess(q, s)
  BY <1>1, <1>2, IncreaseIssuedBooks
<1>. QED BY <1>3, <1>4 DEF SameGriefing, SameExcess

LEMMA DecreaseIssuedBooks ==
    ASSUME NEW r \in Registry, NEW v \in Vaults, NEW amt \in Nat,
           NEW s \in decrease_issued(r, v, amt)
    PROVE  /\ issued_tokens(s) = issued_tokens(r) - amt
           /\ to_be_issued_tokens(s) = to_be_issued_tokens(r)
           /\ Redeeming(s) = Redeeming(r)
           /\ SameGriefing(r, s) /\ SameExcess(r, s)
<1>1. r.vault[v] \in Vault /\ r.lv \in SystemVault
  BY RegistryParts
<1>2. issued_tokens(r) \in Nat /\ to_be_issued_tokens(r) \in Nat
  BY BooksTyped
<1>3. CASE is_liquidated(r.vault[v])
  <2>. DEFINE l == [r.lv EXCEPT !.issued = @ - amt]
  <2>1. s = [r EXCEPT !.lv = l] /\ amt <= r.lv.issued
    BY <1>1, <1>3 DEF decrease_issued, Try, Registry
  <2>2. /\ l \in SystemVault /\ l.collateral = r.lv.collateral
        /\ l.to_be_redeemed = r.lv.to_be_redeemed
        /\ l.to_be_issued - r.lv.to_be_issued = 0 /\ l.issued - r.lv.issued = 0 - amt
    BY <1>1, <2>1 DEF SystemVault
  <2>. HIDE DEF l
  <2>3. /\ issued_tokens(s) = issued_tokens(r) + (l.issued - r.lv.issued)
        /\ to_be_issued_tokens(s) = to_be_issued_tokens(r)
                                     + (l.to_be_issued - r.lv.to_be_issued)
        /\ Redeeming(s) = Redeeming(r)
        /\ SameGriefing(r, s) /\ SameExcess(r, s)
    BY <1>1, <2>1, <2>2, CountersOfSystem
  <2>. QED BY <1>2, <2>2, <2>3
<1>4. CASE ~is_liquidated(r.vault[v])
  <2>. DEFINE w == [r.vault[v] EXCEPT !.issued = @ - amt]
  <2>1. s = set_vault(r, v, w) /\ amt <= r.vault[v].issued
    BY <1>4 DEF decrease_issued, Try
  <2>2. /\ w \in Vault /\ w.issued - r.vault[v].issued = 0 - amt
        /\ w.to_be_issued - r.vault[v].to_be_issued = 0
        /\ w.to_be_redeemed = r.vault[v].to_be_redeemed
        /\ w.replace_collateral = r.vault[v].replace_collateral
        /\ w.active_replace_collateral = r.vault[v].active_replace_collateral
        /\ Backing(w) = Backing(r.vault[v]) /\ Copied(w) = Copied(r.vault[v])
    BY <1>1, <2>1 DEF Vault, Backing, Copied, is_liquidated
  <2>. HIDE DEF w
  <2>3. /\ issued_tokens(s) = issued_tokens(r) + (w.issued - r.vault[v].issued)
        /\ to_be_issued_tokens(s)
              = to_be_issued_tokens(r) + (w.to_be_issued - r.vault[v].to_be_issued)
        /\ Redeeming(s) = [Redeeming(r) EXCEPT ![v] = w.to_be_redeemed]
        /\ SameGriefing(r, s) /\ SameExcess(r, s)
    BY <1>1, <2>1, <2>2, CountersOfVault
  <2>. QED BY <1>2, <2>2, <2>3, RedeemingOf
<1>. QED BY <1>3, <1>4

(* The copy of the liquidation vault follows the vault's own counter.      *)
LEMMA DecreaseToBeRedeemedBooks ==
    ASSUME NEW r \in Registry, NEW v \in Vaults, NEW amt \in Nat,
           NEW s \in decrease_to_be_redeemed(r, v, amt)
    PROVE  /\ issued_tokens(s) = issued_tokens(r)
           /\ to_be_issued_tokens(s) = to_be_issued_tokens(r)
           /\ Redeeming(s) = [Redeeming(r) EXCEPT ![v] = @ - amt]
           /\ SameGriefing(r, s) /\ SameExcess(r, s)
           /\ s \in Registry
<1>. DEFINE w == [r.vault[v] EXCEPT !.to_be_redeemed = @ - amt]
<1>1. r.vault[v] \in Vault /\ r.lv \in SystemVault
  BY RegistryParts
<1>2. /\ issued_tokens(r) \in Nat /\ to_be_issued_tokens(r) \in Nat
      /\ CollateralExcess(r) \in Int /\ CopyExcess(r) \in Int
  BY BooksTyped
<1>3. amt <= r.vault[v].to_be_redeemed
  BY DEF decrease_to_be_redeemed, Try
<1>4. /\ w \in Vault /\ w.issued - r.vault[v].issued = 0
      /\ w.to_be_issued - r.vault[v].to_be_issued = 0
      /\ w.to_be_redeemed = r.vault[v].to_be_redeemed - amt
      /\ w.replace_collateral = r.vault[v].replace_collateral
      /\ w.active_replace_collateral = r.vault[v].active_replace_collateral
      /\ Backing(w) = Backing(r.vault[v]) /\ Backing(w) \in Nat
      /\ is_liquidated(w) <=> is_liquidated(r.vault[v])
      /\ r.vault[v].to_be_redeemed \in Nat
  BY <1>1, <1>3 DEF Vault, Backing, is_liquidated
<1>5. Redeeming(r)[v] = r.vault[v].to_be_redeemed
  BY RedeemingOf
<1>6. CASE ~is_liquidated(r.vault[v])
  <2>1. s = set_vault(r, v, w)
    BY <1>6 DEF decrease_to_be_redeemed, Try
  <2>2. Copied(w) = Copied(r.vault[v])
    BY <1>4, <1>6 DEF Copied
  <2>. HIDE DEF w
  <2>3. /\ issued_tokens(s) = issued_tokens(r) + (w.issued - r.vault[v].issued)
        /\ to_be_issued_tokens(s)
              = to_be_issued_tokens(r) + (w.to_be_issued - r.vault[v].to_be_issued)
        /\ Redeeming(s) = [Redeeming(r) EXCEPT ![v] = w.to_be_redeemed]
        /\ SameGriefing(r, s) /\ SameExcess(r, s)
    BY <1>4, <2>1, <2>2, CountersOfVault
  <2>4. s \in Registry
    BY <1>4, <2>1, SetVaultType
  <2>5. Redeeming(s) = [Redeeming(r) EXCEPT ![v] = @ - amt]
    BY <1>4, <2>3, <1>5
  <2>6. issued_tokens(s) = issued_tokens(r) /\ to_be_issued_tokens(s) = to_be_issued_tokens(r)
    BY <1>2, <1>4, <2>3
  <2>7. SameGriefing(r, s) /\ SameExcess(r, s)
    BY <2>3
  <2>. QED BY <2>4, <2>5, <2>6, <2>7
<1>7. CASE is_liquidated(r.vault[v])
  <2>. DEFINE q == set_vault(r, v, w)
              l == [r.lv EXCEPT !.to_be_redeemed = @ - amt]
  <2>1. s = [q EXCEPT !.lv.to_be_redeemed = @ - amt] /\ amt <= r.lv.to_be_redeemed
    BY <1>7 DEF decrease_to_be_redeemed, Try
  <2>2. /\ q \in Registry /\ q.vault = [r.vault EXCEPT ![v] = w] /\ q.lv = r.lv
        /\ q.total = r.total /\ q.griefing = r.griefing
    BY <1>4, SetVaultType
  <2>3. /\ l \in SystemVault /\ l.issued - r.lv.issued = 0
        /\ l.to_be_issued - r.lv.to_be_issued = 0
        /\ l.collateral - r.lv.collateral = 0
        /\ l.to_be_redeemed - r.lv.to_be_redeemed = 0 - amt
    BY <1>1, <2>1 DEF SystemVault
  <2>4. Copied(w) - Copied(r.vault[v]) = 0 - amt
    BY <1>4, <1>7 DEF Copied
  <2>. HIDE DEF q, w
  <2>5. /\ s \in Registry /\ s.vault = [r.vault EXCEPT ![v] = w] /\ s.lv = l
        /\ s.total = r.total /\ s.griefing = r.griefing
    BY <2>1, <2>2, <2>3 DEF Registry
  <2>. HIDE DEF l
  <2>6. /\ issued_tokens(s) = issued_tokens(r) + (w.issued - r.vault[v].issued)
                                     + (s.lv.issued - r.lv.issued)
        /\ to_be_issued_tokens(s) = to_be_issued_tokens(r)
                                     + (w.to_be_issued - r.vault[v].to_be_issued)
                                     + (s.lv.to_be_issued - r.lv.to_be_issued)
        /\ Redeeming(s) = [Redeeming(r) EXCEPT ![v] = w.to_be_redeemed]
        /\ AcceptedGriefing(s) = [AcceptedGriefing(r) EXCEPT ![v] = w.active_replace_collateral]
    BY <1>4, <2>5, TokensOfVault
  <2>7. /\ CollateralExcess(s) = CollateralExcess(r) + (s.total - r.total)
                                     - (Backing(w) - Backing(r.vault[v]))
                                     - (s.lv.collateral - r.lv.collateral)
        /\ CopyExcess(s) = CopyExcess(r) + (s.lv.to_be_redeemed - r.lv.to_be_redeemed)
                                     - (Copied(w) - Copied(r.vault[v]))
    BY <1>4, <2>5, ExcessOfVault
  <2>8. RequestGriefing(s) = RequestGriefing(r)
    <3>1. Offered(w) = Offered(r.vault[v]) /\ Offered(w) \in Nat
      BY <1>1, <1>4 DEF Offered, Vault
    <3>2. r.griefing \in [Accounts -> Nat] /\ v \in Accounts
      BY RegistryParts DEF Accounts
    <3>. QED BY <1>4, <2>5, <3>1, <3>2, GriefingOfVault
  <2>9. SameExcess(r, s)
    <3>1. r.total \in Nat
      BY RegistryParts
    <3>2. CopyExcess(s) = CopyExcess(r) + (0 - amt) - (0 - amt)
      BY <2>3, <2>4, <2>5, <2>7
    <3>3. CollateralExcess(s) = CollateralExcess(r) + 0 - 0 - 0
      BY <1>4, <2>3, <2>5, <2>7, <3>1
    <3>. QED BY <1>2, <3>2, <3>3 DEF SameExcess
  <2>10. issued_tokens(s) = issued_tokens(r) /\ to_be_issued_tokens(s) = to_be_issued_tokens(r)
    BY <1>2, <1>4, <2>3, <2>5, <2>6
  <2>11. Redeeming(s) = [Redeeming(r) EXCEPT ![v] = @ - amt]
    BY <1>4, <2>6, <1>5
  <2>12. AcceptedGriefing(s) = AcceptedGriefing(r)
    BY <1>4, <2>6, RedeemingOf
  <2>. QED BY <2>5, <2>8, <2>9, <2>10, <2>11, <2>12 DEF SameGriefing
<1>. QED BY <1>6, <1>7

LEMMA ExecuteRedeemBooks ==
    ASSUME NEW r \in Registry, NEW v \in Vaults, NEW amt \in Nat,
           NEW s \in execute_redeem_tokens(r, v, amt)
    PROVE  /\ issued_tokens(s) = issued_tokens(r) - amt
           /\ to_be_issued_tokens(s) = to_be_issued_tokens(r)
           /\ Redeeming(s) = [Redeeming(r) EXCEPT ![v] = @ - amt]
           /\ SameGriefing(r, s) /\ SameExcess(r, s)
<1>1. PICK q \in decrease_to_be_redeemed(r, v, amt) : s \in decrease_issued(q, v, amt)
  BY DEF execute_redeem_tokens
<1>2. /\ issued_tokens(q) = issued_tokens(r)
      /\ to_be_issued_tokens(q) = to_be_issued_tokens(r)
      /\ Redeeming(q) = [Redeeming(r) EXCEPT ![v] = @ - amt]
      /\ SameGriefing(r, q) /\ SameExcess(r, q) /\ q \in Registry
  BY <1>1, DecreaseToBeRedeemedBooks
<1>3. /\ issued_tokens(s) = issued_tokens(q) - amt
      /\ to_be_issued_tokens(s) = to_be_issued_tokens(q)
      /\ Redeeming(s) = Redeeming(q)
      /\ SameGriefing(q, s) /\ SameExcess(q, s)
  BY <1>1, <1>2, DecreaseIssuedBooks
<1>. QED BY <1>2, <1>3 DEF SameGriefing, SameExcess

LEMMA TryIncreaseToBeIssuedBooks ==
    ASSUME NEW r, RegistryOK(r), NEW v \in Vaults, NEW amt \in Nat,
           NEW s \in try_increase_to_be_issued_tokens(r, v, amt)
    PROVE  /\ issued_tokens(s) = issued_tokens(r)
           /\ to_be_issued_tokens(s) = to_be_issued_tokens(r) + amt
           /\ Redeeming(s) = Redeeming(r)
           /\ SameGriefing(r, s) /\ SameExcess(r, s)
<1>. DEFINE w == [r.vault[v] EXCEPT !.to_be_issued = @ + amt]
<1>1. r \in Registry /\ r.vault[v] \in Vault /\ issued_tokens(r) \in Nat
      /\ to_be_issued_tokens(r) \in Nat
  BY VaultsTyped, BooksTyped DEF RegistryOK
<1>2. s = set_vault(r, v, w)
  BY DEF try_increase_to_be_issued_tokens, Try
<1>3. /\ w \in Vault /\ w.issued - r.vault[v].issued = 0
      /\ w.to_be_issued - r.vault[v].to_be_issued = amt
      /\ w.to_be_redeemed = r.vault[v].to_be_redeemed
      /\ w.replace_collateral = r.vault[v].replace_collateral
      /\ w.active_replace_collateral = r.vault[v].active_replace_collateral
      /\ Backing(w) = Backing(r.vault[v]) /\ Copied(w) = Copied(r.vault[v])
  BY <1>1 DEF Vault, Backing, Copied, is_liquidated
<1>. HIDE DEF w
<1>4. /\ issued_tokens(s) = issued_tokens(r) + (w.issued - r.vault[v].issued)
      /\ to_be_issued_tokens(s)
            = to_be_issued_tokens(r) + (w.to_be_issued - r.vault[v].to_be_issued)
      /\ Redeeming(s) = [Redeeming(r) EXCEPT ![v] = w.to_be_redeemed]
      /\ SameGriefing(r, s) /\ SameExcess(r, s)
  BY <1>1, <1>2, <1>3, CountersOfVault
<1>. QED BY <1>1, <1>3, <1>4, RedeemingOf

LEMMA TryIncreaseToBeRedeemedBooks ==
    ASSUME NEW r, RegistryOK(r), NEW v \in Vaults, NEW amt \in Nat,
           NEW s \in try_increase_to_be_redeemed_tokens(r, v, amt)
    PROVE  /\ issued_tokens(s) = issued_tokens(r)
           /\ to_be_issued_tokens(s) = to_be_issued_tokens(r)
           /\ Redeeming(s) = [Redeeming(r) EXCEPT ![v] = @ + amt]
           /\ SameGriefing(r, s) /\ SameExcess(r, s)
<1>. DEFINE w == [r.vault[v] EXCEPT !.to_be_redeemed = @ + amt]
<1>1. r \in Registry /\ r.vault[v] \in Vault /\ issued_tokens(r) \in Nat
      /\ to_be_issued_tokens(r) \in Nat
  BY VaultsTyped, BooksTyped DEF RegistryOK
<1>2. s = set_vault(r, v, w) /\ is_active(r.vault[v])
  BY DEF try_increase_to_be_redeemed_tokens, Try
<1>3. /\ w \in Vault /\ w.issued - r.vault[v].issued = 0
      /\ w.to_be_issued - r.vault[v].to_be_issued = 0
      /\ w.to_be_redeemed = r.vault[v].to_be_redeemed + amt
      /\ w.replace_collateral = r.vault[v].replace_collateral
      /\ w.active_replace_collateral = r.vault[v].active_replace_collateral
      /\ Backing(w) = Backing(r.vault[v]) /\ Copied(w) = Copied(r.vault[v])
  BY <1>1, <1>2 DEF Vault, Backing, Copied, is_liquidated, is_active
<1>. HIDE DEF w
<1>4. /\ issued_tokens(s) = issued_tokens(r) + (w.issued - r.vault[v].issued)
      /\ to_be_issued_tokens(s)
            = to_be_issued_tokens(r) + (w.to_be_issued - r.vault[v].to_be_issued)
      /\ Redeeming(s) = [Redeeming(r) EXCEPT ![v] = w.to_be_redeemed]
      /\ SameGriefing(r, s) /\ SameExcess(r, s)
  BY <1>1, <1>2, <1>3, CountersOfVault
<1>5. Redeeming(r)[v] = r.vault[v].to_be_redeemed
  BY <1>1, RedeemingOf
<1>6. issued_tokens(s) = issued_tokens(r) /\ to_be_issued_tokens(s) = to_be_issued_tokens(r)
  BY <1>1, <1>3, <1>4
<1>7. Redeeming(s) = [Redeeming(r) EXCEPT ![v] = @ + amt]
  BY <1>3, <1>4, <1>5
<1>8. SameGriefing(r, s) /\ SameExcess(r, s)
  BY <1>4
<1>. QED BY <1>6, <1>7, <1>8

(* A change of a vault that no book sees.                                  *)
LEMMA QuietChange ==
    ASSUME NEW r \in Registry, NEW v \in Vaults, NEW w \in Vault,
           w.issued = r.vault[v].issued, w.to_be_issued = r.vault[v].to_be_issued,
           w.to_be_redeemed = r.vault[v].to_be_redeemed,
           w.replace_collateral = r.vault[v].replace_collateral,
           w.active_replace_collateral = r.vault[v].active_replace_collateral,
           Backing(w) = Backing(r.vault[v]), Copied(w) = Copied(r.vault[v])
    PROVE  SameBooks(r, set_vault(r, v, w))
<1>1. w.issued \in Nat /\ w.to_be_issued \in Nat
  BY DEF Vault
<1>2. issued_tokens(r) \in Nat /\ to_be_issued_tokens(r) \in Nat
  BY BooksTyped
<1>3. PICK s : s = set_vault(r, v, w)
  OBVIOUS
<1>4. /\ issued_tokens(s) = issued_tokens(r) + (w.issued - r.vault[v].issued)
      /\ to_be_issued_tokens(s)
            = to_be_issued_tokens(r) + (w.to_be_issued - r.vault[v].to_be_issued)
      /\ Redeeming(s) = [Redeeming(r) EXCEPT ![v] = w.to_be_redeemed]
      /\ SameGriefing(r, s) /\ SameExcess(r, s)
  BY <1>3, CountersOfVault
<1>5. SameTokens(r, s)
  BY <1>1, <1>2, <1>4, RedeemingOf DEF SameTokens
<1>. QED BY <1>3, <1>4, <1>5 DEF SameBooks

(* Offers and bans are not in the books.                                   *)
LEMMA QuietCounters ==
    ASSUME NEW r \in Registry, NEW v \in Vaults, NEW n \in Nat, NEW b \in BOOLEAN
    PROVE  /\ SameBooks(r, set_vault(r, v, [r.vault[v] EXCEPT !.to_be_replaced = n]))
           /\ SameBooks(r, set_vault(r, v, [r.vault[v] EXCEPT !.banned = b]))
           /\ SameBooks(r, set_vault(r, v, [r.vault[v] EXCEPT !.reserved = n]))
<1>1. r.vault[v] \in Vault
  BY RegistryParts
<1>. DEFINE x == r.vault[v]
            y == [x EXCEPT !.to_be_replaced = n]
            z == [x EXCEPT !.banned = b]
            u == [x EXCEPT !.reserved = n]
<1>. HIDE DEF x
<1>2. /\ y \in Vault /\ y.issued = x.issued /\ y.to_be_issued = x.to_be_issued
      /\ y.to_be_redeemed = x.to_be_redeemed /\ y.replace_collateral = x.replace_collateral
      /\ y.active_replace_collateral = x.active_replace_collateral
      /\ Backing(y) = Backing(x) /\ Copied(y) = Copied(x)
  BY <1>1 DEF Vault, Backing, Copied, is_liquidated, x
<1>3. /\ z \in Vault /\ z.issued = x.issued /\ z.to_be_issued = x.to_be_issued
      /\ z.to_be_redeemed = x.to_be_redeemed /\ z.replace_collateral = x.replace_collateral
      /\ z.active_replace_collateral = x.active_replace_collateral
      /\ Backing(z) = Backing(x) /\ Copied(z) = Copied(x)
  BY <1>1 DEF Vault, Backing, Copied, is_liquidated, x
<1>4. /\ u \in Vault /\ u.issued = x.issued /\ u.to_be_issued = x.to_be_issued
      /\ u.to_be_redeemed = x.to_be_redeemed /\ u.replace_collateral = x.replace_collateral
      /\ u.active_replace_collateral = x.active_replace_collateral
      /\ Backing(u) = Backing(x) /\ Copied(u) = Copied(x)
  BY <1>1 DEF Vault, Backing, Copied, is_liquidated, x
<1>. HIDE DEF y, z, u
<1>5. SameBooks(r, set_vault(r, v, y))
  BY <1>2, QuietChange DEF x
<1>6. SameBooks(r, set_vault(r, v, z))
  BY <1>3, QuietChange DEF x
<1>7. SameBooks(r, set_vault(r, v, u))
  BY <1>4, QuietChange DEF x
<1>. QED BY <1>5, <1>6, <1>7 DEF x, y, z, u

LEMMA OffersBooks ==
    ASSUME NEW r, RegistryOK(r), NEW v \in Vaults, NEW amt \in Nat
    PROVE  /\ SameBooks(r, decrease_to_be_replaced_tokens(r, v, amt))
           /\ \A s \in try_increase_to_be_replaced_tokens(r, v, amt) : SameBooks(r, s)
           /\ \A s \in ban_vault(r, v) : SameBooks(r, s)
<1>1. r \in Registry /\ r.vault[v] \in Vault /\ r.vault[v].to_be_replaced \in Nat
  BY VaultsTyped DEF RegistryOK, Vault
<1>2. used_to_be_replaced(r.vault[v], amt) \in 0 .. r.vault[v].to_be_replaced
  BY <1>1, UsedReplace
<1>3. /\ r.vault[v].to_be_replaced - used_to_be_replaced(r.vault[v], amt) \in Nat
      /\ r.vault[v].to_be_replaced + amt \in Nat
  BY <1>1, <1>2
<1>4. SameBooks(r, decrease_to_be_replaced_tokens(r, v, amt))
  BY <1>1, <1>3, QuietCounters DEF decrease_to_be_replaced_tokens
<1>5. \A s \in try_increase_to_be_replaced_tokens(r, v, amt) : SameBooks(r, s)
  BY <1>1, <1>3, QuietCounters DEF try_increase_to_be_replaced_tokens, Try
<1>6. \A s \in ban_vault(r, v) : SameBooks(r, s)
  BY <1>1, QuietCounters DEF ban_vault, Try
<1>. QED BY <1>4, <1>5, <1>6

-----------------------------------------------------------------------------
(* Collateral                                                              *)

(* The recorded total moves by k against what it records, nothing else in  *)
(* the books changes.                                                      *)
Shifted(r, s, k) ==
    /\ SameTokens(r, s) /\ SameGriefing(r, s)
    /\ CopyExcess(s) = CopyExcess(r)
    /\ CollateralExcess(s) = CollateralExcess(r) + k

LEMMA ShiftedZero ==
    ASSUME NEW r \in Registry, NEW s
    PROVE  Shifted(r, s, 0) <=> SameBooks(r, s)
<1>1. CollateralExcess(r) \in Int
  BY BooksTyped
<1>. QED BY <1>1 DEF Shifted, SameBooks, SameExcess

LEMMA ShiftedChain ==
    ASSUME NEW r \in Registry, NEW q, NEW s, NEW j \in Int, NEW k \in Int,
           Shifted(r, q, j), Shifted(q, s, k)
    PROVE  Shifted(r, s, j + k)
<1>1. CollateralExcess(r) \in Int
  BY BooksTyped
<1>. QED BY <1>1 DEF Shifted, SameTokens, SameGriefing

LEMMA ShiftedParts ==
    ASSUME NEW r, NEW q, NEW s, NEW k, Shifted(r, q, k), SameParts(q, s)
    PROVE  Shifted(r, s, k)
BY SamePartsBooks DEF Shifted, SameBooks, SameTokens, SameGriefing, SameExcess

(* The stake or the held collateral of a vault changes by k.               *)
LEMMA BackingShift ==
    ASSUME NEW r \in Registry, NEW v \in Vaults, NEW w \in Vault, NEW k \in Int,
           w.issued = r.vault[v].issued, w.to_be_issued = r.vault[v].to_be_issued,
           w.to_be_redeemed = r.vault[v].to_be_redeemed,
           w.replace_collateral = r.vault[v].replace_collateral,
           w.active_replace_collateral = r.vault[v].active_replace_collateral,
           Backing(w) = Backing(r.vault[v]) + k, Copied(w) = Copied(r.vault[v])
    PROVE  Shifted(r, set_vault(r, v, w), 0 - k)
<1>1. PICK s : s = set_vault(r, v, w)
  OBVIOUS
<1>2. /\ s \in Registry /\ s.vault = [r.vault EXCEPT ![v] = w]
      /\ s.lv = r.lv /\ s.total = r.total /\ s.griefing = r.griefing
  BY <1>1, SetVaultType
<1>3. /\ r.vault[v] \in Vault /\ r.lv \in SystemVault /\ r.total \in Nat
      /\ r.griefing \in [Accounts -> Nat] /\ v \in Accounts
  BY RegistryParts DEF Accounts
<1>4. /\ w.issued \in Nat /\ w.to_be_issued \in Nat
      /\ r.lv.issued \in Nat /\ r.lv.to_be_issued \in Nat
      /\ r.lv.collateral \in Nat /\ r.lv.to_be_redeemed \in Nat
      /\ Backing(r.vault[v]) \in Nat /\ Copied(w) \in Nat
      /\ Offered(w) = Offered(r.vault[v]) /\ Offered(w) \in Nat
  BY <1>3 DEF Vault, SystemVault, Backing, Copied, Offered
<1>5. /\ issued_tokens(r) \in Nat /\ to_be_issued_tokens(r) \in Nat
      /\ CollateralExcess(r) \in Int /\ CopyExcess(r) \in Int
  BY BooksTyped
<1>6. SameTokens(r, s)
  <2>1. /\ issued_tokens(s) = issued_tokens(r) + (w.issued - r.vault[v].issued)
                                     + (s.lv.issued - r.lv.issued)
        /\ to_be_issued_tokens(s) = to_be_issued_tokens(r)
                                     + (w.to_be_issued - r.vault[v].to_be_issued)
                                     + (s.lv.to_be_issued - r.lv.to_be_issued)
        /\ Redeeming(s) = [Redeeming(r) EXCEPT ![v] = w.to_be_redeemed]
    BY <1>2, TokensOfVault
  <2>2. Redeeming(s) = Redeeming(r)
    BY <2>1, RedeemingOf
  <2>. QED BY <1>2, <1>4, <1>5, <2>1, <2>2 DEF SameTokens
<1>7. SameGriefing(r, s)
  <2>1. RequestGriefing(s) = RequestGriefing(r)
    BY <1>2, <1>3, <1>4, GriefingOfVault
  <2>2. AcceptedGriefing(s) = AcceptedGriefing(r)
    BY <1>2, TokensOfVault, RedeemingOf
  <2>. QED BY <2>1, <2>2 DEF SameGriefing
<1>8. /\ CollateralExcess(s) = CollateralExcess(r) + (0 - k)
      /\ CopyExcess(s) = CopyExcess(r)
  <2>1. /\ CollateralExcess(s) = CollateralExcess(r) + (s.total - r.total)
                                     - (Backing(w) - Backing(r.vault[v]))
                                     - (s.lv.collateral - r.lv.collateral)
        /\ CopyExcess(s) = CopyExcess(r) + (s.lv.to_be_redeemed - r.lv.to_be_redeemed)
                                     - (Copied(w) - Copied(r.vault[v]))
    BY <1>2, ExcessOfVault
  <2>. QED BY <1>2, <1>3, <1>4, <1>5, <2>1
<1>. QED BY <1>1, <1>6, <1>7, <1>8 DEF Shifted

LEMMA RestakeShift ==
    ASSUME NEW r \in Registry, NEW v \in Vaults, NEW x \in Vault, x = r.vault[v],
           NEW e \in Nat, NEW n \in Nat, NEW w \in Vault,
           w = [x EXCEPT !.stake = e, !.reward_stake = n]
    PROVE  Shifted(r, set_vault(r, v, w), x.stake - e)
<1>1. /\ w.issued = x.issued /\ w.to_be_issued = x.to_be_issued
      /\ w.to_be_redeemed = x.to_be_redeemed
      /\ w.replace_collateral = x.replace_collateral
      /\ w.active_replace_collateral = x.active_replace_collateral
      /\ Backing(w) = Backing(x) + (e - x.stake) /\ Copied(w) = Copied(x)
      /\ x.stake \in Nat /\ Backing(x) \in Nat
  BY DEF Vault, Backing, Copied, is_liquidated
<1>2. PICK k \in Int : k = e - x.stake
  BY <1>1
<1>3. Shifted(r, set_vault(r, v, w), 0 - k)
  BY <1>1, <1>2, BackingShift
<1>4. 0 - k = x.stake - e
  BY <1>1, <1>2
<1>. QED BY <1>3, <1>4

LEMMA DecreaseTotalShift ==
    ASSUME NEW r \in Registry, NEW amount \in Nat,
           NEW s \in decrease_total_backing_collateral(r, amount)
    PROVE  Shifted(r, s, 0 - amount) /\ s \in Registry
<1>1. /\ s \in Registry /\ s.vault = r.vault /\ s.lv = r.lv /\ s.griefing = r.griefing
      /\ s.total = r.total - amount
  BY DecreaseTotal DEF decrease_total_backing_collateral, Try, Registry
<1>2. /\ r.lv.issued \in Nat /\ r.lv.to_be_issued \in Nat
      /\ r.lv.collateral \in Nat /\ r.lv.to_be_redeemed \in Nat /\ r.total \in Nat
  BY RegistryParts DEF SystemVault
<1>3. /\ issued_tokens(r) \in Nat /\ to_be_issued_tokens(r) \in Nat
      /\ CollateralExcess(r) \in Int /\ CopyExcess(r) \in Int
  BY BooksTyped
<1>4. /\ issued_tokens(s) = issued_tokens(r) + (s.lv.issued - r.lv.issued)
      /\ to_be_issued_tokens(s) = to_be_issued_tokens(r)
                                     + (s.lv.to_be_issued - r.lv.to_be_issued)
      /\ Redeeming(s) = Redeeming(r)
      /\ AcceptedGriefing(s) = AcceptedGriefing(r)
      /\ RequestGriefing(s) = RequestGriefing(r)
  BY <1>1, BooksOfSystem
<1>5. /\ CollateralExcess(s) = CollateralExcess(r) + (s.total - r.total)
                                     - (s.lv.collateral - r.lv.collateral)
      /\ CopyExcess(s) = CopyExcess(r) + (s.lv.to_be_redeemed - r.lv.to_be_redeemed)
  BY <1>1, BooksOfSystem
<1>. QED BY <1>1, <1>2, <1>3, <1>4, <1>5 DEF Shifted, SameTokens, SameGriefing

LEMMA IncreaseTotalShift ==
    ASSUME NEW r \in Registry, NEW amount \in Nat,
           NEW s \in try_increase_total_backing_collateral(r, amount)
    PROVE  Shifted(r, s, amount) /\ s \in Registry
<1>1. /\ s \in Registry /\ s.vault = r.vault /\ s.lv = r.lv /\ s.griefing = r.griefing
      /\ s.total = r.total + amount
  BY IncreaseTotal DEF try_increase_total_backing_collateral, Try, Registry
<1>2. /\ r.lv.issued \in Nat /\ r.lv.to_be_issued \in Nat
      /\ r.lv.collateral \in Nat /\ r.lv.to_be_redeemed \in Nat /\ r.total \in Nat
  BY RegistryParts DEF SystemVault
<1>3. /\ issued_tokens(r) \in Nat /\ to_be_issued_tokens(r) \in Nat
      /\ CollateralExcess(r) \in Int /\ CopyExcess(r) \in Int
  BY BooksTyped
<1>4. /\ issued_tokens(s) = issued_tokens(r) + (s.lv.issued - r.lv.issued)
      /\ to_be_issued_tokens(s) = to_be_issued_tokens(r)
                                     + (s.lv.to_be_issued - r.lv.to_be_issued)
      /\ Redeeming(s) = Redeeming(r)
      /\ AcceptedGriefing(s) = AcceptedGriefing(r)
      /\ RequestGriefing(s) = RequestGriefing(r)
  BY <1>1, BooksOfSystem
<1>5. /\ CollateralExcess(s) = CollateralExcess(r) + (s.total - r.total)
                                     - (s.lv.collateral - r.lv.collateral)
      /\ CopyExcess(s) = CopyExcess(r) + (s.lv.to_be_redeemed - r.lv.to_be_redeemed)
  BY <1>1, BooksOfSystem
<1>. QED BY <1>1, <1>2, <1>3, <1>4, <1>5 DEF Shifted, SameTokens, SameGriefing

(* The liquidation vault gains or pays k.                                  *)
LEMMA SystemShift ==
    ASSUME NEW r \in Registry, NEW l \in SystemVault, NEW k \in Int,
           l.issued = r.lv.issued, l.to_be_issued = r.lv.to_be_issued,
           l.to_be_redeemed = r.lv.to_be_redeemed, l.collateral = r.lv.collateral + k,
           NEW s, s = [r EXCEPT !.lv = l]
    PROVE  Shifted(r, s, 0 - k) /\ s \in Registry
<1>1. /\ s \in Registry /\ s.vault = r.vault /\ s.lv = l
      /\ s.total = r.total /\ s.griefing = r.griefing
  BY DEF Registry
<1>2. /\ r.lv.issued \in Nat /\ r.lv.to_be_issued \in Nat
      /\ r.lv.collateral \in Nat /\ r.lv.to_be_redeemed \in Nat /\ r.total \in Nat
  BY RegistryParts DEF SystemVault
<1>3. /\ issued_tokens(r) \in Nat /\ to_be_issued_tokens(r) \in Nat
      /\ CollateralExcess(r) \in Int /\ CopyExcess(r) \in Int
  BY BooksTyped
<1>4. /\ issued_tokens(s) = issued_tokens(r) + (s.lv.issued - r.lv.issued)
      /\ to_be_issued_tokens(s) = to_be_issued_tokens(r)
                                     + (s.lv.to_be_issued - r.lv.to_be_issued)
      /\ Redeeming(s) = Redeeming(r)
      /\ AcceptedGriefing(s) = AcceptedGriefing(r)
      /\ RequestGriefing(s) = RequestGriefing(r)
  BY <1>1, BooksOfSystem
<1>5. /\ CollateralExcess(s) = CollateralExcess(r) + (s.total - r.total)
                                     - (s.lv.collateral - r.lv.collateral)
      /\ CopyExcess(s) = CopyExcess(r) + (s.lv.to_be_redeemed - r.lv.to_be_redeemed)
  BY <1>1, BooksOfSystem
<1>. QED BY <1>1, <1>2, <1>3, <1>4, <1>5 DEF Shifted, SameTokens, SameGriefing

LEMMA UnlockShift ==
    ASSUME NEW r \in Registry, NEW v \in Vaults, NEW amount \in Nat,
           NEW s \in unlock_collateral(r, v, amount)
    PROVE  Shifted(r, s, 0) /\ s \in Registry
<1>1. /\ s = set_vault(r, v, [r.vault[v] EXCEPT !.reserved = @ - amount])
      /\ amount <= r.vault[v].reserved
  BY DEF unlock_collateral, Try
<1>2. r.vault[v].reserved \in Nat /\ s \in Registry
  BY RegistryParts, Unlock DEF Vault
<1>3. PICK n \in Nat : n = r.vault[v].reserved - amount
  BY <1>1, <1>2
<1>4. SameBooks(r, set_vault(r, v, [r.vault[v] EXCEPT !.reserved = n]))
  BY QuietCounters
<1>. QED BY <1>1, <1>2, <1>3, <1>4, ShiftedZero

LEMMA DecreaseLiquidatedShift ==
    ASSUME NEW r \in Registry, NEW v \in Vaults, NEW c \in Nat,
           NEW s \in decrease_liquidated_collateral(r, v, c)
    PROVE  Shifted(r, s, c) /\ s \in Registry
<1>. DEFINE w == Unheld(r.vault[v], c)
<1>1. s = set_vault(r, v, w) /\ c <= r.vault[v].liquidated_collateral
  BY DEF decrease_liquidated_collateral, Try, Unheld
<1>2. r.vault[v] \in Vault /\ s \in Registry /\ w \in Vault
  BY RegistryParts, DecreaseLiquidated
<1>3. /\ w.issued = r.vault[v].issued /\ w.to_be_issued = r.vault[v].to_be_issued
      /\ w.to_be_redeemed = r.vault[v].to_be_redeemed
      /\ w.replace_collateral = r.vault[v].replace_collateral
      /\ w.active_replace_collateral = r.vault[v].active_replace_collateral
      /\ Backing(w) = Backing(r.vault[v]) + (0 - c) /\ Copied(w) = Copied(r.vault[v])
  BY <1>2 DEF Unheld, Vault, Backing, Copied, is_liquidated
<1>. HIDE DEF w
<1>4. Shifted(r, set_vault(r, v, w), 0 - (0 - c))
  BY <1>2, <1>3, BackingShift
<1>. QED BY <1>1, <1>2, <1>4

(* The operations of the pool manager.                                     *)
LEMMA DepositShift ==
    ASSUME ParamsOK, NEW r \in Registry, NEW v \in Vaults, NEW c \in Nat,
           NEW s \in pool_deposit_collateral(r, v, c)
    PROVE  s \in Registry /\ Shifted(r, s, 0 - c)
<1>1. PICK z \in Vault, e \in Nat : z = r.vault[v] /\ e = z.stake + c
  BY RegistryParts DEF Vault
<1>2. PICK x \in Vault, n \in Nat :
           x = [z EXCEPT !.stake = @ + c, !.reward_stake = n] /\ x = Deposited(z, c)
  BY PoolDeposit
<1>3. x = [z EXCEPT !.stake = e, !.reward_stake = n]
  BY <1>1, <1>2
<1>4. Shifted(r, set_vault(r, v, x), z.stake - e)
  BY <1>1, <1>3, RestakeShift
<1>5. z.stake - e = 0 - c
  BY <1>1 DEF Vault
<1>6. s \in Registry /\ SameParts(set_vault(r, v, x), s)
  <2>1. /\ s \in Registry /\ s.vault = [r.vault EXCEPT ![v] = x]
        /\ s.lv = r.lv /\ s.total = r.total /\ s.griefing = r.griefing
    BY <1>1, <1>2, StakeDeposited
  <2>. QED BY <2>1, SetVaultType DEF SameParts
<1>. QED BY <1>4, <1>5, <1>6, ShiftedParts

LEMMA SlashShift ==
    ASSUME ParamsOK, NEW r \in Registry, NEW v \in Vaults, NEW c \in Nat,
           c <= r.vault[v].stake, NEW s \in pool_slash_collateral(r, v, c)
    PROVE  /\ s \in Registry /\ Shifted(r, s, c) /\ s.lv = r.lv
           /\ s.vault[v].stake = r.vault[v].stake - c
           /\ s.vault[v].status = r.vault[v].status
<1>1. PICK z \in Vault, e \in Nat : z = r.vault[v] /\ e = z.stake - c
  BY RegistryParts DEF Vault
<1>2. PICK x \in Vault, n \in Nat :
           x = [z EXCEPT !.stake = @ - c, !.reward_stake = n] /\ x = Slashed(z, c)
  <2>1. c <= z.stake
    BY <1>1
  <2>. QED BY <2>1, PoolSlash
<1>3. x = [z EXCEPT !.stake = e, !.reward_stake = n]
  BY <1>1, <1>2
<1>4. Shifted(r, set_vault(r, v, x), z.stake - e)
  BY <1>1, <1>3, RestakeShift
<1>5. z.stake - e = c /\ x.stake = z.stake - c /\ x.status = z.status
  BY <1>1, <1>2 DEF Vault
<1>6. /\ s \in Registry /\ SameParts(set_vault(r, v, x), s)
      /\ s.lv = r.lv /\ s.vault[v] = x
  <2>1. /\ s \in Registry /\ s.vault = [r.vault EXCEPT ![v] = x] /\ s.vault[v] = x
        /\ s.lv = r.lv /\ s.total = r.total /\ s.griefing = r.griefing
    BY <1>1, <1>2, StakeSlashed
  <2>. QED BY <2>1, SetVaultType DEF SameParts
<1>7. Shifted(r, s, c)
  BY <1>4, <1>5, <1>6, ShiftedParts
<1>. QED BY <1>1, <1>5, <1>6, <1>7

LEMMA TryDepositBooks ==
    ASSUME ParamsOK, NEW r \in Registry, NEW v \in Vaults, NEW amount \in Nat,
           NEW s \in try_deposit_collateral(r, v, amount)
    PROVE  SameBooks(r, s)
<1>3. PICK q, t : /\ q \in pool_deposit_collateral(r, v, amount)
                  /\ t = set_vault(q, v, [q.vault[v] EXCEPT !.reserved = @ + amount])
                  /\ s \in try_increase_total_backing_collateral(t, amount)
  BY DEF try_deposit_collateral, lock_collateral
<1>7. Shifted(r, q, 0 - amount) /\ q \in Registry
  BY <1>3, DepositShift
<1>4. q \in Registry /\ q.vault[v] \in Vault
  BY <1>7, RegistryParts
<1>5. [q.vault[v] EXCEPT !.reserved = @ + amount] \in Vault /\ q.vault[v].reserved \in Nat
  BY <1>4 DEF Vault
<1>6. t \in Registry
  BY <1>3, <1>4, <1>5, SetVaultType
<1>8. PICK m \in Nat : m = q.vault[v].reserved + amount
  BY <1>5
<1>9. SameBooks(q, t)
  BY <1>3, <1>4, <1>8, QuietCounters
<1>10. Shifted(q, t, 0) /\ Shifted(t, s, amount)
  BY <1>3, <1>4, <1>6, <1>9, ShiftedZero, IncreaseTotalShift
<1>11. Shifted(r, t, 0 - amount + 0)
  BY <1>7, <1>10, ShiftedChain
<1>12. Shifted(r, s, (0 - amount + 0) + amount)
  BY <1>10, <1>11, ShiftedChain
<1>. QED BY <1>12, ShiftedZero

(* Collateral that leaves the stake: unlocked, no longer in the total.     *)
LEMMA StakeLeaves ==
    ASSUME ParamsOK, NEW r \in Registry, NEW v \in Vaults, NEW amount \in Nat,
           NEW q \in unlock_collateral(r, v, amount),
           NEW t \in decrease_total_backing_collateral(q, amount),
           amount <= t.vault[v].stake,
           NEW s \in pool_slash_collateral(t, v, amount)
    PROVE  SameBooks(r, s)
<1>1. Shifted(r, q, 0) /\ q \in Registry
  BY UnlockShift
<1>2. Shifted(q, t, 0 - amount) /\ t \in Registry
  BY <1>1, DecreaseTotalShift
<1>5. Shifted(t, s, amount)
  BY <1>2, SlashShift
<1>6. Shifted(r, t, 0 + (0 - amount))
  BY <1>1, <1>2, ShiftedChain
<1>7. Shifted(r, s, (0 + (0 - amount)) + amount)
  BY <1>5, <1>6, ShiftedChain
<1>. QED BY <1>7, ShiftedZero

LEMMA ForceWithdrawBooks ==
    ASSUME ParamsOK, NEW r \in Registry, NEW v \in Vaults, NEW amount \in Nat,
           NEW s \in force_withdraw_collateral(r, v, amount)
    PROVE  SameBooks(r, s)
<1>1. PICK q, t : /\ q \in unlock_collateral(r, v, amount)
                  /\ t \in decrease_total_backing_collateral(q, amount)
                  /\ s \in pool_withdraw_collateral(t, v, amount)
  BY DEF force_withdraw_collateral
<1>2. amount <= t.vault[v].stake /\ s \in pool_slash_collateral(t, v, amount)
  BY <1>1 DEF pool_withdraw_collateral
<1>. QED BY <1>1, <1>2, StakeLeaves

LEMMA SlashStakeBooks ==
    ASSUME ParamsOK, NEW r, RegistryOK(r), NEW v \in Vaults, ~is_liquidated(r.vault[v]),
           NEW amount \in Nat, NEW s \in release_funds(r, <<"Collateral", v>>, amount)
    PROVE  SameBooks(r, s)
<1>1. r \in Registry /\ r.vault[v] \in Vault /\ Locked(r.vault[v]) /\ Ordered(r.vault[v])
      /\ r.vault \in [Vaults -> Vault]
  BY VaultsTyped DEF RegistryOK
<1>2. PICK q, t : /\ q \in unlock_collateral(r, v, amount)
                  /\ t \in decrease_total_backing_collateral(q, amount)
                  /\ s \in pool_slash_collateral(t, v, amount)
  BY ReleaseCollateral
<1>3. PICK w \in Vault : w = r.vault[v] /\ Locked(w) /\ Ordered(w)
  BY <1>1
<1>4. /\ amount <= w.reserved /\ q \in Registry /\ q.vault[v] = Unlocked(w, amount)
  <2>1. r \in Registry /\ q \in unlock_collateral(r, v, amount)
    BY <1>1, <1>2
  <2>2. /\ amount <= r.vault[v].reserved /\ q \in Registry
        /\ q.vault = [r.vault EXCEPT ![v] = Unlocked(r.vault[v], amount)]
        /\ q.vault[v] = Unlocked(r.vault[v], amount)
    BY <2>1, Unlock
  <2>. QED BY <1>3, <2>2
<1>5. t.vault = q.vault
  BY <1>2, <1>4, DecreaseTotal
<1>6. amount <= t.vault[v].stake
  <2>1. Unlocked(w, amount).stake = w.stake
    BY DEF Unlocked, Vault
  <2>. QED BY <1>3, <1>4, <1>5, <2>1 DEF Vault, Locked, Ordered
<1>. QED BY <1>1, <1>2, <1>6, StakeLeaves

-----------------------------------------------------------------------------
(* Griefing collateral                                                     *)

(* Griefing collateral of an account that is not locked for replace.       *)
LEMMA GriefingBooks ==
    ASSUME NEW r \in Registry, NEW a \in Accounts, NEW k \in Int, r.griefing[a] + k \in Nat,
           NEW s, s = [r EXCEPT !.griefing = [r.griefing EXCEPT ![a] = @ + k]]
    PROVE  /\ s \in Registry /\ SameTokens(r, s) /\ SameExcess(r, s)
           /\ AcceptedGriefing(s) = AcceptedGriefing(r)
           /\ RequestGriefing(s) = [RequestGriefing(r) EXCEPT ![a] = @ + k]
<1>1. /\ r.griefing \in [Accounts -> Nat] /\ r.vault \in [Vaults -> Vault]
      /\ r.lv \in SystemVault /\ r.total \in Nat
  BY RegistryParts
<1>2. /\ s \in Registry /\ s.vault = r.vault /\ s.lv = r.lv /\ s.total = r.total
      /\ s.griefing = [r.griefing EXCEPT ![a] = @ + k]
  BY <1>1 DEF Registry
<1>3. /\ r.lv.issued \in Nat /\ r.lv.to_be_issued \in Nat
      /\ r.lv.to_be_redeemed \in Nat /\ r.lv.collateral \in Nat
  BY <1>1 DEF SystemVault
<1>4. /\ issued_tokens(r) \in Nat /\ to_be_issued_tokens(r) \in Nat
      /\ CollateralExcess(r) \in Int /\ CopyExcess(r) \in Int
  BY BooksTyped
<1>5. /\ issued_tokens(s) = issued_tokens(r) + (s.lv.issued - r.lv.issued)
      /\ to_be_issued_tokens(s) = to_be_issued_tokens(r)
                                     + (s.lv.to_be_issued - r.lv.to_be_issued)
      /\ Redeeming(s) = Redeeming(r)
      /\ AcceptedGriefing(s) = AcceptedGriefing(r)
      /\ CollateralExcess(s) = CollateralExcess(r) + (s.total - r.total)
                                     - (s.lv.collateral - r.lv.collateral)
      /\ CopyExcess(s) = CopyExcess(r) + (s.lv.to_be_redeemed - r.lv.to_be_redeemed)
  BY <1>2, BooksOfSystem
<1>6. SameTokens(r, s) /\ SameExcess(r, s)
  BY <1>1, <1>2, <1>3, <1>4, <1>5 DEF SameTokens, SameExcess
<1>7. RequestGriefing(s) = [RequestGriefing(r) EXCEPT ![a] = @ + k]
  <2>1. /\ RequestGriefing(r) = [u \in Accounts |-> r.griefing[u] -
                                    IF u \in Vaults THEN Offered(r.vault[u]) ELSE 0]
        /\ RequestGriefing(s) = [u \in Accounts |-> s.griefing[u] -
                                    IF u \in Vaults THEN Offered(r.vault[u]) ELSE 0]
    BY <1>2 DEF RequestGriefing, Offered
  <2>2. PICK o : o = IF a \in Vaults THEN Offered(r.vault[a]) ELSE 0
    OBVIOUS
  <2>3. o \in Nat
    BY <1>1, <2>2 DEF Offered, Vault
  <2>4. RequestGriefing(r)[a] = r.griefing[a] - o /\ RequestGriefing(s)[a] = s.griefing[a] - o
    BY <2>1, <2>2
  <2>5. RequestGriefing(s)[a] = RequestGriefing(r)[a] + k
    <3>1. s.griefing[a] = r.griefing[a] + k /\ r.griefing[a] \in Nat
      BY <1>1, <1>2
    <3>. QED BY <2>3, <2>4, <3>1
  <2>6. \A u \in Accounts : u # a => RequestGriefing(s)[u] = RequestGriefing(r)[u]
    BY <1>1, <1>2, <2>1
  <2>. QED BY <2>1, <2>5, <2>6
<1>. QED BY <1>2, <1>5, <1>6, <1>7

LEMMA UnlockGriefingBooks ==
    ASSUME NEW r \in Registry, NEW a \in Accounts, NEW amount \in Nat,
           NEW s \in unlock_griefing(r, a, amount)
    PROVE  /\ s \in Registry /\ SameTokens(r, s) /\ SameExcess(r, s)
           /\ AcceptedGriefing(s) = AcceptedGriefing(r)
           /\ RequestGriefing(s) = [RequestGriefing(r) EXCEPT ![a] = @ + (0 - amount)]
<1>1. r.griefing \in [Accounts -> Nat]
  BY RegistryParts
<1>2. amount <= r.griefing[a] /\ s = [r EXCEPT !.griefing[a] = @ - amount]
  BY DEF unlock_griefing, Try
<1>3. PICK k \in Int : k = 0 - amount /\ r.griefing[a] + k \in Nat
  BY <1>1, <1>2
<1>4. s = [r EXCEPT !.griefing = [r.griefing EXCEPT ![a] = @ + k]]
  BY <1>1, <1>2, <1>3 DEF Registry
<1>. QED BY <1>3, <1>4, GriefingBooks

LEMMA LockGriefingBooks ==
    ASSUME NEW r \in Registry, NEW a \in Accounts, NEW amount \in Nat,
           NEW s, s = [r EXCEPT !.griefing[a] = @ + amount]
    PROVE  /\ s \in Registry /\ SameTokens(r, s) /\ SameExcess(r, s)
           /\ AcceptedGriefing(s) = AcceptedGriefing(r)
           /\ RequestGriefing(s) = [RequestGriefing(r) EXCEPT ![a] = @ + amount]
<1>1. r.griefing \in [Accounts -> Nat]
  BY RegistryParts
<1>2. amount \in Int /\ r.griefing[a] + amount \in Nat
  BY <1>1
<1>3. s = [r EXCEPT !.griefing = [r.griefing EXCEPT ![a] = @ + amount]]
  BY <1>1 DEF Registry
<1>. QED BY <1>2, <1>3, GriefingBooks

(* Griefing collateral of a replace offer, or of accepted requests.        *)
LEMMA ReplaceCollateralMoved ==
    ASSUME NEW r \in Registry, NEW v \in Vaults, NEW w \in Vault, NEW k \in Int,
           w.issued = r.vault[v].issued, w.to_be_issued = r.vault[v].to_be_issued,
           w.to_be_redeemed = r.vault[v].to_be_redeemed,
           Backing(w) = Backing(r.vault[v]), Copied(w) = Copied(r.vault[v]),
           Offered(w) = Offered(r.vault[v]) + k,
           NEW s \in Registry, s.vault = [r.vault EXCEPT ![v] = w], s.lv = r.lv,
           s.total = r.total, s.griefing = [r.griefing EXCEPT ![v] = @ + k]
    PROVE  /\ SameTokens(r, s) /\ SameExcess(r, s)
           /\ RequestGriefing(s) = RequestGriefing(r)
           /\ AcceptedGriefing(s)
                 = [AcceptedGriefing(r) EXCEPT ![v] = w.active_replace_collateral]
<1>1. /\ r.vault[v] \in Vault /\ r.griefing \in [Accounts -> Nat] /\ v \in Accounts
  BY RegistryParts DEF Accounts
<1>2. /\ s.griefing[v] = r.griefing[v] + k
      /\ \A a \in Accounts : a # v => s.griefing[a] = r.griefing[a]
  BY <1>1
<1>3. Offered(r.vault[v]) \in Nat /\ r.griefing[v] \in Nat
  BY <1>1 DEF Offered, Vault
<1>4. s.griefing[v] - r.griefing[v] = Offered(w) - Offered(r.vault[v])
  <2>1. PICK b \in Nat, o \in Nat : b = r.griefing[v] /\ o = Offered(r.vault[v])
    BY <1>3
  <2>2. s.griefing[v] = b + k /\ Offered(w) = o + k
    BY <1>2, <2>1
  <2>3. (b + k) - b = (o + k) - o
    BY <2>1
  <2>. QED BY <2>1, <2>2, <2>3
<1>5. /\ r.lv \in SystemVault /\ r.total \in Nat
  BY RegistryParts
<1>6. /\ w.issued \in Nat /\ w.to_be_issued \in Nat
       /\ r.lv.issued \in Nat /\ r.lv.to_be_issued \in Nat
       /\ r.lv.collateral \in Nat /\ r.lv.to_be_redeemed \in Nat
       /\ Backing(w) \in Nat /\ Copied(w) \in Nat
  BY <1>5 DEF Vault, SystemVault, Backing, Copied
<1>7. /\ issued_tokens(r) \in Nat /\ to_be_issued_tokens(r) \in Nat
       /\ CollateralExcess(r) \in Int /\ CopyExcess(r) \in Int
  BY BooksTyped
<1>8. /\ issued_tokens(s) = issued_tokens(r) + (w.issued - r.vault[v].issued)
                                     + (s.lv.issued - r.lv.issued)
       /\ to_be_issued_tokens(s) = to_be_issued_tokens(r)
                                     + (w.to_be_issued - r.vault[v].to_be_issued)
                                     + (s.lv.to_be_issued - r.lv.to_be_issued)
       /\ Redeeming(s) = [Redeeming(r) EXCEPT ![v] = w.to_be_redeemed]
       /\ AcceptedGriefing(s) = [AcceptedGriefing(r) EXCEPT ![v] = w.active_replace_collateral]
  BY TokensOfVault
<1>9. /\ CollateralExcess(s) = CollateralExcess(r) + (s.total - r.total)
                                     - (Backing(w) - Backing(r.vault[v]))
                                     - (s.lv.collateral - r.lv.collateral)
       /\ CopyExcess(s) = CopyExcess(r) + (s.lv.to_be_redeemed - r.lv.to_be_redeemed)
                                     - (Copied(w) - Copied(r.vault[v]))
  BY ExcessOfVault
<1>10. SameTokens(r, s)
  <2>1. Redeeming(s) = Redeeming(r)
    BY <1>8, RedeemingOf
  <2>. QED BY <1>2, <1>6, <1>7, <1>8, <2>1 DEF SameTokens
<1>11. SameExcess(r, s)
  BY <1>2, <1>5, <1>6, <1>7, <1>9 DEF SameExcess
<1>12. RequestGriefing(s) = RequestGriefing(r)
  BY <1>2, <1>4, GriefingOfVault, ZenonT(60)
<1>. QED BY <1>2, <1>8, <1>10, <1>11, <1>12

LEMMA ReleaseOfferBooks ==
    ASSUME NEW r \in Registry, NEW v \in Vaults, NEW amount \in Nat,
           NEW s \in release_funds(r, <<"AvailableReplaceCollateral", v>>, amount)
    PROVE  /\ s \in Registry /\ SameBooks(r, s)
<1>. DEFINE x == r.vault[v]
            w == [x EXCEPT !.replace_collateral = @ - amount]
            q == set_vault(r, v, w)
<1>1. x \in Vault /\ r.griefing \in [Accounts -> Nat] /\ v \in Accounts
      /\ r.vault \in [Vaults -> Vault]
  BY RegistryParts DEF Accounts
<1>2. /\ amount <= x.replace_collateral /\ amount <= q.griefing[v]
      /\ s = [q EXCEPT !.griefing[v] = @ - amount]
  BY <1>1 DEF release_funds, unlock_griefing, Try, set_vault
<1>. HIDE DEF x
<1>3. /\ w \in Vault /\ w.issued = x.issued /\ w.to_be_issued = x.to_be_issued
      /\ w.to_be_redeemed = x.to_be_redeemed /\ Backing(w) = Backing(x)
      /\ Copied(w) = Copied(x) /\ Offered(w) = Offered(x) + (0 - amount)
      /\ w.active_replace_collateral = x.active_replace_collateral
  BY <1>1, <1>2 DEF Vault, Backing, Copied, Offered, is_liquidated
<1>. HIDE DEF w
<1>4. q \in Registry /\ q.griefing = r.griefing
  BY <1>3, SetVaultType
<1>5. PICK k \in Int : k = 0 - amount /\ r.griefing[v] + k \in Nat
  BY <1>1, <1>2, <1>4
<1>6. /\ s \in Registry /\ s.vault = [r.vault EXCEPT ![v] = w] /\ s.lv = r.lv
      /\ s.total = r.total /\ s.griefing = [r.griefing EXCEPT ![v] = @ + k]
  <2>1. s = [q EXCEPT !.griefing = [r.griefing EXCEPT ![v] = @ + k]]
    BY <1>1, <1>2, <1>4, <1>5 DEF Registry
  <2>2. [r.griefing EXCEPT ![v] = @ + k] \in [Accounts -> Nat]
    BY <1>1, <1>5
  <2>3. q.vault = [r.vault EXCEPT ![v] = w] /\ q.lv = r.lv /\ q.total = r.total
    BY <1>3, SetVaultType
  <2>. HIDE DEF q
  <2>. QED BY <1>4, <2>1, <2>2, <2>3 DEF Registry
<1>7. /\ SameTokens(r, s) /\ SameExcess(r, s)
      /\ RequestGriefing(s) = RequestGriefing(r)
      /\ AcceptedGriefing(s) = [AcceptedGriefing(r) EXCEPT ![v] = w.active_replace_collateral]
  BY <1>3, <1>5, <1>6, ReplaceCollateralMoved DEF x
<1>8. AcceptedGriefing(r)[v] = x.active_replace_collateral
      /\ AcceptedGriefing(r) = [AcceptedGriefing(r) EXCEPT ![v] = x.active_replace_collateral]
  BY RedeemingOf DEF x
<1>. QED BY <1>3, <1>6, <1>7, <1>8 DEF SameBooks, SameGriefing

LEMMA ClaimOfferBooks ==
    ASSUME NEW r \in Registry, NEW v \in Vaults, NEW amount \in Nat,
           NEW s \in claim_funds(r, <<"AvailableReplaceCollateral", v>>, amount)
    PROVE  /\ s \in Registry /\ SameBooks(r, s)
<1>. DEFINE x == r.vault[v]
            w == [x EXCEPT !.replace_collateral = @ + amount]
            q == set_vault(r, v, w)
<1>1. x \in Vault /\ r.griefing \in [Accounts -> Nat] /\ v \in Accounts
      /\ r.vault \in [Vaults -> Vault]
  BY RegistryParts DEF Accounts
<1>2. s = [q EXCEPT !.griefing[v] = @ + amount]
  BY <1>1 DEF claim_funds, Try, set_vault, Registry
<1>. HIDE DEF x
<1>3. /\ w \in Vault /\ w.issued = x.issued /\ w.to_be_issued = x.to_be_issued
      /\ w.to_be_redeemed = x.to_be_redeemed /\ Backing(w) = Backing(x)
      /\ Copied(w) = Copied(x) /\ Offered(w) = Offered(x) + amount
      /\ w.active_replace_collateral = x.active_replace_collateral
  BY <1>1, <1>2 DEF Vault, Backing, Copied, Offered, is_liquidated
<1>. HIDE DEF w
<1>4. q \in Registry /\ q.griefing = r.griefing
  BY <1>3, SetVaultType
<1>5. PICK k \in Int : k = amount /\ r.griefing[v] + k \in Nat
  BY <1>1, <1>2, <1>4
<1>6. /\ s \in Registry /\ s.vault = [r.vault EXCEPT ![v] = w] /\ s.lv = r.lv
      /\ s.total = r.total /\ s.griefing = [r.griefing EXCEPT ![v] = @ + k]
  <2>1. s = [q EXCEPT !.griefing = [r.griefing EXCEPT ![v] = @ + k]]
    BY <1>1, <1>2, <1>4, <1>5 DEF Registry
  <2>2. [r.griefing EXCEPT ![v] = @ + k] \in [Accounts -> Nat]
    BY <1>1, <1>5
  <2>3. q.vault = [r.vault EXCEPT ![v] = w] /\ q.lv = r.lv /\ q.total = r.total
    BY <1>3, SetVaultType
  <2>. HIDE DEF q
  <2>. QED BY <1>4, <2>1, <2>2, <2>3 DEF Registry
<1>7. /\ SameTokens(r, s) /\ SameExcess(r, s)
      /\ RequestGriefing(s) = RequestGriefing(r)
      /\ AcceptedGriefing(s) = [AcceptedGriefing(r) EXCEPT ![v] = w.active_replace_collateral]
  BY <1>3, <1>5, <1>6, ReplaceCollateralMoved DEF x
<1>8. AcceptedGriefing(r)[v] = x.active_replace_collateral
      /\ AcceptedGriefing(r) = [AcceptedGriefing(r) EXCEPT ![v] = x.active_replace_collateral]
  BY RedeemingOf DEF x
<1>. QED BY <1>3, <1>6, <1>7, <1>8 DEF SameBooks, SameGriefing

LEMMA ReleaseAcceptedBooks ==
    ASSUME NEW r \in Registry, NEW v \in Vaults, NEW amount \in Nat,
           NEW s \in release_funds(r, <<"ActiveReplaceCollateral", v>>, amount)
    PROVE  /\ s \in Registry /\ SameTokens(r, s) /\ SameExcess(r, s)
           /\ RequestGriefing(s) = RequestGriefing(r)
           /\ AcceptedGriefing(s) = [AcceptedGriefing(r) EXCEPT ![v] = @ + (0 - amount)]
<1>. DEFINE x == r.vault[v]
            w == [x EXCEPT !.active_replace_collateral = @ - amount]
            q == set_vault(r, v, w)
<1>1. x \in Vault /\ r.griefing \in [Accounts -> Nat] /\ v \in Accounts
      /\ r.vault \in [Vaults -> Vault]
  BY RegistryParts DEF Accounts
<1>2. /\ amount <= x.active_replace_collateral /\ amount <= q.griefing[v]
      /\ s = [q EXCEPT !.griefing[v] = @ - amount]
  BY <1>1 DEF release_funds, unlock_griefing, Try, set_vault
<1>. HIDE DEF x
<1>3. /\ w \in Vault /\ w.issued = x.issued /\ w.to_be_issued = x.to_be_issued
      /\ w.to_be_redeemed = x.to_be_redeemed /\ Backing(w) = Backing(x)
      /\ Copied(w) = Copied(x) /\ Offered(w) = Offered(x) + (0 - amount)
      /\ w.active_replace_collateral = x.active_replace_collateral + (0 - amount)
  BY <1>1, <1>2 DEF Vault, Backing, Copied, Offered, is_liquidated
<1>. HIDE DEF w
<1>4. q \in Registry /\ q.griefing = r.griefing
  BY <1>3, SetVaultType
<1>5. PICK k \in Int : k = 0 - amount /\ r.griefing[v] + k \in Nat
  BY <1>1, <1>2, <1>4
<1>6. /\ s \in Registry /\ s.vault = [r.vault EXCEPT ![v] = w] /\ s.lv = r.lv
      /\ s.total = r.total /\ s.griefing = [r.griefing EXCEPT ![v] = @ + k]
  <2>1. s = [q EXCEPT !.griefing = [r.griefing EXCEPT ![v] = @ + k]]
    BY <1>1, <1>2, <1>4, <1>5 DEF Registry
  <2>2. [r.griefing EXCEPT ![v] = @ + k] \in [Accounts -> Nat]
    BY <1>1, <1>5
  <2>3. q.vault = [r.vault EXCEPT ![v] = w] /\ q.lv = r.lv /\ q.total = r.total
    BY <1>3, SetVaultType
  <2>. HIDE DEF q
  <2>. QED BY <1>4, <2>1, <2>2, <2>3 DEF Registry
<1>7. /\ SameTokens(r, s) /\ SameExcess(r, s)
      /\ RequestGriefing(s) = RequestGriefing(r)
      /\ AcceptedGriefing(s) = [AcceptedGriefing(r) EXCEPT ![v] = w.active_replace_collateral]
  BY <1>3, <1>5, <1>6, ReplaceCollateralMoved DEF x
<1>8. AcceptedGriefing(r)[v] = x.active_replace_collateral
      /\ AcceptedGriefing(r) = [AcceptedGriefing(r) EXCEPT ![v] = x.active_replace_collateral]
  BY RedeemingOf DEF x
<1>9. AcceptedGriefing(s) = [AcceptedGriefing(r) EXCEPT ![v] = @ + (0 - amount)]
  BY <1>3, <1>7, <1>8
<1>. QED BY <1>6, <1>7, <1>9

LEMMA ClaimAcceptedBooks ==
    ASSUME NEW r \in Registry, NEW v \in Vaults, NEW amount \in Nat,
           NEW s \in claim_funds(r, <<"ActiveReplaceCollateral", v>>, amount)
    PROVE  /\ s \in Registry /\ SameTokens(r, s) /\ SameExcess(r, s)
           /\ RequestGriefing(s) = RequestGriefing(r)
           /\ AcceptedGriefing(s) = [AcceptedGriefing(r) EXCEPT ![v] = @ + amount]
<1>. DEFINE x == r.vault[v]
            w == [x EXCEPT !.active_replace_collateral = @ + amount]
            q == set_vault(r, v, w)
<1>1. x \in Vault /\ r.griefing \in [Accounts -> Nat] /\ v \in Accounts
      /\ r.vault \in [Vaults -> Vault]
  BY RegistryParts DEF Accounts
<1>2. s = [q EXCEPT !.griefing[v] = @ + amount]
  BY <1>1 DEF claim_funds, Try, set_vault, Registry
<1>. HIDE DEF x
<1>3. /\ w \in Vault /\ w.issued = x.issued /\ w.to_be_issued = x.to_be_issued
      /\ w.to_be_redeemed = x.to_be_redeemed /\ Backing(w) = Backing(x)
      /\ Copied(w) = Copied(x) /\ Offered(w) = Offered(x) + amount
      /\ w.active_replace_collateral = x.active_replace_collateral + amount
  BY <1>1, <1>2 DEF Vault, Backing, Copied, Offered, is_liquidated
<1>. HIDE DEF w
<1>4. q \in Registry /\ q.griefing = r.griefing
  BY <1>3, SetVaultType
<1>5. PICK k \in Int : k = amount /\ r.griefing[v] + k \in Nat
  BY <1>1, <1>2, <1>4
<1>6. /\ s \in Registry /\ s.vault = [r.vault EXCEPT ![v] = w] /\ s.lv = r.lv
      /\ s.total = r.total /\ s.griefing = [r.griefing EXCEPT ![v] = @ + k]
  <2>1. s = [q EXCEPT !.griefing = [r.griefing EXCEPT ![v] = @ + k]]
    BY <1>1, <1>2, <1>4, <1>5 DEF Registry
  <2>2. [r.griefing EXCEPT ![v] = @ + k] \in [Accounts -> Nat]
    BY <1>1, <1>5
  <2>3. q.vault = [r.vault EXCEPT ![v] = w] /\ q.lv = r.lv /\ q.total = r.total
    BY <1>3, SetVaultType
  <2>. HIDE DEF q
  <2>. QED BY <1>4, <2>1, <2>2, <2>3 DEF Registry
<1>7. /\ SameTokens(r, s) /\ SameExcess(r, s)
      /\ RequestGriefing(s) = RequestGriefing(r)
      /\ AcceptedGriefing(s) = [AcceptedGriefing(r) EXCEPT ![v] = w.active_replace_collateral]
  BY <1>3, <1>5, <1>6, ReplaceCollateralMoved DEF x
<1>8. AcceptedGriefing(r)[v] = x.active_replace_collateral
      /\ AcceptedGriefing(r) = [AcceptedGriefing(r) EXCEPT ![v] = x.active_replace_collateral]
  BY RedeemingOf DEF x
<1>9. AcceptedGriefing(s) = [AcceptedGriefing(r) EXCEPT ![v] = @ + amount]
  BY <1>3, <1>7, <1>8
<1>. QED BY <1>6, <1>7, <1>9

-----------------------------------------------------------------------------
(* Collateral held for to-be-redeemed tokens                               *)

LEMMA LiquidationVaultClaims ==
    ASSUME NEW p \in Registry, NEW u, NEW c \in Nat,
           NEW s \in claim_funds(p, <<"LiquidationVault", u>>, c)
    PROVE  s \in Registry /\ Shifted(p, s, c + (0 - c))
<1>1. PICK k \in try_increase_total_backing_collateral(p, c) :
           s = [k EXCEPT !.lv.collateral = @ + c, !.lv.reserved = @ + c]
  BY DEF claim_funds
<1>2. k \in Registry /\ Shifted(p, k, c)
  BY <1>1, IncreaseTotalShift
<1>. DEFINE m == [k.lv EXCEPT !.collateral = @ + c]
            l == [m EXCEPT !.reserved = @ + c]
<1>3. k.lv \in SystemVault
  BY <1>2, RegistryParts
<1>4. /\ m \in SystemVault /\ m.issued = k.lv.issued /\ m.to_be_issued = k.lv.to_be_issued
      /\ m.to_be_redeemed = k.lv.to_be_redeemed /\ m.collateral = k.lv.collateral + c
  BY <1>3 DEF SystemVault
<1>5. s = [k EXCEPT !.lv = l]
  BY <1>1, <1>2, <1>3 DEF Registry, SystemVault
<1>. HIDE DEF m
<1>6. /\ l \in SystemVault /\ l.issued = k.lv.issued /\ l.to_be_issued = k.lv.to_be_issued
      /\ l.to_be_redeemed = k.lv.to_be_redeemed /\ l.collateral = k.lv.collateral + c
  BY <1>4 DEF SystemVault
<1>. HIDE DEF l
<1>7. Shifted(k, s, 0 - c) /\ s \in Registry
  BY <1>2, <1>5, <1>6, SystemShift
<1>. QED BY <1>2, <1>7, ShiftedChain

LEMMA TransferLiquidatedShift ==
    ASSUME NEW q \in Registry, NEW v \in Vaults, NEW c \in Nat, NEW u, NEW kind,
           kind = "FreeBalance" \/ kind = "LiquidationVault",
           NEW s \in transfer_funds(q, <<"LiquidatedCollateral", v>>, <<kind, u>>, c)
    PROVE  s \in Registry /\ Shifted(q, s, 0 - c)
<1>1. PICK p : /\ p \in release_funds(q, <<"LiquidatedCollateral", v>>, c)
               /\ s \in claim_funds(p, <<kind, u>>, c)
  BY Transferred
<1>2. PICK t : /\ t \in decrease_total_backing_collateral(q, c)
               /\ p \in unlock_collateral(t, v, c)
  BY <1>1, ReleaseLiquidated
<1>3. t \in Registry /\ Shifted(q, t, 0 - c)
  BY <1>2, DecreaseTotalShift
<1>4. p \in Registry /\ Shifted(t, p, 0)
  BY <1>2, <1>3, UnlockShift
<1>5. Shifted(q, p, (0 - c) + 0)
  BY <1>3, <1>4, ShiftedChain
<1>6. (0 - c) + 0 = 0 - c /\ 0 - c \in Int
  OBVIOUS
<1>7. CASE kind = "FreeBalance"
  <2>1. s = p
    BY <1>1, <1>7 DEF claim_funds
  <2>. QED BY <1>4, <1>5, <1>6, <2>1
<1>8. CASE kind = "LiquidationVault"
  <2>1. s \in claim_funds(p, <<"LiquidationVault", u>>, c)
    BY <1>1, <1>8
  <2>2. s \in Registry /\ Shifted(p, s, c + (0 - c))
    BY <1>4, <2>1, LiquidationVaultClaims
  <2>3. c + (0 - c) = 0 /\ 0 \in Int
    OBVIOUS
  <2>4. Shifted(q, s, (0 - c) + 0)
    BY <1>5, <1>6, <2>2, <2>3, ShiftedChain
  <2>. QED BY <1>6, <2>2, <2>4
<1>. QED BY <1>7, <1>8

(* The collateral held for some tokens goes to a redeemer or to the        *)
(* liquidation vault.                                                      *)
LEMMA ConfiscateBooks ==
    ASSUME NEW r \in Registry, NEW v \in Vaults, NEW c \in Nat,
           NEW q \in decrease_liquidated_collateral(r, v, c),
           NEW u, NEW kind, kind = "FreeBalance" \/ kind = "LiquidationVault",
           NEW s \in transfer_funds(q, <<"LiquidatedCollateral", v>>, <<kind, u>>, c)
    PROVE  s \in Registry /\ SameBooks(r, s)
<1>1. q \in Registry /\ Shifted(r, q, c)
  BY DecreaseLiquidatedShift
<1>2. s \in Registry /\ Shifted(q, s, 0 - c)
  BY <1>1, TransferLiquidatedShift
<1>3. Shifted(r, s, c + (0 - c))
  BY <1>1, <1>2, ShiftedChain
<1>4. c + (0 - c) = 0
  OBVIOUS
<1>. QED BY <1>2, <1>3, <1>4, ShiftedZero

LEMMA SameChain ==
    ASSUME NEW r, NEW q, NEW s, SameBooks(r, q), SameBooks(q, s)
    PROVE  SameBooks(r, s)
BY DEF SameBooks, SameTokens, SameGriefing, SameExcess

(* redeem_tokens, for an active vault (with a premium) and for a           *)
(* liquidated one.                                                         *)
LEMMA RedeemTokensBooks ==
    ASSUME ParamsOK, NEW r, RegistryOK(r), NEW v \in Vaults, NEW amt \in Nat,
           NEW premium \in Nat, NEW s \in redeem_tokens(r, v, amt, premium)
    PROVE  /\ issued_tokens(s) = issued_tokens(r) - amt
           /\ to_be_issued_tokens(s) = to_be_issued_tokens(r)
           /\ Redeeming(s) = [Redeeming(r) EXCEPT ![v] = @ - amt]
           /\ SameGriefing(r, s) /\ SameExcess(r, s)
<1>. DEFINE w == r.vault[v]
<1>1. /\ w \in Vault /\ Ordered(w) /\ RegistrySound(r) /\ r \in Registry
      /\ \A u \in Vaults : NotStranded(r.vault[u])
  BY VaultsTyped DEF RegistryOK, RegistrySound
<1>2. PICK c \in Nat : c = liquidated_share(w, amt)
  BY <1>1, LiquidatedShare
<1>3. PICK q \in execute_redeem_tokens(r, v, amt) :
           /\ ~is_liquidated(q.vault[v]) =>
                 s \in IF premium = 0 THEN {q}
                       ELSE transfer_funds(q, <<"Collateral", v>>, <<"FreeBalance", v>>, premium)
           /\ is_liquidated(q.vault[v]) =>
                 \E t, k : /\ t \in decrease_total_backing_collateral(q, c)
                           /\ k \in decrease_liquidated_collateral(t, v, c)
                           /\ s \in unlock_collateral(k, v, c)
  BY <1>2 DEF redeem_tokens
<1>. HIDE DEF w
<1>4. /\ RegistrySound(q) /\ q \in Registry
      /\ \A u \in Vaults \ {v} : q.vault[u] = r.vault[u]
      /\ q.vault[v].status = w.status
      /\ q.vault[v].liquidated_collateral = w.liquidated_collateral
  BY <1>1, ExecuteRedeemTokens DEF w, RegistrySound
<1>5. /\ issued_tokens(q) = issued_tokens(r) - amt
      /\ to_be_issued_tokens(q) = to_be_issued_tokens(r)
      /\ Redeeming(q) = [Redeeming(r) EXCEPT ![v] = @ - amt]
      /\ SameGriefing(r, q) /\ SameExcess(r, q)
  BY <1>1, ExecuteRedeemBooks
<1>6. SameBooks(q, s)
  <2>1. CASE ~is_liquidated(q.vault[v])
    <3>1. NotStranded(q.vault[v])
      BY <1>1, <1>4, <2>1 DEF Ordered, NotStranded, is_liquidated
    <3>2. RegistryOK(q)
      BY <1>1, <1>4, <3>1 DEF RegistryOK
    <3>3. CASE premium = 0
      BY <1>3, <2>1, <3>3 DEF SameBooks, SameTokens, SameGriefing, SameExcess
    <3>4. CASE premium # 0
      <4>1. s \in release_funds(q, <<"Collateral", v>>, premium)
        BY <1>3, <2>1, <3>4, ToFreeBalance
      <4>. QED BY <2>1, <3>2, <4>1, SlashStakeBooks
    <3>. QED BY <3>3, <3>4
  <2>2. CASE is_liquidated(q.vault[v])
    <3>1. PICK t, k : /\ t \in decrease_total_backing_collateral(q, c)
                      /\ k \in decrease_liquidated_collateral(t, v, c)
                      /\ s \in unlock_collateral(k, v, c)
      BY <1>3, <2>2
    <3>2. t \in Registry /\ Shifted(q, t, 0 - c)
      BY <1>4, <3>1, DecreaseTotalShift
    <3>3. k \in Registry /\ Shifted(t, k, c)
      BY <3>1, <3>2, DecreaseLiquidatedShift
    <3>4. Shifted(k, s, 0)
      BY <3>1, <3>3, UnlockShift
    <3>5. Shifted(q, k, (0 - c) + c)
      BY <1>4, <3>2, <3>3, ShiftedChain
    <3>6. (0 - c) + c = 0
      OBVIOUS
    <3>. QED BY <1>4, <3>3, <3>4, <3>5, <3>6, ShiftedZero, SameChain
  <2>. QED BY <2>1, <2>2
<1>. QED BY <1>5, <1>6 DEF SameBooks, SameTokens, SameGriefing, SameExcess

LEMMA RedeemLiquidationBooks ==
    ASSUME NEW r, RegistryOK(r), NEW u, NEW amt \in Nat,
           NEW s \in redeem_tokens_liquidation(r, u, amt)
    PROVE  /\ issued_tokens(s) = issued_tokens(r) - amt
           /\ to_be_issued_tokens(s) = to_be_issued_tokens(r)
           /\ Redeeming(s) = Redeeming(r)
           /\ SameGriefing(r, s) /\ SameExcess(r, s)
<1>1. /\ r \in Registry /\ r.lv \in SystemVault /\ r.total \in Nat
      /\ issued_tokens(r) \in Nat /\ to_be_issued_tokens(r) \in Nat
  BY RegistryParts, BooksTyped DEF RegistryOK, RegistrySound
<1>2. r.lv.to_be_redeemed + amt <= r.lv.issued
  BY DEF redeem_tokens_liquidation
<1>3. PICK c, q : /\ c = calculate_collateral(r.lv.collateral, amt, to_be_backed_tokens(r.lv))
                  /\ q \in transfer_funds(r, <<"LiquidationVault", u>>, <<"FreeBalance", u>>, c)
                  /\ s = [q EXCEPT !.lv.issued = @ - amt]
  BY <1>2 DEF redeem_tokens_liquidation
<1>4. c \in Nat
  <2>1. PICK k, d : k \in Nat /\ k = r.lv.collateral /\ d = to_be_backed_tokens(r.lv)
    BY <1>1 DEF SystemVault
  <2>2. d \in Nat /\ amt <= d
    BY <1>1, <1>2, <2>1 DEF to_be_backed_tokens, SystemVault
  <2>3. c \in 0 .. k
    BY <1>3, <2>1, <2>2, ShareBounded
  <2>. QED BY <2>3
<1>5. q \in release_funds(r, <<"LiquidationVault", u>>, c)
  BY <1>3, ToFreeBalance
<1>6. /\ c <= r.lv.collateral /\ c <= r.total /\ c <= r.lv.reserved
      /\ q = [r EXCEPT !.lv.collateral = @ - c, !.lv.reserved = @ - c, !.total = @ - c]
  BY <1>5 DEF release_funds, Try
<1>7. PICK t : t \in decrease_total_backing_collateral(r, c)
  BY <1>6 DEF decrease_total_backing_collateral, Try
<1>8. t \in Registry /\ Shifted(r, t, 0 - c) /\ t = [r EXCEPT !.total = @ - c]
  BY <1>1, <1>4, <1>7, DecreaseTotalShift DEF decrease_total_backing_collateral, Try
<1>. DEFINE m == [r.lv EXCEPT !.collateral = @ - c]
            l == [m EXCEPT !.reserved = @ - c]
<1>9. /\ m \in SystemVault /\ m.issued = r.lv.issued /\ m.to_be_issued = r.lv.to_be_issued
      /\ m.to_be_redeemed = r.lv.to_be_redeemed /\ m.collateral = r.lv.collateral + (0 - c)
      /\ m.reserved = r.lv.reserved
  BY <1>1, <1>4, <1>6 DEF SystemVault
<1>10. q = [t EXCEPT !.lv = l] /\ t.lv = r.lv
  BY <1>1, <1>6, <1>8 DEF Registry, SystemVault
<1>. HIDE DEF m
<1>11. /\ l \in SystemVault /\ l.issued = r.lv.issued /\ l.to_be_issued = r.lv.to_be_issued
       /\ l.to_be_redeemed = r.lv.to_be_redeemed /\ l.collateral = r.lv.collateral + (0 - c)
  BY <1>1, <1>4, <1>6, <1>9 DEF SystemVault
<1>. HIDE DEF l
<1>12. Shifted(t, q, 0 - (0 - c)) /\ q \in Registry
  <2>1. PICK k \in Int : k = 0 - c
    BY <1>4
  <2>. QED BY <1>8, <1>10, <1>11, <2>1, SystemShift
<1>13. SameBooks(r, q)
  <2>1. PICK j \in Int, k \in Int : j = 0 - c /\ k = 0 - (0 - c)
    BY <1>4
  <2>2. Shifted(r, q, j + k)
    BY <1>1, <1>8, <1>12, <2>1, ShiftedChain
  <2>3. j + k = 0
    BY <1>4, <2>1
  <2>. QED BY <1>1, <2>2, <2>3, ShiftedZero
<1>. DEFINE n == [q.lv EXCEPT !.issued = @ - amt]
<1>14. q.lv \in SystemVault /\ q.lv.issued = r.lv.issued /\ r.lv.issued \in Nat
       /\ r.lv.to_be_redeemed \in Nat
  BY <1>1, <1>8, <1>10, <1>11 DEF Registry, SystemVault
<1>15. s = [q EXCEPT !.lv = n] /\ amt <= q.lv.issued
  BY <1>2, <1>3, <1>12, <1>14 DEF Registry
<1>16. /\ n \in SystemVault /\ n.issued - q.lv.issued = 0 - amt
       /\ n.to_be_issued - q.lv.to_be_issued = 0
       /\ n.to_be_redeemed = q.lv.to_be_redeemed /\ n.collateral = q.lv.collateral
  BY <1>14, <1>15 DEF SystemVault
<1>. HIDE DEF n
<1>17. /\ issued_tokens(s) = issued_tokens(q) + (n.issued - q.lv.issued)
       /\ to_be_issued_tokens(s) = to_be_issued_tokens(q)
                                     + (n.to_be_issued - q.lv.to_be_issued)
       /\ Redeeming(s) = Redeeming(q)
       /\ SameGriefing(q, s) /\ SameExcess(q, s)
  BY <1>12, <1>15, <1>16, CountersOfSystem
<1>. QED BY <1>1, <1>13, <1>16, <1>17 DEF SameBooks, SameTokens, SameGriefing, SameExcess

(* The collateral held for the tokens goes back into the stake.            *)
LEMMA RedepositBooks ==
    ASSUME ParamsOK, NEW r \in Registry, NEW v \in Vaults, NEW c \in Nat,
           NEW q \in decrease_liquidated_collateral(r, v, c),
           NEW s \in pool_deposit_collateral(q, v, c)
    PROVE  SameBooks(r, s)
<1>1. q \in Registry /\ Shifted(r, q, c)
  BY DecreaseLiquidatedShift
<1>4. Shifted(q, s, 0 - c)
  BY <1>1, DepositShift
<1>5. Shifted(r, s, c + (0 - c))
  BY <1>1, <1>4, ShiftedChain
<1>6. c + (0 - c) = 0
  OBVIOUS
<1>. QED BY <1>5, <1>6, ShiftedZero

LEMMA SameBooksRefl == ASSUME NEW r PROVE SameBooks(r, r)
BY DEF SameBooks, SameTokens, SameGriefing, SameExcess

(* A replace moves the tokens from the old vault to the new one: they are  *)
(* no longer to be issued by one and to be redeemed by the other.          *)
LEMMA ReplaceTokensBooks ==
    ASSUME ParamsOK, NEW r, RegistryOK(r), NEW old \in Vaults, NEW new \in Vaults,
           NEW amt \in Nat, NEW s \in replace_tokens(r, old, new, amt)
    PROVE  /\ issued_tokens(s) = issued_tokens(r)
           /\ to_be_issued_tokens(s) = to_be_issued_tokens(r) - amt
           /\ Redeeming(s) = [Redeeming(r) EXCEPT ![old] = @ - amt]
           /\ SameGriefing(r, s) /\ SameExcess(r, s)
<1>. DEFINE c == liquidated_share(r.vault[old], amt)
<1>0. r \in Registry /\ r.vault[old] \in Vault /\ issued_tokens(r) \in Nat
  BY VaultsTyped, BooksTyped DEF RegistryOK
<1>1. PICK q, t : /\ q \in IF is_liquidated(r.vault[old])
                           THEN UNION {pool_deposit_collateral(p, old, c) :
                                          p \in decrease_liquidated_collateral(r, old, c)}
                           ELSE {r}
                  /\ t \in execute_redeem_tokens(q, old, amt)
                  /\ s \in execute_issue_tokens(t, new, amt)
  BY DEF replace_tokens
<1>2. Settling(q, old, amt)
  <2>1. CASE is_liquidated(r.vault[old])
    <3>1. PICK p \in decrease_liquidated_collateral(r, old, c) :
             q \in pool_deposit_collateral(p, old, c)
      BY <1>1, <2>1
    <3>. QED BY <2>1, <3>1, RedepositSettling
  <2>2. CASE ~is_liquidated(r.vault[old])
    BY <1>1, <2>2, ActiveSettling
  <2>. QED BY <2>1, <2>2
<1>3. RegistryOK(t) /\ q \in Registry
  BY <1>1, <1>2, SettleOK DEF Settling, RegistrySound
<1>4. c \in Nat
  BY <1>0, LiquidatedShare
<1>. HIDE DEF c
<1>5. SameBooks(r, q)
  <2>1. CASE is_liquidated(r.vault[old])
    <3>1. PICK p \in decrease_liquidated_collateral(r, old, c) :
             q \in pool_deposit_collateral(p, old, c)
      BY <1>1, <2>1
    <3>. QED BY <1>0, <1>4, <3>1, RedepositBooks
  <2>2. CASE ~is_liquidated(r.vault[old])
    BY <1>1, <2>2, SameBooksRefl
  <2>. QED BY <2>1, <2>2
<1>6. /\ issued_tokens(t) = issued_tokens(q) - amt
      /\ to_be_issued_tokens(t) = to_be_issued_tokens(q)
      /\ Redeeming(t) = [Redeeming(q) EXCEPT ![old] = @ - amt]
      /\ SameGriefing(q, t) /\ SameExcess(q, t)
  BY <1>1, <1>3, ExecuteRedeemBooks
<1>7. /\ issued_tokens(s) = issued_tokens(t) + amt
      /\ to_be_issued_tokens(s) = to_be_issued_tokens(t) - amt
      /\ Redeeming(s) = Redeeming(t)
      /\ SameGriefing(t, s) /\ SameExcess(t, s)
  BY <1>1, <1>3, ExecuteIssueBooks
<1>. QED BY <1>0, <1>5, <1>6, <1>7 DEF SameBooks, SameTokens, SameGriefing, SameExcess

LEMMA CancelReplaceTokensBooks ==
    ASSUME NEW r, RegistryOK(r), NEW old \in Vaults, NEW new \in Vaults,
           NEW amt \in Nat, NEW s \in cancel_replace_tokens(r, old, new, amt)
    PROVE  /\ issued_tokens(s) = issued_tokens(r)
           /\ to_be_issued_tokens(s) = to_be_issued_tokens(r) - amt
           /\ Redeeming(s) = [Redeeming(r) EXCEPT ![old] = @ - amt]
           /\ SameGriefing(r, s) /\ SameExcess(r, s)
<1>. DEFINE c == liquidated_share(r.vault[old], amt)
<1>0. r \in Registry /\ r.vault[old] \in Vault
  BY VaultsTyped DEF RegistryOK
<1>1. PICK q, t : /\ q \in IF is_liquidated(r.vault[old])
                           THEN UNION {transfer_funds(p, <<"LiquidatedCollateral", old>>,
                                                      <<"LiquidationVault", old>>, c) :
                                          p \in decrease_liquidated_collateral(r, old, c)}
                           ELSE {r}
                  /\ t \in decrease_to_be_redeemed(q, old, amt)
                  /\ s \in decrease_to_be_issued(t, new, amt)
  BY DEF cancel_replace_tokens
<1>2. c \in Nat
  BY <1>0, LiquidatedShare
<1>3. Settling(q, old, amt) /\ SameBooks(r, q)
  <2>1. CASE is_liquidated(r.vault[old])
    <3>1. PICK p : /\ p \in decrease_liquidated_collateral(r, old, c)
                   /\ q \in transfer_funds(p, <<"LiquidatedCollateral", old>>,
                                           <<"LiquidationVault", old>>, c)
      BY <1>1, <2>1
    <3>2. Settling(q, old, amt)
      BY <3>1, ConfiscateSettling
    <3>. HIDE DEF c
    <3>. QED BY <1>0, <1>2, <3>1, <3>2, ConfiscateBooks
  <2>2. CASE ~is_liquidated(r.vault[old])
    BY <1>1, <2>2, ActiveSettling, SameBooksRefl
  <2>. QED BY <2>1, <2>2
<1>4. RegistryOK(t) /\ q \in Registry
  BY <1>1, <1>3, SettleOK DEF Settling, RegistrySound
<1>5. /\ issued_tokens(t) = issued_tokens(q)
      /\ to_be_issued_tokens(t) = to_be_issued_tokens(q)
      /\ Redeeming(t) = [Redeeming(q) EXCEPT ![old] = @ - amt]
      /\ SameGriefing(q, t) /\ SameExcess(q, t)
  BY <1>1, <1>4, DecreaseToBeRedeemedBooks
<1>6. /\ issued_tokens(s) = issued_tokens(t)
      /\ to_be_issued_tokens(s) = to_be_issued_tokens(t) - amt
      /\ Redeeming(s) = Redeeming(t)
      /\ SameGriefing(t, s) /\ SameExcess(t, s)
  BY <1>1, <1>4, DecreaseToBeIssuedBooks
<1>. QED BY <1>3, <1>5, <1>6 DEF SameBooks, SameTokens, SameGriefing, SameExcess

LEMMA WithdrawReplaceBooks ==
    ASSUME NEW r, RegistryOK(r), NEW v \in Vaults, NEW amt \in Nat,
           NEW s \in withdraw_replace_request(r, v, amt)
    PROVE  SameBooks(r, s)
<1>1. PICK q, c : /\ q = decrease_to_be_replaced_tokens(r, v, amt)
                  /\ c = used_replace_collateral(r.vault[v], amt)
                  /\ s \in transfer_funds(q, <<"AvailableReplaceCollateral", v>>,
                                          <<"FreeBalance", v>>, c)
  BY DEF withdraw_replace_request
<1>2. q \in Registry /\ SameBooks(r, q)
  BY <1>1, DecreaseToBeReplacedOK, OffersBooks DEF RegistryOK, RegistrySound
<1>3. c \in Nat
  <2>1. r.vault[v] \in Vault
    BY VaultsTyped DEF RegistryOK
  <2>. QED BY <1>1, <2>1, UsedReplace DEF Vault
<1>4. s \in release_funds(q, <<"AvailableReplaceCollateral", v>>, c)
  BY <1>1, ToFreeBalance
<1>5. SameBooks(q, s)
  BY <1>2, <1>3, <1>4, ReleaseOfferBooks
<1>. QED BY <1>2, <1>5, SameChain

-----------------------------------------------------------------------------
(* Liquidation                                                             *)

(* The tokens of the vault become those of the liquidation vault, which    *)
(* gets a copy of the to-be-redeemed ones.                                 *)
LEMMA MoveTokensBooks ==
    ASSUME NEW r \in Registry, r.lv.reserved = r.lv.collateral, NEW v \in Vaults,
           ~is_liquidated(r.vault[v]), NEW s, s = move_tokens_to_liquidation_vault(r, v)
    PROVE  SameBooks(r, s)
<1>. DEFINE x == r.vault[v]
            q == set_vault(r, v, Moved(x))
<1>1. x \in Vault /\ r.lv \in SystemVault /\ r.total \in Nat /\ r.griefing \in [Accounts -> Nat]
      /\ v \in Accounts
  BY RegistryParts DEF Accounts
<1>2. s \in Registry /\ s.vault = [r.vault EXCEPT ![v] = Moved(x)]
  BY MoveTokens
<1>3. Moved(x) \in Vault
  BY <1>1, MovedType
<1>4. q \in Registry /\ q.lv = r.lv /\ q.total = r.total /\ q.griefing = r.griefing
  BY <1>3, SetVaultType
<1>5. s = [q EXCEPT !.lv.issued = @ + x.issued,
                    !.lv.to_be_issued = @ + x.to_be_issued,
                    !.lv.to_be_redeemed = @ + x.to_be_redeemed]
  BY DEF move_tokens_to_liquidation_vault, Moved
<1>6. /\ Moved(x).issued = 0 /\ Moved(x).to_be_issued = 0
      /\ Moved(x).to_be_redeemed = x.to_be_redeemed
      /\ Offered(Moved(x)) = Offered(x)
      /\ Moved(x).active_replace_collateral = x.active_replace_collateral
      /\ Backing(Moved(x)) = Backing(x)
      /\ Copied(Moved(x)) = x.to_be_redeemed /\ Copied(x) = 0
  <2>1. Moved(x).active_replace_collateral = x.active_replace_collateral
    BY <1>1 DEF Moved, Vault
  <2>. QED BY <1>1, <2>1, MovedType DEF Offered, Backing, Copied, is_liquidated
<1>. HIDE DEF q, x
<1>7. /\ s.lv.issued = r.lv.issued + x.issued
      /\ s.lv.to_be_issued = r.lv.to_be_issued + x.to_be_issued
      /\ s.lv.to_be_redeemed = r.lv.to_be_redeemed + x.to_be_redeemed
      /\ s.lv.collateral = r.lv.collateral
      /\ s.total = r.total /\ s.griefing = r.griefing
  <2>. DEFINE a == [r.lv EXCEPT !.issued = @ + x.issued]
              b == [a EXCEPT !.to_be_issued = @ + x.to_be_issued]
              l == [b EXCEPT !.to_be_redeemed = @ + x.to_be_redeemed]
  <2>0. x.issued \in Nat /\ x.to_be_issued \in Nat /\ x.to_be_redeemed \in Nat
    BY <1>1 DEF Vault
  <2>1. s = [q EXCEPT !.lv = l]
    BY <1>1, <1>4, <1>5 DEF Registry, SystemVault
  <2>2. /\ a \in SystemVault /\ a.issued = r.lv.issued + x.issued
        /\ a.to_be_issued = r.lv.to_be_issued /\ a.to_be_redeemed = r.lv.to_be_redeemed
        /\ a.collateral = r.lv.collateral
    BY <1>1, <2>0 DEF SystemVault
  <2>. HIDE DEF a
  <2>3. /\ b \in SystemVault /\ b.issued = r.lv.issued + x.issued
        /\ b.to_be_issued = r.lv.to_be_issued + x.to_be_issued
        /\ b.to_be_redeemed = r.lv.to_be_redeemed /\ b.collateral = r.lv.collateral
    BY <2>0, <2>2 DEF SystemVault
  <2>. HIDE DEF b
  <2>4. /\ l.issued = r.lv.issued + x.issued
        /\ l.to_be_issued = r.lv.to_be_issued + x.to_be_issued
        /\ l.to_be_redeemed = r.lv.to_be_redeemed + x.to_be_redeemed
        /\ l.collateral = r.lv.collateral
    BY <2>0, <2>3 DEF SystemVault
  <2>. HIDE DEF l
  <2>5. s.lv = l /\ s.total = q.total /\ s.griefing = q.griefing
    BY <1>4, <2>1 DEF Registry
  <2>. QED BY <1>4, <2>4, <2>5
<1>8. /\ x.issued \in Nat /\ x.to_be_issued \in Nat /\ x.to_be_redeemed \in Nat
      /\ Backing(x) \in Nat /\ Offered(x) \in Nat
      /\ r.lv.issued \in Nat /\ r.lv.to_be_issued \in Nat
      /\ r.lv.to_be_redeemed \in Nat /\ r.lv.collateral \in Nat
  BY <1>1 DEF Vault, SystemVault, Backing, Offered
<1>9. /\ issued_tokens(r) \in Nat /\ to_be_issued_tokens(r) \in Nat
      /\ CollateralExcess(r) \in Int /\ CopyExcess(r) \in Int
  BY BooksTyped
<1>10. PICK w \in Vault : w = Moved(x)
  BY <1>3
<1>11. /\ issued_tokens(s) = issued_tokens(r) + (w.issued - r.vault[v].issued)
                                     + (s.lv.issued - r.lv.issued)
       /\ to_be_issued_tokens(s) = to_be_issued_tokens(r)
                                     + (w.to_be_issued - r.vault[v].to_be_issued)
                                     + (s.lv.to_be_issued - r.lv.to_be_issued)
       /\ Redeeming(s) = [Redeeming(r) EXCEPT ![v] = w.to_be_redeemed]
       /\ AcceptedGriefing(s) = [AcceptedGriefing(r) EXCEPT ![v] = w.active_replace_collateral]
  BY <1>2, <1>10, TokensOfVault
<1>12. /\ CollateralExcess(s) = CollateralExcess(r) + (s.total - r.total)
                                     - (Backing(w) - Backing(r.vault[v]))
                                     - (s.lv.collateral - r.lv.collateral)
       /\ CopyExcess(s) = CopyExcess(r) + (s.lv.to_be_redeemed - r.lv.to_be_redeemed)
                                     - (Copied(w) - Copied(r.vault[v]))
  BY <1>2, <1>10, ExcessOfVault
<1>13. issued_tokens(s) = issued_tokens(r) /\ to_be_issued_tokens(s) = to_be_issued_tokens(r)
  BY <1>6, <1>7, <1>8, <1>9, <1>10, <1>11 DEF x
<1>14. Redeeming(s) = Redeeming(r) /\ AcceptedGriefing(s) = AcceptedGriefing(r)
  <2>1. /\ Redeeming(r) = [Redeeming(r) EXCEPT ![v] = r.vault[v].to_be_redeemed]
        /\ AcceptedGriefing(r)
              = [AcceptedGriefing(r) EXCEPT ![v] = r.vault[v].active_replace_collateral]
    BY RedeemingOf
  <2>. QED BY <1>6, <1>10, <1>11, <2>1 DEF x
<1>15. CollateralExcess(s) = CollateralExcess(r)
  BY <1>1, <1>6, <1>7, <1>8, <1>9, <1>10, <1>12 DEF x
<1>16. CopyExcess(s) = CopyExcess(r)
  BY <1>6, <1>7, <1>8, <1>9, <1>10, <1>12 DEF x
<1>17. RequestGriefing(s) = RequestGriefing(r)
  <2>1. s.griefing[v] - r.griefing[v] = Offered(w) - Offered(r.vault[v])
    BY <1>1, <1>6, <1>7, <1>8, <1>10 DEF x
  <2>. QED BY <1>2, <1>7, <1>10, <2>1, GriefingOfVault
<1>. QED BY <1>13, <1>14, <1>15, <1>16, <1>17
     DEF SameBooks, SameTokens, SameGriefing, SameExcess

(* f is held for the to-be-redeemed tokens: it moves within the vault.     *)
LEMMA SlashForRedeemsBooks ==
    ASSUME ParamsOK, NEW r \in Registry, NEW v \in Vaults, NEW f \in Nat,
           f <= r.vault[v].stake, min(r.vault[v].stake, f) = f,
           NEW s \in slash_for_to_be_redeemed(r, v, f)
    PROVE  /\ s \in Registry /\ SameBooks(r, s) /\ s.lv = r.lv
           /\ s.vault[v].stake = r.vault[v].stake - f
           /\ s.vault[v].status = r.vault[v].status
<1>1. PICK w, h : w \in Vault /\ w = r.vault[v] /\ h = Held(w, f)
  BY RegistryParts
<1>2. /\ h \in Vault /\ h.stake = w.stake /\ h.status = w.status
      /\ h.issued = w.issued /\ h.to_be_issued = w.to_be_issued
      /\ h.to_be_redeemed = w.to_be_redeemed
      /\ h.replace_collateral = w.replace_collateral
      /\ h.active_replace_collateral = w.active_replace_collateral
      /\ h.liquidated_collateral = w.liquidated_collateral + f
      /\ w.stake \in Nat /\ w.liquidated_collateral \in Nat
  BY <1>1, SMTT(60) DEF Held, Vault
<1>3. PICK z \in Vault, n \in Nat :
             /\ z = [h EXCEPT !.stake = @ - f, !.reward_stake = n]
             /\ z = Slashed(h, f)
             /\ h.status # "accepting" => n = 0
  BY <1>1, <1>2, PoolSlash
<1>4. /\ s \in Registry /\ s.vault = [r.vault EXCEPT ![v] = z] /\ s.vault[v] = z
      /\ s.lv = r.lv /\ s.total = r.total /\ s.griefing = r.griefing
  BY <1>1, <1>3, SlashForRedeems
<1>5. /\ z.stake = w.stake - f /\ z.status = w.status
      /\ z.issued = w.issued /\ z.to_be_issued = w.to_be_issued
      /\ z.to_be_redeemed = w.to_be_redeemed
      /\ z.replace_collateral = w.replace_collateral
      /\ z.active_replace_collateral = w.active_replace_collateral
      /\ z.liquidated_collateral = w.liquidated_collateral + f
  BY <1>2, <1>3 DEF Vault
<1>6. Backing(z) = Backing(w) /\ Copied(z) = Copied(w)
  BY <1>2, <1>5 DEF Backing, Copied, is_liquidated
<1>7. SameBooks(r, set_vault(r, v, z))
  BY <1>1, <1>5, <1>6, QuietChange
<1>8. SameParts(set_vault(r, v, z), s)
  BY <1>4, SetVaultType DEF SameParts
<1>9. SameBooks(r, s)
  BY <1>7, <1>8, SamePartsBooks, SameChain
<1>. QED BY <1>1, <1>4, <1>5, <1>9

(* e goes from the stake to the liquidation vault.                         *)
LEMMA SlashToLiquidationBooks ==
    ASSUME ParamsOK, NEW r \in Registry, r.lv.reserved = r.lv.collateral,
           NEW v \in Vaults, NEW e \in Nat,
           e <= r.vault[v].stake, NEW s \in slash_to_liquidation_vault(r, v, e)
    PROVE  /\ SameBooks(r, s)
           /\ s \in Registry /\ s.lv.reserved = s.lv.collateral
           /\ s.vault[v].status = r.vault[v].status
<1>1. PICK x \in Vault : x = r.vault[v]
  BY RegistryParts
<1>2. x.stake \in Nat
  BY DEF Vault
<1>3. min(e, x.stake) = e /\ e - e = 0
  BY <1>1, <1>2 DEF min
<1>4. PICK y, q : /\ y \in pool_withdraw_collateral(r, v, e)
                  /\ q \in pool_slash_collateral(y, v, 0)
                  /\ s \in transfer_funds(q, <<"LiquidatedCollateral", v>>,
                                          <<"LiquidationVault", v>>, e)
  BY <1>1, <1>3 DEF slash_to_liquidation_vault
<1>5. /\ y \in Registry /\ Shifted(r, y, e) /\ y.lv = r.lv
      /\ y.vault[v].stake = x.stake - e /\ y.vault[v].status = x.status
  <2>1. y \in pool_slash_collateral(r, v, e)
    BY <1>4, Withdraws
  <2>. QED BY <1>1, <2>1, SlashShift
<1>6. 0 \in Nat /\ 0 <= y.vault[v].stake
  BY <1>1, <1>2, <1>5
<1>7. /\ q \in Registry /\ Shifted(y, q, 0) /\ q.lv = y.lv
      /\ q.vault[v].status = y.vault[v].status
  BY <1>4, <1>5, <1>6, SlashShift
<1>8. PICK u \in Vault : u = q.vault[v]
  BY <1>7, RegistryParts
<1>11. q \in Registry /\ q.lv = r.lv /\ q.vault[v] = u /\ u.status = x.status
  BY <1>5, <1>7, <1>8
<1>12. s \in transfer_funds(q, <<"LiquidatedCollateral", v>>, <<"LiquidationVault", v>>, e)
  BY <1>4
<1>13. Shifted(q, s, 0 - e)
  BY <1>11, <1>12, TransferLiquidatedShift
<1>14. SameBooks(r, s)
  <2>1. PICK k \in Int : k = 0 - e /\ (e + 0) + k = 0
    OBVIOUS
  <2>2. Shifted(r, q, e + 0)
    BY <1>5, <1>7, ShiftedChain
  <2>3. Shifted(r, s, (e + 0) + k)
    BY <1>13, <2>1, <2>2, ShiftedChain
  <2>. QED BY <2>1, <2>3, ShiftedZero
<1>15. /\ Unlocked(q.vault[v], e) \in Vault /\ s \in Registry
       /\ s.vault = [q.vault EXCEPT ![v] = Unlocked(q.vault[v], e)]
       /\ s.lv.reserved = s.lv.collateral
  BY <1>11, <1>12, ToLiquidationVault
<1>16. s.vault[v] = Unlocked(u, e)
  BY <1>11, <1>15, RegistryParts
<1>17. Unlocked(u, e).status = u.status
  BY DEF Unlocked, Vault
<1>. QED BY <1>1, <1>11, <1>14, <1>15, <1>16, <1>17

(* Liquidation moves tokens and collateral, and loses nothing.             *)
LEMMA LiquidateVaultBooks ==
    ASSUME ParamsOK, NEW r, RegistryOK(r), NEW v \in Vaults, NEW s \in liquidate_vault(r, v)
    PROVE  SameBooks(r, s)
<1>. DEFINE w == r.vault[v]
            b == backed_tokens(w)
            l == get_used_collateral(w, params.liquidation)
            taken == calculate_collateral(l, b - w.to_be_redeemed, b)
<1>1. w \in Vault /\ w.to_be_replaced \in Nat
  BY VaultsTyped DEF RegistryOK, Vault
<1>2. is_active(w) /\ w.to_be_redeemed <= b
  BY DEF liquidate_vault
<1>3. PICK e, f : e = taken /\ f = saturating_sub(l, taken)
  OBVIOUS
<1>4. l \in Nat /\ l <= w.stake /\ e \in Nat /\ e <= l /\ f = l - e
  BY <1>1, <1>2, <1>3, LiquidatedParts
<1>5. PICK r1, r2, r3 : /\ r1 \in withdraw_replace_request(r, v, w.to_be_replaced)
                        /\ r2 \in slash_for_to_be_redeemed(r1, v, f)
                        /\ r3 \in slash_to_liquidation_vault(r2, v, e)
                        /\ s \in leave_capacity(move_tokens_to_liquidation_vault(r3, v),
                                                w.status = "accepting")
  BY <1>3 DEF liquidate_vault
<1>. HIDE DEF l, b
<1>6. RegistryOK(r1) /\ r1.vault[v].status = w.status /\ r1.vault[v].stake = w.stake
      /\ SameBooks(r, r1)
  BY <1>1, <1>5, WithdrawReplaceOK, WithdrawReplaceBooks
<1>7. r1 \in Registry /\ r1.lv.reserved = r1.lv.collateral
  BY <1>6 DEF RegistryOK, RegistrySound
<1>8. /\ f \in Nat /\ f <= r1.vault[v].stake /\ e <= r1.vault[v].stake - f
      /\ min(r1.vault[v].stake, f) = f
  BY <1>1, <1>4, <1>6 DEF min, Vault
<1>. HIDE DEF w
<1>10. /\ r2 \in Registry /\ SameBooks(r1, r2) /\ r2.lv = r1.lv
       /\ r2.vault[v].stake = r1.vault[v].stake - f
       /\ r2.vault[v].status = r1.vault[v].status
  BY <1>5, <1>7, <1>8, SlashForRedeemsBooks
<1>12. /\ SameBooks(r2, r3) /\ r3 \in Registry /\ r3.lv.reserved = r3.lv.collateral
       /\ r3.vault[v].status = r2.vault[v].status
  BY <1>4, <1>5, <1>7, <1>8, <1>10, SlashToLiquidationBooks
<1>13. ~is_liquidated(r3.vault[v])
  BY <1>2, <1>6, <1>10, <1>12 DEF is_liquidated, is_active
<1>14. SameBooks(r3, s)
  <2>1. PICK m : m = move_tokens_to_liquidation_vault(r3, v)
    OBVIOUS
  <2>2. SameBooks(r3, m) /\ m \in Registry
    BY <1>12, <1>13, <2>1, MoveTokensBooks, MoveTokens
  <2>3. SameParts(m, s)
    BY <1>5, <2>1, <2>2, CapacityLeft
  <2>. QED BY <2>2, <2>3, SamePartsBooks, SameChain
<1>15. SameBooks(r, r2) /\ SameBooks(r2, s)
  BY <1>6, <1>10, <1>12, <1>14, SameChain
<1>. QED BY <1>15, SameChain

-----------------------------------------------------------------------------
(* The registry's own extrinsics                                           *)

(* A vault that is registered held nothing: not even collateral for        *)
(* replace requests it accepted.                                           *)
LEMMA RegisterBooks ==
    ASSUME ParamsOK, NEW r, RegistryOK(r), NEW v \in Vaults, NEW c \in Nat,
           r.vault[v].status = "none",
           NEW s \in try_deposit_collateral(
                         set_vault(r, v, [NoVault EXCEPT !.status = "accepting"]), v, c)
    PROVE  SameBooks(r, s)
<1>1. PICK w \in Vault : w = r.vault[v] /\ Ordered(w) /\ w.status = "none" /\ r \in Registry
  BY VaultsTyped DEF RegistryOK
<1>2. /\ w.issued = 0 /\ w.to_be_issued = 0 /\ w.to_be_redeemed = 0
      /\ w.replace_collateral = 0 /\ w.active_replace_collateral = 0
      /\ w.stake = 0 /\ w.liquidated_collateral = 0
  BY <1>1 DEF Ordered, is_liquidated, Vault
<1>3. PICK x : x = [NoVault EXCEPT !.status = "accepting"]
  OBVIOUS
<1>4. /\ x \in Vault /\ x.issued = 0 /\ x.to_be_issued = 0 /\ x.to_be_redeemed = 0
      /\ x.replace_collateral = 0 /\ x.active_replace_collateral = 0
      /\ x.stake = 0 /\ x.liquidated_collateral = 0 /\ x.status = "accepting"
  BY <1>3 DEF NoVault, Vault, VaultStatus
<1>5. Backing(x) = Backing(w) /\ Copied(x) = Copied(w)
  BY <1>1, <1>2, <1>4 DEF Backing, Copied, is_liquidated
<1>6. PICK q : q = set_vault(r, v, x)
  OBVIOUS
<1>7. SameBooks(r, q) /\ q \in Registry
  BY <1>1, <1>2, <1>4, <1>5, <1>6, QuietChange, SetVaultType
<1>8. SameBooks(q, s)
  BY <1>3, <1>6, <1>7, TryDepositBooks
<1>. QED BY <1>7, <1>8, SameChain

(* A change of status, of the custom threshold or of the ban; the reward   *)
(* stake follows.                                                          *)
LEMMA UpdateBooks ==
    ASSUME ParamsOK, NEW r \in Registry, NEW v \in Vaults, NEW x \in Vault,
           x.issued = r.vault[v].issued, x.to_be_issued = r.vault[v].to_be_issued,
           x.to_be_redeemed = r.vault[v].to_be_redeemed,
           x.replace_collateral = r.vault[v].replace_collateral,
           x.active_replace_collateral = r.vault[v].active_replace_collateral,
           Backing(x) = Backing(r.vault[v]), Copied(x) = Copied(r.vault[v]),
           NEW s \in update_pools(r, v, x)
    PROVE  SameBooks(r, s)
<1>1. PICK n \in Nat : update_reward_stake(x) = [x EXCEPT !.reward_stake = n]
  BY UpdateRewardStake
<1>2. PICK y : y = [x EXCEPT !.reward_stake = n]
  OBVIOUS
<1>3. /\ y \in Vault /\ y.issued = x.issued /\ y.to_be_issued = x.to_be_issued
      /\ y.to_be_redeemed = x.to_be_redeemed
      /\ y.replace_collateral = x.replace_collateral
      /\ y.active_replace_collateral = x.active_replace_collateral
      /\ Backing(y) = Backing(x) /\ Copied(y) = Copied(x)
  BY <1>2 DEF Vault, Backing, Copied, is_liquidated
<1>4. SameBooks(r, set_vault(r, v, y))
  BY <1>3, QuietChange
<1>5. PICK q : SameParts(r, q) /\ s = set_vault(q, v, y)
  BY <1>1, <1>2, PoolsUpdated
<1>6. SameParts(set_vault(r, v, y), s)
  <2>1. /\ q \in Registry /\ q.vault = r.vault /\ q.lv = r.lv
        /\ q.total = r.total /\ q.griefing = r.griefing
    BY <1>5 DEF SameParts
  <2>2. /\ s \in Registry /\ s.vault = [q.vault EXCEPT ![v] = y] /\ s.lv = q.lv
        /\ s.total = q.total /\ s.griefing = q.griefing
    BY <1>3, <1>5, <2>1, SetVaultType
  <2>3. PICK u : u = set_vault(r, v, y)
    OBVIOUS
  <2>4. /\ u \in Registry /\ u.vault = [r.vault EXCEPT ![v] = y] /\ u.lv = r.lv
        /\ u.total = r.total /\ u.griefing = r.griefing
    BY <1>3, <2>3, SetVaultType
  <2>5. SameParts(u, s)
    BY <2>1, <2>2, <2>4 DEF SameParts
  <2>. QED BY <2>3, <2>5
<1>. QED BY <1>4, <1>6, SamePartsBooks, SameChain

LEMMA UpdateVaultBooks ==
    ASSUME RegistryInv, NEW v \in Vaults,
           \/ \E b \in BOOLEAN : accept_new_issues(v, b)
           \/ \E t \in CustomThresholds : set_custom_secure_threshold(v, t)
           \/ recover_vault_id(v)
           \/ ban_expires(v)
    PROVE  SameBooks(registry, registry')
<1>1. PICK r, s : r = registry /\ s = registry'
  OBVIOUS
<1>2. PICK w \in Vault : w = r.vault[v] /\ r \in Registry /\ ParamsOK /\ Sound(w)
  BY <1>1, VaultsTyped DEF RegistryInv, RegistryOK, RegistrySound, Sound
<1>3. ASSUME NEW b \in BOOLEAN, accept_new_issues(v, b) PROVE SameBooks(r, s)
  <2>1. PICK st : st = IF b THEN "accepting" ELSE "paused"
    OBVIOUS
  <2>2. is_active(w) /\ s \in update_pools(r, v, [w EXCEPT !.status = st])
    BY <1>1, <1>2, <1>3, <2>1 DEF accept_new_issues
  <2>3. PICK x : x = [w EXCEPT !.status = st]
    OBVIOUS
  <2>4. /\ x \in Vault /\ x.issued = w.issued /\ x.to_be_issued = w.to_be_issued
        /\ x.to_be_redeemed = w.to_be_redeemed
        /\ x.replace_collateral = w.replace_collateral
        /\ x.active_replace_collateral = w.active_replace_collateral
        /\ Backing(x) = Backing(w) /\ Copied(x) = Copied(w)
    BY <2>1, <2>2, <2>3 DEF Vault, VaultStatus, Backing, Copied, is_liquidated, is_active
  <2>5. s \in update_pools(r, v, x)
    BY <2>2, <2>3
  <2>. QED BY <1>2, <2>4, <2>5, UpdateBooks
<1>4. ASSUME NEW t \in CustomThresholds, set_custom_secure_threshold(v, t)
      PROVE  SameBooks(r, s)
  <2>1. PICK x : x = [w EXCEPT !.secure_collateral_threshold = t]
    OBVIOUS
  <2>2. s \in update_pools(r, v, x) /\ t \in Nat
    BY <1>1, <1>2, <1>4, <2>1, RegistryAssumption DEF set_custom_secure_threshold
  <2>3. /\ x \in Vault /\ x.issued = w.issued /\ x.to_be_issued = w.to_be_issued
        /\ x.to_be_redeemed = w.to_be_redeemed
        /\ x.replace_collateral = w.replace_collateral
        /\ x.active_replace_collateral = w.active_replace_collateral
        /\ Backing(x) = Backing(w) /\ Copied(x) = Copied(w)
    BY <2>1, <2>2 DEF Vault, Backing, Copied, is_liquidated
  <2>. QED BY <1>2, <2>2, <2>3, UpdateBooks
<1>5. ASSUME recover_vault_id(v) PROVE SameBooks(r, s)
  <2>1. PICK x : x = [w EXCEPT !.status = "accepting"]
    OBVIOUS
  <2>2. s = set_vault(r, v, x) /\ w.to_be_redeemed = 0
    BY <1>1, <1>2, <1>5, <2>1 DEF recover_vault_id
  <2>3. /\ x \in Vault /\ x.issued = w.issued /\ x.to_be_issued = w.to_be_issued
        /\ x.to_be_redeemed = w.to_be_redeemed
        /\ x.replace_collateral = w.replace_collateral
        /\ x.active_replace_collateral = w.active_replace_collateral
        /\ Backing(x) = Backing(w) /\ Copied(x) = Copied(w)
    BY <2>1, <2>2 DEF Vault, VaultStatus, Backing, Copied, is_liquidated
  <2>4. SameBooks(r, set_vault(r, v, x))
    BY <1>2, <2>3, QuietChange
  <2>. QED BY <2>2, <2>4
<1>6. ASSUME ban_expires(v) PROVE SameBooks(r, s)
  <2>1. s = set_vault(r, v, [r.vault[v] EXCEPT !.banned = FALSE])
    BY <1>1, <1>2, <1>6 DEF ban_expires, set_vault, Registry
  <2>2. FALSE \in BOOLEAN /\ 0 \in Nat
    OBVIOUS
  <2>3. SameBooks(r, set_vault(r, v, [r.vault[v] EXCEPT !.banned = FALSE]))
    BY <1>2, <2>2, QuietCounters
  <2>. QED BY <2>1, <2>3
<1>. QED BY <1>1, <1>3, <1>4, <1>5, <1>6

(* No extrinsic of the registry alone changes the books: a new price, a    *)
(* new parameter, a deposit, a withdrawal and a liquidation included.      *)
LEMMA RegistryNextBooks ==
    ASSUME RegistryInv, RegistryNext
    PROVE  SameBooks(registry, registry')
<1>1. RegistryOK(registry) /\ ParamsOK /\ registry \in Registry
  BY DEF RegistryInv, RegistryOK, RegistrySound
<1>2. PICK r, s : r = registry /\ s = registry'
  OBVIOUS
<1>3. ASSUME NEW v \in Vaults, NEW c \in CollateralAmounts \cup {registry.vault[v].stake},
             \/ register_vault(v, c)
             \/ deposit_collateral(v, c)
             \/ withdraw_collateral(v, c)
      PROVE  SameBooks(r, s)
  <2>1. c \in Nat /\ r.vault[v] \in Vault /\ r.vault[v].status \in VaultStatus
    BY <1>1, <1>2, VaultsTyped, RegistryAssumption DEF RegistryOK, Vault
  <2>2. CASE register_vault(v, c)
    <3>1. /\ r.vault[v].status = "none"
          /\ s \in try_deposit_collateral(
                       set_vault(r, v, [NoVault EXCEPT !.status = "accepting"]), v, c)
      BY <1>2, <2>2 DEF register_vault, vault_exists
    <3>. QED BY <1>1, <1>2, <2>1, <3>1, RegisterBooks
  <2>3. CASE deposit_collateral(v, c)
    <3>1. s \in try_deposit_collateral(r, v, c)
      BY <1>2, <2>3 DEF deposit_collateral
    <3>. QED BY <1>1, <1>2, <2>1, <3>1, TryDepositBooks
  <2>4. CASE withdraw_collateral(v, c)
    <3>1. s \in force_withdraw_collateral(r, v, c)
      BY <1>2, <2>4 DEF withdraw_collateral
    <3>. QED BY <1>1, <1>2, <2>1, <3>1, ForceWithdrawBooks
  <2>. QED BY <1>3, <2>2, <2>3, <2>4
<1>4. ASSUME NEW v \in Vaults, report_undercollateralized_vault(v) PROVE SameBooks(r, s)
  <2>1. s \in liquidate_vault(r, v)
    BY <1>2, <1>4 DEF report_undercollateralized_vault
  <2>. QED BY <1>1, <1>2, <2>1, LiquidateVaultBooks
<1>5. ASSUME NEW v \in Vaults,
             \/ \E b \in BOOLEAN : accept_new_issues(v, b)
             \/ \E t \in CustomThresholds : set_custom_secure_threshold(v, t)
             \/ recover_vault_id(v)
             \/ ban_expires(v)
      PROVE  SameBooks(r, s)
  BY <1>2, <1>5, UpdateVaultBooks
<1>6. ASSUME set_parameters PROVE SameBooks(r, s)
  <2>1. s = r
    BY <1>2, <1>6 DEF set_parameters
  <2>. QED BY <2>1, SameBooksRefl
<1>7. ASSUME (\E rate \in Rates : feed_values(rate)) \/ distribute_block_reward
      PROVE  SameBooks(r, s)
  BY <1>1, <1>2, <1>7, CapacityMoves, SamePartsBooks
<1>. QED BY <1>2, <1>3, <1>4, <1>5, <1>6, <1>7 DEF RegistryNext

-----------------------------------------------------------------------------
(* Claims: the sum of the amounts f over the members of P, by key k        *)

Claims(f, k, P, A) == [a \in A |-> Total(f, {i \in P : k[i] = a})]

(* n more, or n less, at a.                                                *)
Credited(f, a, n) == [f EXCEPT ![a] = @ + n]
Debited(f, a, n) == [f EXCEPT ![a] = @ - n]

(* Two amounts, or two keys, that agree on P.                              *)
Agree(f, g, P) == \A i \in P : f[i] \in Nat /\ g[i] = f[i]
SameKeys(k, h, P) == \A i \in P : h[i] = k[i]

LEMMA AgreePart ==
    ASSUME NEW P, NEW Q, Q \subseteq P, NEW f, NEW g
    PROVE  (Agree(f, g, P) => Agree(f, g, Q)) /\ (SameKeys(f, g, P) => SameKeys(f, g, Q))
BY DEF Agree, SameKeys

(* Q has one element more than P, n.                                       *)
Extended(P, Q, n) == n \notin P /\ Q = P \cup {n}

LEMMA SumInsert ==
    ASSUME NEW P, IsFiniteSet(P), NEW Q, NEW n, Extended(P, Q, n),
           NEW f, NEW g, Agree(f, g, P), g[n] \in Nat
    PROVE  Total(g, Q) = Total(f, P) + g[n]
<1>1. n \in Q /\ P = Q \ {n} /\ IsFiniteSet(Q)
  BY FS_AddElement DEF Extended
<1>2. /\ \A i \in Q \ {n} : g[i] \in Nat /\ f[i] = g[i]
      /\ \A i \in Q : g[i] \in Nat
  BY <1>1 DEF Agree
<1>3. Total(f, Q \ {n}) = Total(g, Q) - g[n]
  BY <1>1, <1>2, TotalRemove
<1>4. Total(g, Q) \in Nat
  BY <1>1, <1>2, TotalNat
<1>5. Total(f, P) = Total(g, Q) - g[n]
  BY <1>1, <1>3, Zenon
<1>. QED BY <1>4, <1>5

LEMMA SumRemove ==
    ASSUME NEW P, NEW Q, IsFiniteSet(Q), NEW n, Extended(P, Q, n),
           NEW f, NEW g, Agree(f, g, P), f[n] \in Nat
    PROVE  Total(g, P) = Total(f, Q) - f[n]
<1>1. n \in Q /\ P = Q \ {n}
  BY DEF Extended
<1>2. \A i \in Q \ {n} : f[i] \in Nat /\ g[i] = f[i]
  BY <1>1 DEF Agree
<1>3. Total(g, Q \ {n}) = Total(f, Q) - f[n]
  BY <1>1, <1>2, TotalRemove
<1>. QED BY <1>1, <1>3, Zenon

LEMMA ClaimsTyped ==
    ASSUME NEW A, NEW P, IsFiniteSet(P), NEW f, NEW k, \A i \in P : f[i] \in Nat
    PROVE  Claims(f, k, P, A) \in [A -> Nat]
<1>1. ASSUME NEW a \in A PROVE Total(f, {i \in P : k[i] = a}) \in Nat
  <2>. DEFINE Q == {i \in P : k[i] = a}
  <2>1. IsFiniteSet(Q) /\ \A i \in Q : f[i] \in Nat
    BY FS_Subset
  <2>. HIDE DEF Q
  <2>2. Total(f, Q) \in Nat
    BY <2>1, TotalNat
  <2>. QED BY <2>2 DEF Q
<1>. QED BY <1>1 DEF Claims

LEMMA ClaimsInsert ==
    ASSUME NEW A, NEW P, IsFiniteSet(P), NEW Q, NEW n, Extended(P, Q, n),
           NEW f, NEW g, NEW k, NEW h,
           Agree(f, g, P), SameKeys(k, h, P), g[n] \in Nat, h[n] \in A
    PROVE  Claims(g, h, Q, A) = Credited(Claims(f, k, P, A), h[n], g[n])
<1>0. /\ n \notin P /\ Q = P \cup {n}
      /\ \A i \in P : f[i] \in Nat /\ g[i] = f[i] /\ h[i] = k[i]
  BY DEF Agree, SameKeys, Extended
<1>1. ASSUME NEW a \in A
      PROVE  Total(g, {i \in Q : h[i] = a})
                = IF a = h[n] THEN Total(f, {i \in P : k[i] = a}) + g[n]
                  ELSE Total(f, {i \in P : k[i] = a})
  <2>1. PICK R, T : R = {i \in P : k[i] = a} /\ T = {i \in Q : h[i] = a}
    OBVIOUS
  <2>2. IsFiniteSet(R) /\ Agree(f, g, R)
    BY <1>0, <2>1, FS_Subset DEF Agree
  <2>3. CASE a = h[n]
    <3>1. Extended(R, T, n)
      BY <1>0, <2>1, <2>3 DEF Extended
    <3>2. Total(g, T) = Total(f, R) + g[n]
      BY <2>2, <3>1, SumInsert
    <3>. QED BY <2>1, <2>3, <3>2
  <2>4. CASE a # h[n]
    <3>1. T = R
      BY <1>0, <2>1, <2>4
    <3>2. Total(g, R) = Total(f, R)
      BY <2>2, TotalEqual DEF Agree
    <3>. QED BY <2>1, <2>4, <3>1, <3>2
  <2>. QED BY <2>3, <2>4
<1>. DEFINE F == [a \in A |-> Total(f, {i \in P : k[i] = a})]
            G == [a \in A |-> Total(g, {i \in Q : h[i] = a})]
<1>2. \A a \in A : G[a] = IF a = h[n] THEN F[a] + g[n] ELSE F[a]
  BY <1>1
<1>3. DOMAIN F = A /\ DOMAIN G = A /\ G = [a \in A |-> G[a]] /\ F = [a \in A |-> F[a]]
  OBVIOUS
<1>. HIDE DEF F, G
<1>4. G = [F EXCEPT ![h[n]] = @ + g[n]]
  BY <1>2, <1>3
<1>. QED BY <1>4 DEF F, G, Claims, Credited

LEMMA ClaimsRemove ==
    ASSUME NEW A, NEW P, NEW Q, IsFiniteSet(Q), NEW n, Extended(P, Q, n),
           NEW f, NEW g, NEW k, NEW h,
           Agree(f, g, P), SameKeys(k, h, P), f[n] \in Nat, k[n] \in A
    PROVE  Claims(g, h, P, A) = Debited(Claims(f, k, Q, A), k[n], f[n])
<1>0. /\ n \notin P /\ Q = P \cup {n}
      /\ \A i \in P : f[i] \in Nat /\ g[i] = f[i] /\ h[i] = k[i]
  BY DEF Agree, SameKeys, Extended
<1>1. ASSUME NEW a \in A
      PROVE  Total(g, {i \in P : h[i] = a})
                = IF a = k[n] THEN Total(f, {i \in Q : k[i] = a}) - f[n]
                  ELSE Total(f, {i \in Q : k[i] = a})
  <2>1. PICK R, T : R = {i \in P : h[i] = a} /\ T = {i \in Q : k[i] = a}
    OBVIOUS
  <2>2. IsFiniteSet(T) /\ Agree(f, g, R)
    BY <1>0, <2>1, FS_Subset DEF Agree
  <2>3. CASE a = k[n]
    <3>1. Extended(R, T, n)
      BY <1>0, <2>1, <2>3 DEF Extended
    <3>2. Total(g, R) = Total(f, T) - f[n]
      BY <2>2, <3>1, SumRemove
    <3>. QED BY <2>1, <2>3, <3>2
  <2>4. CASE a # k[n]
    <3>1. T = R
      BY <1>0, <2>1, <2>4
    <3>2. Total(g, R) = Total(f, R)
      BY <2>2, TotalEqual DEF Agree
    <3>. QED BY <2>1, <2>4, <3>1, <3>2
  <2>. QED BY <2>3, <2>4
<1>. DEFINE F == [a \in A |-> Total(f, {i \in Q : k[i] = a})]
            G == [a \in A |-> Total(g, {i \in P : h[i] = a})]
<1>2. \A a \in A : G[a] = IF a = k[n] THEN F[a] - f[n] ELSE F[a]
  BY <1>1
<1>3. DOMAIN F = A /\ DOMAIN G = A /\ G = [a \in A |-> G[a]] /\ F = [a \in A |-> F[a]]
  OBVIOUS
<1>. HIDE DEF F, G
<1>4. G = [F EXCEPT ![k[n]] = @ - f[n]]
  BY <1>2, <1>3
<1>. QED BY <1>4 DEF F, G, Claims, Debited

LEMMA ClaimsSame ==
    ASSUME NEW A, NEW P, NEW f, NEW g, NEW k, NEW h,
           \A i \in P : g[i] = f[i] /\ h[i] = k[i]
    PROVE  Claims(g, h, P, A) = Claims(f, k, P, A)
<1>1. ASSUME NEW a \in A
      PROVE  Total(g, {i \in P : h[i] = a}) = Total(f, {i \in P : k[i] = a})
  <2>. DEFINE Q == {i \in P : k[i] = a}
  <2>1. Q = {i \in P : h[i] = a} /\ \A i \in Q : g[i] = f[i]
    OBVIOUS
  <2>2. Q = {i \in P : k[i] = a}
    OBVIOUS
  <2>. HIDE DEF Q
  <2>3. Total(g, Q) = Total(f, Q)
    BY <2>1, TotalEqual
  <2>. QED BY <2>1, <2>2, <2>3
<1>. QED BY <1>1 DEF Claims

-----------------------------------------------------------------------------
(* Requests are opened, closed, or change without either                   *)

LEMMA PendingFinite ==
    ASSUME NEW S, NEW q \in Seq(S)
    PROVE  IsFiniteSet(Pending(q)) /\ Pending(q) \subseteq DOMAIN q
<1>1. DOMAIN q = 1 .. Len(q) /\ Len(q) \in Nat
  BY LenProperties
<1>2. IsFiniteSet(DOMAIN q)
  BY <1>1, FS_Interval
<1>3. Pending(q) \subseteq DOMAIN q
  BY DEF Pending
<1>. QED BY <1>2, <1>3, FS_Subset

(* p has one request more than q, n, a pending one; request i of q is no   *)
(* longer pending in p; as many requests are pending as before.            *)
Opens(q, p, n) ==
    /\ n \notin DOMAIN q /\ DOMAIN p = DOMAIN q \cup {n}
    /\ \A i \in DOMAIN q : p[i] = q[i]
    /\ Extended(Pending(q), Pending(p), n)

Closes(q, p, i) ==
    /\ Extended(Pending(p), Pending(q), i)
    /\ DOMAIN p = DOMAIN q /\ \A j \in DOMAIN q : j # i => p[j] = q[j]

Keeps(q, p, i) ==
    /\ Pending(p) = Pending(q)
    /\ DOMAIN p = DOMAIN q /\ \A j \in DOMAIN q : j # i => p[j] = q[j]

LEMMA RequestCloses ==
    ASSUME NEW q, NEW i \in DOMAIN q, NEW x,
           q[i].status = "Pending", x.status # "Pending",
           NEW p, p = [q EXCEPT ![i] = x]
    PROVE  Closes(q, p, i) /\ p[i] = x
<1>1. DOMAIN p = DOMAIN q /\ p[i] = x /\ \A j \in DOMAIN q : j # i => p[j] = q[j]
  OBVIOUS
<1>. QED BY <1>1 DEF Pending, Closes, Extended

LEMMA RequestKeeps ==
    ASSUME NEW q, NEW i \in DOMAIN q, NEW x,
           q[i].status = "Pending" <=> x.status = "Pending",
           NEW p, p = [q EXCEPT ![i] = x]
    PROVE  Keeps(q, p, i) /\ p[i] = x
<1>1. DOMAIN p = DOMAIN q /\ p[i] = x /\ \A j \in DOMAIN q : j # i => p[j] = q[j]
  OBVIOUS
<1>. QED BY <1>1 DEF Pending, Keeps

(* What that does to the sums of an amount f, or g, of the pending requests *)
(* and to its claims by the key k, or h.                                   *)
LEMMA SumOpened ==
    ASSUME NEW S, NEW q \in Seq(S), NEW p, NEW n, Opens(q, p, n), NEW f, NEW g,
           Agree(f, g, DOMAIN q), g[n] \in Nat
    PROVE  Total(g, Pending(p)) = Total(f, Pending(q)) + g[n]
<1>1. IsFiniteSet(Pending(q)) /\ Agree(f, g, Pending(q))
  BY PendingFinite, AgreePart
<1>2. Extended(Pending(q), Pending(p), n)
  BY DEF Opens
<1>. QED BY <1>1, <1>2, SumInsert

LEMMA ClaimsOpened ==
    ASSUME NEW S, NEW q \in Seq(S), NEW p, NEW n, Opens(q, p, n),
           NEW f, NEW g, NEW k, NEW h, NEW A,
           Agree(f, g, DOMAIN q), SameKeys(k, h, DOMAIN q), g[n] \in Nat, h[n] \in A
    PROVE  Claims(g, h, Pending(p), A) = Credited(Claims(f, k, Pending(q), A), h[n], g[n])
<1>1. IsFiniteSet(Pending(q)) /\ Agree(f, g, Pending(q)) /\ SameKeys(k, h, Pending(q))
  BY PendingFinite, AgreePart
<1>2. Extended(Pending(q), Pending(p), n)
  BY DEF Opens
<1>. QED BY <1>1, <1>2, ClaimsInsert

LEMMA SumClosed ==
    ASSUME NEW S, NEW q \in Seq(S), NEW p, NEW i, Closes(q, p, i), NEW f, NEW g,
           Agree(f, g, Pending(p)), f[i] \in Nat
    PROVE  Total(g, Pending(p)) = Total(f, Pending(q)) - f[i]
<1>1. IsFiniteSet(Pending(q))
  BY PendingFinite
<1>2. Extended(Pending(p), Pending(q), i)
  BY DEF Closes
<1>. QED BY <1>1, <1>2, SumRemove

LEMMA ClaimsClosed ==
    ASSUME NEW S, NEW q \in Seq(S), NEW p, NEW i, Closes(q, p, i),
           NEW f, NEW g, NEW k, NEW h, NEW A,
           Agree(f, g, Pending(p)), SameKeys(k, h, Pending(p)),
           f[i] \in Nat, k[i] \in A
    PROVE  Claims(g, h, Pending(p), A) = Debited(Claims(f, k, Pending(q), A), k[i], f[i])
<1>1. IsFiniteSet(Pending(q))
  BY PendingFinite
<1>2. Extended(Pending(p), Pending(q), i)
  BY DEF Closes
<1>. QED BY <1>1, <1>2, ClaimsRemove

-----------------------------------------------------------------------------
(* Issue requests                                                          *)

IssueClaims(q) == Total(issue_totals(q), Pending(q))

IssueDeposits(q) ==
    Claims(Field(q, "griefing_collateral"), Field(q, "requester"), Pending(q), Accounts)

LEMMA IssueFields ==
    ASSUME NEW q \in Seq(IssueRequest), NEW i \in DOMAIN q
    PROVE  /\ issue_totals(q)[i] = q[i].amount + q[i].fee
           /\ Field(q, "griefing_collateral")[i] = q[i].griefing_collateral
           /\ Field(q, "requester")[i] = q[i].requester
           /\ q[i].amount + q[i].fee \in Nat /\ q[i].griefing_collateral \in Nat
           /\ q[i].requester \in Accounts
<1>1. q[i] \in IssueRequest
  BY RequestChanged
<1>. QED BY <1>1 DEF issue_totals, Field, IssueRequest

LEMMA IssueClaimsTyped ==
    ASSUME NEW q \in Seq(IssueRequest)
    PROVE  IssueClaims(q) \in Nat /\ IssueDeposits(q) \in [Accounts -> Nat]
<1>1. IsFiniteSet(Pending(q)) /\ Pending(q) \subseteq DOMAIN q
  BY PendingFinite
<1>2. \A i \in Pending(q) : /\ issue_totals(q)[i] \in Nat
                            /\ Field(q, "griefing_collateral")[i] \in Nat
  BY <1>1, IssueFields
<1>. QED BY <1>1, <1>2, TotalNat, ClaimsTyped DEF IssueClaims, IssueDeposits

LEMMA IssueOpened ==
    ASSUME NEW q \in Seq(IssueRequest), NEW p \in Seq(IssueRequest), NEW n, Opens(q, p, n)
    PROVE  /\ IssueClaims(p) = IssueClaims(q) + (p[n].amount + p[n].fee)
           /\ IssueDeposits(p)
                 = Credited(IssueDeposits(q), p[n].requester, p[n].griefing_collateral)
<1>1. PICK f, g, c, d, k, h :
           /\ f = issue_totals(q) /\ g = issue_totals(p)
           /\ c = Field(q, "griefing_collateral") /\ d = Field(p, "griefing_collateral")
           /\ k = Field(q, "requester") /\ h = Field(p, "requester")
  OBVIOUS
<1>2. n \in DOMAIN p /\ \A i \in DOMAIN q : i \in DOMAIN p /\ p[i] = q[i]
  BY DEF Opens
<1>3. Agree(f, g, DOMAIN q) /\ Agree(c, d, DOMAIN q) /\ SameKeys(k, h, DOMAIN q)
  <2>1. ASSUME NEW i \in DOMAIN q
        PROVE  f[i] \in Nat /\ g[i] = f[i] /\ c[i] \in Nat /\ d[i] = c[i] /\ h[i] = k[i]
    <3>1. i \in DOMAIN p /\ p[i] = q[i]
      BY <1>2
    <3>. QED BY <1>1, <3>1, IssueFields
  <2>. QED BY <2>1 DEF Agree, SameKeys
<1>4. /\ g[n] = p[n].amount + p[n].fee /\ d[n] = p[n].griefing_collateral
      /\ h[n] = p[n].requester
      /\ g[n] \in Nat /\ d[n] \in Nat /\ h[n] \in Accounts
  BY <1>1, <1>2, IssueFields
<1>5. Total(g, Pending(p)) = Total(f, Pending(q)) + g[n]
  BY <1>3, <1>4, SumOpened
<1>6. Claims(d, h, Pending(p), Accounts) = Credited(Claims(c, k, Pending(q), Accounts), h[n], d[n])
  BY <1>3, <1>4, ClaimsOpened
<1>. QED BY <1>1, <1>4, <1>5, <1>6 DEF IssueClaims, IssueDeposits

LEMMA IssueClosed ==
    ASSUME NEW q \in Seq(IssueRequest), NEW p \in Seq(IssueRequest), NEW i, Closes(q, p, i)
    PROVE  /\ IssueClaims(p) = IssueClaims(q) - (q[i].amount + q[i].fee)
           /\ IssueDeposits(p)
                 = Debited(IssueDeposits(q), q[i].requester, q[i].griefing_collateral)
<1>1. PICK f, g, c, d, k, h :
           /\ f = issue_totals(q) /\ g = issue_totals(p)
           /\ c = Field(q, "griefing_collateral") /\ d = Field(p, "griefing_collateral")
           /\ k = Field(q, "requester") /\ h = Field(p, "requester")
  OBVIOUS
<1>2. i \in DOMAIN q /\ \A j \in Pending(p) : j \in DOMAIN q /\ j \in DOMAIN p /\ p[j] = q[j]
  BY PendingFinite DEF Closes, Extended
<1>3. Agree(f, g, Pending(p)) /\ Agree(c, d, Pending(p)) /\ SameKeys(k, h, Pending(p))
  <2>1. ASSUME NEW j \in Pending(p)
        PROVE  f[j] \in Nat /\ g[j] = f[j] /\ c[j] \in Nat /\ d[j] = c[j] /\ h[j] = k[j]
    <3>1. j \in DOMAIN q /\ j \in DOMAIN p /\ p[j] = q[j]
      BY <1>2
    <3>. QED BY <1>1, <3>1, IssueFields, SMTT(60)
  <2>. QED BY <2>1 DEF Agree, SameKeys
<1>4. /\ f[i] = q[i].amount + q[i].fee /\ c[i] = q[i].griefing_collateral
      /\ k[i] = q[i].requester /\ k[i] \in Accounts /\ f[i] \in Nat /\ c[i] \in Nat
  BY <1>1, <1>2, IssueFields
<1>5. Total(g, Pending(p)) = Total(f, Pending(q)) - f[i]
  BY <1>3, <1>4, SumClosed
<1>6. Claims(d, h, Pending(p), Accounts) = Debited(Claims(c, k, Pending(q), Accounts), k[i], c[i])
  BY <1>3, <1>4, ClaimsClosed
<1>. QED BY <1>1, <1>4, <1>5, <1>6 DEF IssueClaims, IssueDeposits

LEMMA IssueKept ==
    ASSUME NEW q \in Seq(IssueRequest), NEW p \in Seq(IssueRequest), NEW i, Keeps(q, p, i),
           i \in Pending(q) => /\ p[i].amount = q[i].amount /\ p[i].fee = q[i].fee
                               /\ p[i].griefing_collateral = q[i].griefing_collateral
                               /\ p[i].requester = q[i].requester
    PROVE  IssueClaims(p) = IssueClaims(q) /\ IssueDeposits(p) = IssueDeposits(q)
<1>1. PICK P : P = Pending(q) /\ P \subseteq DOMAIN q
  BY PendingFinite
<1>2. PICK f, g, c, d, k, h :
           /\ f = issue_totals(q) /\ g = issue_totals(p)
           /\ c = Field(q, "griefing_collateral") /\ d = Field(p, "griefing_collateral")
           /\ k = Field(q, "requester") /\ h = Field(p, "requester")
  OBVIOUS
<1>3. ASSUME NEW j \in P PROVE g[j] = f[j] /\ d[j] = c[j] /\ h[j] = k[j]
  <2>1. j \in DOMAIN q /\ j \in DOMAIN p
    BY <1>1 DEF Keeps
  <2>2. /\ p[j].amount = q[j].amount /\ p[j].fee = q[j].fee
        /\ p[j].griefing_collateral = q[j].griefing_collateral
        /\ p[j].requester = q[j].requester
    BY <1>1 DEF Keeps
  <2>. QED BY <1>2, <2>1, <2>2, IssueFields
<1>4. Total(g, P) = Total(f, P) /\ Claims(d, h, P, Accounts) = Claims(c, k, P, Accounts)
  BY <1>3, TotalEqual, ClaimsSame
<1>5. Pending(p) = P
  BY <1>1 DEF Keeps
<1>. QED BY <1>1, <1>2, <1>4, <1>5, Zenon DEF IssueClaims, IssueDeposits

-----------------------------------------------------------------------------
(* Redeem requests                                                         *)

RedeemPromises(q) == Total(burn_amounts(q), Pending(q))
RedeemLockTotal(q) == Total(redeem_totals(q), Pending(q))

RedeemClaims(q) == Claims(burn_amounts(q), Field(q, "vault"), Pending(q), Vaults)
RedeemLocks(q) == Claims(redeem_totals(q), Field(q, "redeemer"), Pending(q), Holders)

LEMMA RedeemFields ==
    ASSUME NEW q \in Seq(RedeemRequest), NEW i \in DOMAIN q
    PROVE  /\ burn_amounts(q)[i] = burn_amount(q[i])
           /\ redeem_totals(q)[i] = burn_amount(q[i]) + q[i].fee
           /\ Field(q, "vault")[i] = q[i].vault
           /\ Field(q, "redeemer")[i] = q[i].redeemer
           /\ burn_amount(q[i]) \in Nat /\ q[i].fee \in Nat
           /\ burn_amount(q[i]) + q[i].fee \in Nat
           /\ q[i].vault \in Vaults /\ q[i].redeemer \in Holders
<1>1. q[i] \in RedeemRequest
  BY RequestChanged
<1>2. /\ burn_amount(q[i]) \in Nat /\ q[i].fee \in Nat
      /\ q[i].vault \in Vaults /\ q[i].redeemer \in Accounts
  BY <1>1 DEF RedeemRequest, burn_amount
<1>3. q[i].redeemer \in Holders
  BY <1>2, HoldersTyped
<1>. QED BY <1>2, <1>3 DEF burn_amounts, redeem_totals, Field

LEMMA RedeemClaimsTyped ==
    ASSUME NEW q \in Seq(RedeemRequest)
    PROVE  /\ RedeemPromises(q) \in Nat /\ RedeemLockTotal(q) \in Nat
           /\ RedeemPromises(q) <= RedeemLockTotal(q)
           /\ RedeemClaims(q) \in [Vaults -> Nat] /\ RedeemLocks(q) \in [Holders -> Nat]
<1>1. IsFiniteSet(Pending(q)) /\ Pending(q) \subseteq DOMAIN q
  BY PendingFinite
<1>2. PICK f, g : f = burn_amounts(q) /\ g = redeem_totals(q)
  OBVIOUS
<1>3. \A i \in Pending(q) : f[i] \in Nat /\ g[i] \in Nat /\ f[i] <= g[i]
  BY <1>1, <1>2, RedeemFields
<1>4. /\ Total(f, Pending(q)) \in Nat /\ Total(g, Pending(q)) \in Nat
      /\ Total(f, Pending(q)) <= Total(g, Pending(q))
  BY <1>1, <1>3, TotalNat, TotalMonotone
<1>5. /\ Claims(f, Field(q, "vault"), Pending(q), Vaults) \in [Vaults -> Nat]
      /\ Claims(g, Field(q, "redeemer"), Pending(q), Holders) \in [Holders -> Nat]
  BY <1>1, <1>3, ClaimsTyped
<1>. QED BY <1>2, <1>4, <1>5 DEF RedeemPromises, RedeemLockTotal, RedeemClaims, RedeemLocks

LEMMA RedeemOpened ==
    ASSUME NEW q \in Seq(RedeemRequest), NEW p \in Seq(RedeemRequest), NEW n, Opens(q, p, n)
    PROVE  /\ RedeemPromises(p) = RedeemPromises(q) + burn_amount(p[n])
           /\ RedeemLockTotal(p) = RedeemLockTotal(q) + (burn_amount(p[n]) + p[n].fee)
           /\ RedeemClaims(p) = Credited(RedeemClaims(q), p[n].vault, burn_amount(p[n]))
           /\ RedeemLocks(p) = Credited(RedeemLocks(q), p[n].redeemer,
                                        burn_amount(p[n]) + p[n].fee)
<1>1. PICK f, g, c, d, k, h, l, m :
           /\ f = burn_amounts(q) /\ g = burn_amounts(p)
           /\ c = redeem_totals(q) /\ d = redeem_totals(p)
           /\ k = Field(q, "vault") /\ h = Field(p, "vault")
           /\ l = Field(q, "redeemer") /\ m = Field(p, "redeemer")
  OBVIOUS
<1>2. n \in DOMAIN p /\ \A i \in DOMAIN q : i \in DOMAIN p /\ p[i] = q[i]
  BY DEF Opens
<1>3. /\ Agree(f, g, DOMAIN q) /\ Agree(c, d, DOMAIN q)
      /\ SameKeys(k, h, DOMAIN q) /\ SameKeys(l, m, DOMAIN q)
  <2>1. ASSUME NEW i \in DOMAIN q
        PROVE  /\ f[i] \in Nat /\ g[i] = f[i] /\ c[i] \in Nat /\ d[i] = c[i]
               /\ h[i] = k[i] /\ m[i] = l[i]
    <3>1. i \in DOMAIN p /\ p[i] = q[i]
      BY <1>2
    <3>. QED BY <1>1, <3>1, RedeemFields, ZenonT(60)
  <2>. QED BY <2>1 DEF Agree, SameKeys
<1>4. /\ g[n] = burn_amount(p[n]) /\ d[n] = burn_amount(p[n]) + p[n].fee
      /\ h[n] = p[n].vault /\ m[n] = p[n].redeemer
      /\ g[n] \in Nat /\ d[n] \in Nat /\ h[n] \in Vaults /\ m[n] \in Holders
  BY <1>1, <1>2, RedeemFields
<1>5. /\ Total(g, Pending(p)) = Total(f, Pending(q)) + g[n]
      /\ Total(d, Pending(p)) = Total(c, Pending(q)) + d[n]
  BY <1>3, <1>4, SumOpened
<1>6. Claims(g, h, Pending(p), Vaults) = Credited(Claims(f, k, Pending(q), Vaults), h[n], g[n])
  BY <1>3, <1>4, ClaimsOpened
<1>7. Claims(d, m, Pending(p), Holders) = Credited(Claims(c, l, Pending(q), Holders), m[n], d[n])
  BY <1>3, <1>4, ClaimsOpened
<1>. QED BY <1>1, <1>4, <1>5, <1>6, <1>7
         DEF RedeemPromises, RedeemLockTotal, RedeemClaims, RedeemLocks

LEMMA RedeemClosed ==
    ASSUME NEW q \in Seq(RedeemRequest), NEW p \in Seq(RedeemRequest), NEW i, Closes(q, p, i)
    PROVE  /\ RedeemPromises(p) = RedeemPromises(q) - burn_amount(q[i])
           /\ RedeemLockTotal(p) = RedeemLockTotal(q) - (burn_amount(q[i]) + q[i].fee)
           /\ RedeemClaims(p) = Debited(RedeemClaims(q), q[i].vault, burn_amount(q[i]))
           /\ RedeemLocks(p) = Debited(RedeemLocks(q), q[i].redeemer,
                                       burn_amount(q[i]) + q[i].fee)
<1>1. PICK f, g, c, d, k, h, l, m :
           /\ f = burn_amounts(q) /\ g = burn_amounts(p)
           /\ c = redeem_totals(q) /\ d = redeem_totals(p)
           /\ k = Field(q, "vault") /\ h = Field(p, "vault")
           /\ l = Field(q, "redeemer") /\ m = Field(p, "redeemer")
  OBVIOUS
<1>2. i \in DOMAIN q /\ \A j \in Pending(p) : j \in DOMAIN q /\ j \in DOMAIN p /\ p[j] = q[j]
  BY PendingFinite DEF Closes, Extended
<1>3. /\ Agree(f, g, Pending(p)) /\ Agree(c, d, Pending(p))
      /\ SameKeys(k, h, Pending(p)) /\ SameKeys(l, m, Pending(p))
  <2>1. ASSUME NEW j \in Pending(p)
        PROVE  /\ f[j] \in Nat /\ g[j] = f[j] /\ c[j] \in Nat /\ d[j] = c[j]
               /\ h[j] = k[j] /\ m[j] = l[j]
    <3>1. j \in DOMAIN q /\ j \in DOMAIN p /\ p[j] = q[j]
      BY <1>2
    <3>. QED BY <1>1, <3>1, RedeemFields, ZenonT(60)
  <2>. QED BY <2>1 DEF Agree, SameKeys
<1>4. /\ f[i] = burn_amount(q[i]) /\ c[i] = burn_amount(q[i]) + q[i].fee
      /\ k[i] = q[i].vault /\ l[i] = q[i].redeemer
      /\ f[i] \in Nat /\ c[i] \in Nat /\ k[i] \in Vaults /\ l[i] \in Holders
  BY <1>1, <1>2, RedeemFields
<1>5. /\ Total(g, Pending(p)) = Total(f, Pending(q)) - f[i]
      /\ Total(d, Pending(p)) = Total(c, Pending(q)) - c[i]
  BY <1>3, <1>4, SumClosed
<1>6. Claims(g, h, Pending(p), Vaults) = Debited(Claims(f, k, Pending(q), Vaults), k[i], f[i])
  BY <1>3, <1>4, ClaimsClosed
<1>7. Claims(d, m, Pending(p), Holders) = Debited(Claims(c, l, Pending(q), Holders), l[i], c[i])
  BY <1>3, <1>4, ClaimsClosed
<1>. QED BY <1>1, <1>4, <1>5, <1>6, <1>7
         DEF RedeemPromises, RedeemLockTotal, RedeemClaims, RedeemLocks

SameRedeemClaims(q, p) ==
    /\ RedeemPromises(p) = RedeemPromises(q) /\ RedeemLockTotal(p) = RedeemLockTotal(q)
    /\ RedeemClaims(p) = RedeemClaims(q) /\ RedeemLocks(p) = RedeemLocks(q)

LEMMA RedeemKept ==
    ASSUME NEW q \in Seq(RedeemRequest), NEW p \in Seq(RedeemRequest), NEW i, Keeps(q, p, i),
           i \in Pending(q) => /\ burn_amount(p[i]) = burn_amount(q[i]) /\ p[i].fee = q[i].fee
                               /\ p[i].vault = q[i].vault /\ p[i].redeemer = q[i].redeemer
    PROVE  SameRedeemClaims(q, p)
<1>1. PICK P : P = Pending(q) /\ P \subseteq DOMAIN q
  BY PendingFinite
<1>2. PICK f, g, c, d, k, h, l, m :
           /\ f = burn_amounts(q) /\ g = burn_amounts(p)
           /\ c = redeem_totals(q) /\ d = redeem_totals(p)
           /\ k = Field(q, "vault") /\ h = Field(p, "vault")
           /\ l = Field(q, "redeemer") /\ m = Field(p, "redeemer")
  OBVIOUS
<1>3. ASSUME NEW j \in P PROVE g[j] = f[j] /\ d[j] = c[j] /\ h[j] = k[j] /\ m[j] = l[j]
  <2>1. j \in DOMAIN q /\ j \in DOMAIN p
    BY <1>1 DEF Keeps
  <2>2. /\ burn_amount(p[j]) = burn_amount(q[j]) /\ p[j].fee = q[j].fee
        /\ p[j].vault = q[j].vault /\ p[j].redeemer = q[j].redeemer
    BY <1>1 DEF Keeps
  <2>. QED BY <1>2, <2>1, <2>2, RedeemFields
<1>4. /\ Total(g, P) = Total(f, P) /\ Total(d, P) = Total(c, P)
      /\ Claims(g, h, P, Vaults) = Claims(f, k, P, Vaults)
      /\ Claims(d, m, P, Holders) = Claims(c, l, P, Holders)
  BY <1>3, TotalEqual, ClaimsSame
<1>5. Pending(p) = P
  BY <1>1 DEF Keeps
<1>. QED BY <1>1, <1>2, <1>4, <1>5, Zenon
         DEF RedeemPromises, RedeemLockTotal, RedeemClaims, RedeemLocks, SameRedeemClaims

-----------------------------------------------------------------------------
(* Replace requests                                                        *)

ReplaceClaims(q) == Total(Field(q, "amount"), Pending(q))

ReplaceRedeems(q) == Claims(Field(q, "amount"), Field(q, "old_vault"), Pending(q), Vaults)
ReplaceDeposits(q) ==
    Claims(Field(q, "griefing_collateral"), Field(q, "old_vault"), Pending(q), Vaults)

LEMMA ReplaceFields ==
    ASSUME NEW q \in Seq(ReplaceRequest), NEW i \in DOMAIN q
    PROVE  /\ Field(q, "amount")[i] = q[i].amount
           /\ Field(q, "griefing_collateral")[i] = q[i].griefing_collateral
           /\ Field(q, "old_vault")[i] = q[i].old_vault
           /\ q[i].amount \in Nat /\ q[i].griefing_collateral \in Nat
           /\ q[i].old_vault \in Vaults
<1>1. q[i] \in ReplaceRequest
  BY RequestChanged
<1>. QED BY <1>1 DEF Field, ReplaceRequest

LEMMA ReplaceClaimsTyped ==
    ASSUME NEW q \in Seq(ReplaceRequest)
    PROVE  /\ ReplaceClaims(q) \in Nat
           /\ ReplaceRedeems(q) \in [Vaults -> Nat] /\ ReplaceDeposits(q) \in [Vaults -> Nat]
<1>1. IsFiniteSet(Pending(q)) /\ Pending(q) \subseteq DOMAIN q
  BY PendingFinite
<1>2. \A i \in Pending(q) : /\ Field(q, "amount")[i] \in Nat
                            /\ Field(q, "griefing_collateral")[i] \in Nat
  BY <1>1, ReplaceFields
<1>. QED BY <1>1, <1>2, TotalNat, ClaimsTyped DEF ReplaceClaims, ReplaceRedeems, ReplaceDeposits

LEMMA ReplaceOpened ==
    ASSUME NEW q \in Seq(ReplaceRequest), NEW p \in Seq(ReplaceRequest), NEW n, Opens(q, p, n)
    PROVE  /\ ReplaceClaims(p) = ReplaceClaims(q) + p[n].amount
           /\ ReplaceRedeems(p) = Credited(ReplaceRedeems(q), p[n].old_vault, p[n].amount)
           /\ ReplaceDeposits(p)
                 = Credited(ReplaceDeposits(q), p[n].old_vault, p[n].griefing_collateral)
<1>1. PICK f, g, c, d, k, h :
           /\ f = Field(q, "amount") /\ g = Field(p, "amount")
           /\ c = Field(q, "griefing_collateral") /\ d = Field(p, "griefing_collateral")
           /\ k = Field(q, "old_vault") /\ h = Field(p, "old_vault")
  OBVIOUS
<1>2. n \in DOMAIN p /\ \A i \in DOMAIN q : i \in DOMAIN p /\ p[i] = q[i]
  BY DEF Opens
<1>3. Agree(f, g, DOMAIN q) /\ Agree(c, d, DOMAIN q) /\ SameKeys(k, h, DOMAIN q)
  <2>1. ASSUME NEW i \in DOMAIN q
        PROVE  f[i] \in Nat /\ g[i] = f[i] /\ c[i] \in Nat /\ d[i] = c[i] /\ h[i] = k[i]
    <3>1. i \in DOMAIN p /\ p[i] = q[i]
      BY <1>2
    <3>. QED BY <1>1, <3>1, ReplaceFields
  <2>. QED BY <2>1 DEF Agree, SameKeys
<1>4. /\ g[n] = p[n].amount /\ d[n] = p[n].griefing_collateral
      /\ h[n] = p[n].old_vault
      /\ g[n] \in Nat /\ d[n] \in Nat /\ h[n] \in Vaults
  BY <1>1, <1>2, ReplaceFields
<1>5. Total(g, Pending(p)) = Total(f, Pending(q)) + g[n]
  BY <1>3, <1>4, SumOpened
<1>6. Claims(g, h, Pending(p), Vaults) = Credited(Claims(f, k, Pending(q), Vaults), h[n], g[n])
  BY <1>3, <1>4, ClaimsOpened
<1>7. Claims(d, h, Pending(p), Vaults) = Credited(Claims(c, k, Pending(q), Vaults), h[n], d[n])
  BY <1>3, <1>4, ClaimsOpened
<1>. QED BY <1>1, <1>4, <1>5, <1>6, <1>7 DEF ReplaceClaims, ReplaceRedeems, ReplaceDeposits

LEMMA ReplaceClosed ==
    ASSUME NEW q \in Seq(ReplaceRequest), NEW p \in Seq(ReplaceRequest), NEW i, Closes(q, p, i)
    PROVE  /\ ReplaceClaims(p) = ReplaceClaims(q) - q[i].amount
           /\ ReplaceRedeems(p) = Debited(ReplaceRedeems(q), q[i].old_vault, q[i].amount)
           /\ ReplaceDeposits(p)
                 = Debited(ReplaceDeposits(q), q[i].old_vault, q[i].griefing_collateral)
<1>1. PICK f, g, c, d, k, h :
           /\ f = Field(q, "amount") /\ g = Field(p, "amount")
           /\ c = Field(q, "griefing_collateral") /\ d = Field(p, "griefing_collateral")
           /\ k = Field(q, "old_vault") /\ h = Field(p, "old_vault")
  OBVIOUS
<1>2. i \in DOMAIN q /\ \A j \in Pending(p) : j \in DOMAIN q /\ j \in DOMAIN p /\ p[j] = q[j]
  BY PendingFinite DEF Closes, Extended
<1>3. Agree(f, g, Pending(p)) /\ Agree(c, d, Pending(p)) /\ SameKeys(k, h, Pending(p))
  <2>1. ASSUME NEW j \in Pending(p)
        PROVE  f[j] \in Nat /\ g[j] = f[j] /\ c[j] \in Nat /\ d[j] = c[j] /\ h[j] = k[j]
    <3>1. j \in DOMAIN q /\ j \in DOMAIN p /\ p[j] = q[j]
      BY <1>2
    <3>. QED BY <1>1, <3>1, ReplaceFields
  <2>. QED BY <2>1 DEF Agree, SameKeys
<1>4. /\ f[i] = q[i].amount /\ c[i] = q[i].griefing_collateral
      /\ k[i] = q[i].old_vault /\ k[i] \in Vaults /\ f[i] \in Nat /\ c[i] \in Nat
  BY <1>1, <1>2, ReplaceFields
<1>5. Total(g, Pending(p)) = Total(f, Pending(q)) - f[i]
  BY <1>3, <1>4, SumClosed
<1>6. Claims(g, h, Pending(p), Vaults) = Debited(Claims(f, k, Pending(q), Vaults), k[i], f[i])
  BY <1>3, <1>4, ClaimsClosed
<1>7. Claims(d, h, Pending(p), Vaults) = Debited(Claims(c, k, Pending(q), Vaults), k[i], c[i])
  BY <1>3, <1>4, ClaimsClosed
<1>. QED BY <1>1, <1>4, <1>5, <1>6, <1>7 DEF ReplaceClaims, ReplaceRedeems, ReplaceDeposits

SameReplaceClaims(q, p) ==
    /\ ReplaceClaims(p) = ReplaceClaims(q)
    /\ ReplaceRedeems(p) = ReplaceRedeems(q) /\ ReplaceDeposits(p) = ReplaceDeposits(q)

LEMMA ReplaceKept ==
    ASSUME NEW q \in Seq(ReplaceRequest), NEW p \in Seq(ReplaceRequest), NEW i, Keeps(q, p, i),
           i \in Pending(q) => /\ p[i].amount = q[i].amount
                               /\ p[i].griefing_collateral = q[i].griefing_collateral
                               /\ p[i].old_vault = q[i].old_vault
    PROVE  SameReplaceClaims(q, p)
<1>1. PICK P : P = Pending(q) /\ P \subseteq DOMAIN q
  BY PendingFinite
<1>2. PICK f, g, c, d, k, h :
           /\ f = Field(q, "amount") /\ g = Field(p, "amount")
           /\ c = Field(q, "griefing_collateral") /\ d = Field(p, "griefing_collateral")
           /\ k = Field(q, "old_vault") /\ h = Field(p, "old_vault")
  OBVIOUS
<1>3. ASSUME NEW j \in P PROVE g[j] = f[j] /\ d[j] = c[j] /\ h[j] = k[j]
  <2>1. j \in DOMAIN q /\ j \in DOMAIN p
    BY <1>1 DEF Keeps
  <2>2. /\ p[j].amount = q[j].amount /\ p[j].old_vault = q[j].old_vault
        /\ p[j].griefing_collateral = q[j].griefing_collateral
    BY <1>1 DEF Keeps
  <2>. QED BY <1>2, <2>1, <2>2, ReplaceFields
<1>4. /\ Total(g, P) = Total(f, P)
      /\ Claims(g, h, P, Vaults) = Claims(f, k, P, Vaults)
      /\ Claims(d, h, P, Vaults) = Claims(c, k, P, Vaults)
  BY <1>3, TotalEqual, ClaimsSame
<1>5. Pending(p) = P
  BY <1>1 DEF Keeps
<1>. QED BY <1>1, <1>2, <1>4, <1>5, Zenon
         DEF ReplaceClaims, ReplaceRedeems, ReplaceDeposits, SameReplaceClaims

-----------------------------------------------------------------------------
(* The ledger of the wrapped currency                                      *)

Locks(t) == [a \in Holders |-> t[a].reserved]
LockTotal(t) == Total(Locks(t), Holders)
Holdings(t) == [a \in Holders |-> t[a].free + t[a].reserved]

LEMMA LedgerTyped ==
    ASSUME NEW t \in Ledger
    PROVE  /\ Locks(t) \in [Holders -> Nat] /\ Holdings(t) \in [Holders -> Nat]
           /\ Supply(t) = Total(Holdings(t), Holders)
           /\ Supply(t) \in Nat /\ LockTotal(t) \in Nat /\ LockTotal(t) <= Supply(t)
           /\ IsFiniteSet(Holders)
<1>1. IsFiniteSet(Holders)
  <2>1. IsFiniteSet(Vaults \cup Users)
    BY AccountsAssumption, FS_Union
  <2>. QED BY <2>1, FS_AddElement DEF Holders, Accounts
<1>2. /\ Locks(t) \in [Holders -> Nat] /\ Holdings(t) \in [Holders -> Nat]
      /\ \A a \in Holders : Locks(t)[a] <= Holdings(t)[a]
  BY DEF Locks, Holdings, Ledger, Balance
<1>3. Supply(t) = Total(Holdings(t), Holders)
  BY DEF Supply, Holdings
<1>4. /\ Total(Holdings(t), Holders) \in Nat /\ Total(Locks(t), Holders) \in Nat
      /\ Total(Locks(t), Holders) <= Total(Holdings(t), Holders)
  BY <1>1, <1>2, TotalNat, TotalMonotone
<1>. QED BY <1>1, <1>2, <1>3, <1>4 DEF LockTotal

SetBalance(t, a, b) == [t EXCEPT ![a] = b]

(* The effect of an operation: supply, and what a has locked.              *)
LedgerEffect(t, s, a, minted, locked) ==
    /\ s \in Ledger
    /\ Supply(s) = Supply(t) + minted
    /\ LockTotal(s) = LockTotal(t) + locked
    /\ Locks(s) = Credited(Locks(t), a, locked)

LEMMA BalanceChange ==
    ASSUME NEW t \in Ledger, NEW a \in Holders, NEW b \in Balance,
           NEW m \in Int, NEW l \in Int,
           b.reserved = t[a].reserved + l,
           b.free = t[a].free + m - l
    PROVE  LedgerEffect(t, SetBalance(t, a, b), a, m, l)
<1>1. SetBalance(t, a, b) \in Ledger
  BY DEF Ledger, SetBalance
<1>0. PICK s : s = SetBalance(t, a, b) /\ s \in Ledger
  BY <1>1
<1>2. /\ b.free \in Nat /\ b.reserved \in Nat /\ t[a].free \in Nat /\ t[a].reserved \in Nat
  BY DEF Ledger, Balance
<1>3. PICK f, g, c, d : /\ f = Locks(t) /\ g = Locks(s) /\ c = Holdings(t) /\ d = Holdings(s)
                        /\ f \in [Holders -> Nat] /\ g \in [Holders -> Nat]
                        /\ c \in [Holders -> Nat] /\ d \in [Holders -> Nat]
                        /\ IsFiniteSet(Holders)
  BY <1>0, LedgerTyped
<1>4. /\ f[a] = t[a].reserved /\ g[a] = b.reserved
      /\ c[a] = t[a].free + t[a].reserved /\ d[a] = b.free + b.reserved
  BY <1>0, <1>3 DEF Locks, Holdings, Ledger, SetBalance
<1>5. /\ \A x \in Holders : f[x] \in Nat /\ (x # a => g[x] = f[x])
      /\ \A x \in Holders : c[x] \in Nat /\ (x # a => d[x] = c[x])
      /\ g[a] \in Nat /\ d[a] \in Nat
  BY <1>0, <1>3 DEF Locks, Holdings, Ledger, SetBalance
<1>6. g = [f EXCEPT ![a] = @ + l]
  <2>1. g[a] = f[a] + l
    BY <1>4
  <2>. QED BY <1>3, <1>5, <2>1
<1>15. IsFiniteSet(Holders)
  BY <1>3
<1>7. Total(g, Holders) = Total(f, Holders) - f[a] + g[a]
  BY ONLY <1>15, <1>5, a \in Holders, TotalChange
<1>8. Total(d, Holders) = Total(c, Holders) - c[a] + d[a]
  BY ONLY <1>15, <1>5, a \in Holders, TotalChange
<1>9. Total(f, Holders) \in Nat /\ Total(c, Holders) \in Nat
  BY ONLY <1>15, <1>5, TotalNat
<1>10. g[a] - f[a] = l /\ d[a] - c[a] = m
  BY <1>2, <1>4
<1>11. /\ f[a] \in Int /\ g[a] \in Int /\ c[a] \in Int /\ d[a] \in Int
  BY <1>3
<1>12. Total(g, Holders) = Total(f, Holders) + l /\ Total(d, Holders) = Total(c, Holders) + m
  BY <1>7, <1>8, <1>9, <1>10, <1>11
<1>13. Supply(s) = Total(d, Holders) /\ Supply(t) = Total(c, Holders)
  BY <1>0, <1>3, LedgerTyped
<1>14. /\ Supply(s) = Supply(t) + m /\ LockTotal(s) = LockTotal(t) + l
       /\ Locks(s) = Credited(Locks(t), a, l)
  BY <1>3, <1>6, <1>12, <1>13 DEF LockTotal, Credited
<1>. QED BY <1>0, <1>14 DEF LedgerEffect

(* Two operations in a row.                                                *)
LEMMA LedgerChain ==
    ASSUME NEW t \in Ledger, NEW u, NEW s, NEW a \in Holders,
           NEW m \in Int, NEW l \in Int, NEW n \in Int, NEW k \in Int,
           LedgerEffect(t, u, a, m, l), LedgerEffect(u, s, a, n, k)
    PROVE  LedgerEffect(t, s, a, m + n, l + k)
<1>1. /\ s \in Ledger /\ Supply(t) \in Nat /\ LockTotal(t) \in Nat
      /\ Locks(t) \in [Holders -> Nat]
  BY LedgerTyped DEF LedgerEffect
<1>2. Supply(s) = Supply(t) + (m + n) /\ LockTotal(s) = LockTotal(t) + (l + k)
  BY <1>1 DEF LedgerEffect
<1>3. Locks(s) = Credited(Locks(t), a, l + k)
  <2>1. PICK f, g, h : /\ f = Locks(t) /\ g = Locks(u) /\ h = Locks(s) /\ f \in [Holders -> Nat]
                       /\ g = [f EXCEPT ![a] = @ + l] /\ h = [g EXCEPT ![a] = @ + k]
    BY <1>1 DEF LedgerEffect, Credited
  <2>2. h = [f EXCEPT ![a] = @ + (l + k)]
    <3>1. /\ g[a] = f[a] + l /\ h[a] = g[a] + k /\ f[a] \in Int
          /\ DOMAIN h = Holders /\ DOMAIN f = Holders
          /\ \A x \in Holders : x # a => h[x] = f[x]
      BY <2>1
    <3>2. h[a] = f[a] + (l + k)
      BY <3>1
    <3>. QED BY <2>1, <3>1, <3>2
  <2>. QED BY <2>1, <2>2 DEF Credited
<1>. QED BY <1>1, <1>2, <1>3 DEF LedgerEffect

(* An account whose locks do not change is as good as another.             *)
LEMMA LedgerElsewhere ==
    ASSUME NEW t \in Ledger, NEW s, NEW a \in Holders, NEW b \in Holders, NEW m,
           LedgerEffect(t, s, a, m, 0)
    PROVE  LedgerEffect(t, s, b, m, 0) /\ Locks(s) = Locks(t) /\ LockTotal(s) = LockTotal(t)
<1>1. Locks(t) \in [Holders -> Nat] /\ LockTotal(t) \in Nat
  BY LedgerTyped
<1>2. Credited(Locks(t), a, 0) = Locks(t) /\ Credited(Locks(t), b, 0) = Locks(t)
  BY <1>1 DEF Credited
<1>. QED BY <1>1, <1>2 DEF LedgerEffect

LEMMA MintEffect ==
    ASSUME NEW t \in Ledger, NEW a \in Holders, NEW n \in Nat
    PROVE  LedgerEffect(t, mint_to(t, a, n), a, n, 0)
<1>1. PICK b : b = [t[a] EXCEPT !.free = @ + n]
  OBVIOUS
<1>2. t[a] \in Balance
  BY DEF Ledger
<1>3. /\ b \in Balance /\ b.free = t[a].free + n /\ b.reserved = t[a].reserved
      /\ t[a].free \in Nat /\ t[a].reserved \in Nat
  BY <1>1, <1>2 DEF Balance
<1>4. mint_to(t, a, n) = SetBalance(t, a, b)
  BY <1>1, <1>2 DEF mint_to, Ledger, SetBalance
<1>5. b.reserved = t[a].reserved + 0 /\ b.free = t[a].free + n - 0
  BY <1>3
<1>6. LedgerEffect(t, SetBalance(t, a, b), a, n, 0)
  BY <1>3, <1>5, BalanceChange
<1>. QED BY <1>4, <1>6

LEMMA LockEffect ==
    ASSUME NEW t \in Ledger, NEW a \in Holders, NEW n \in Nat, NEW s \in lock_on(t, a, n)
    PROVE  LedgerEffect(t, s, a, 0, n)
<1>1. t[a] \in Balance /\ n <= t[a].free
  BY DEF Ledger, lock_on, Try
<1>2. PICK b : b = [free |-> t[a].free - n, reserved |-> t[a].reserved + n]
  OBVIOUS
<1>3. /\ b \in Balance /\ b.free = t[a].free + 0 - n /\ b.reserved = t[a].reserved + n
  BY <1>1, <1>2 DEF Balance
<1>4. s = SetBalance(t, a, b)
  BY <1>2 DEF lock_on, Try, Ledger, SetBalance
<1>5. LedgerEffect(t, SetBalance(t, a, b), a, 0, n)
  BY <1>3, BalanceChange
<1>. QED BY <1>4, <1>5

LEMMA UnlockEffect ==
    ASSUME NEW t \in Ledger, NEW a \in Holders, NEW n \in Nat, NEW s \in unlock_on(t, a, n)
    PROVE  LedgerEffect(t, s, a, 0, 0 - n)
<1>1. t[a] \in Balance /\ n <= t[a].reserved
  BY DEF Ledger, unlock_on, Try
<1>2. PICK b, k : b = [free |-> t[a].free + n, reserved |-> t[a].reserved - n] /\ k = 0 - n
  OBVIOUS
<1>3. /\ b \in Balance /\ b.free = t[a].free + 0 - k /\ b.reserved = t[a].reserved + k
      /\ k \in Int
  BY <1>1, <1>2 DEF Balance
<1>4. s = SetBalance(t, a, b)
  BY <1>2 DEF unlock_on, Try, Ledger, SetBalance
<1>5. LedgerEffect(t, SetBalance(t, a, b), a, 0, k)
  BY <1>3, BalanceChange
<1>. QED BY <1>2, <1>4, <1>5

LEMMA BurnEffect ==
    ASSUME NEW t \in Ledger, NEW a \in Holders, NEW n \in Nat, NEW s \in burn_from(t, a, n)
    PROVE  LedgerEffect(t, s, a, 0 - n, 0 - n)
<1>1. t[a] \in Balance /\ n <= t[a].reserved
  BY DEF Ledger, burn_from, Try
<1>2. PICK b, k : b = [t[a] EXCEPT !.reserved = @ - n] /\ k = 0 - n
  OBVIOUS
<1>3. /\ b \in Balance /\ b.free = t[a].free + k - k /\ b.reserved = t[a].reserved + k
      /\ k \in Int
  BY <1>1, <1>2 DEF Balance
<1>4. s = SetBalance(t, a, b)
  BY <1>1, <1>2 DEF burn_from, Try, Ledger, SetBalance
<1>5. LedgerEffect(t, SetBalance(t, a, b), a, k, k)
  BY <1>3, BalanceChange
<1>. QED BY <1>2, <1>4, <1>5

LEMMA TransferEffect ==
    ASSUME NEW t \in Ledger, NEW a \in Holders, NEW b \in Holders, NEW n \in Nat,
           NEW s \in transfer(t, a, b, n)
    PROVE  LedgerEffect(t, s, a, 0, 0)
<1>1. t[a] \in Balance /\ n <= t[a].free
  BY DEF Ledger, transfer, Try
<1>2. PICK x, k : x = [t[a] EXCEPT !.free = @ - n] /\ k = 0 - n
  OBVIOUS
<1>3. /\ x \in Balance /\ x.free = t[a].free + k - 0 /\ x.reserved = t[a].reserved + 0
      /\ k \in Int
  BY <1>1, <1>2 DEF Balance
<1>4. PICK q : q = SetBalance(t, a, x)
  OBVIOUS
<1>6. LedgerEffect(t, q, a, k, 0)
  BY <1>3, <1>4, BalanceChange
<1>7. q \in Ledger /\ s = mint_to(q, b, n)
  BY <1>1, <1>2, <1>4, <1>6 DEF LedgerEffect, transfer, Try, mint_to, Ledger, SetBalance
<1>8. LedgerEffect(q, s, b, n, 0)
  BY <1>7, MintEffect
<1>9. LedgerEffect(q, s, a, n, 0)
  BY <1>7, <1>8, LedgerElsewhere
<1>10. LedgerEffect(t, s, a, k + n, 0 + 0)
  BY <1>3, <1>6, <1>9, LedgerChain
<1>11. k + n = 0 /\ 0 + 0 = 0
  BY <1>2
<1>. QED BY <1>10, <1>11

LEMMA UnlockTransferEffect ==
    ASSUME NEW t \in Ledger, NEW a \in Holders, NEW b \in Holders, NEW n \in Nat,
           NEW s \in unlock_and_transfer(t, a, b, n)
    PROVE  LedgerEffect(t, s, a, 0, 0 - n)
<1>1. PICK q : q \in unlock_on(t, a, n) /\ s \in transfer(q, a, b, n)
  BY DEF unlock_and_transfer
<1>2. PICK k : k = 0 - n
  OBVIOUS
<1>3. LedgerEffect(t, q, a, 0, k) /\ k \in Int
  BY <1>1, <1>2, UnlockEffect
<1>4. q \in Ledger
  BY <1>3 DEF LedgerEffect
<1>5. LedgerEffect(q, s, a, 0, 0)
  BY <1>1, <1>4, TransferEffect
<1>6. LedgerEffect(t, s, a, 0 + 0, k + 0)
  BY <1>3, <1>5, LedgerChain
<1>7. k + 0 = k /\ 0 + 0 = 0
  BY <1>3
<1>. QED BY <1>2, <1>6, <1>7

-----------------------------------------------------------------------------
(* The books, and what it takes to keep them                               *)

(* A counter of the vaults that has two parts.                             *)
Split(f, x, z) == \A v \in Vaults : f[v] = x[v] + z[v]

Books(r, t, I, R, P) ==
    /\ Supply(t) = issued_tokens(r)
    /\ to_be_issued_tokens(r) = IssueClaims(I) + ReplaceClaims(P)
    /\ Split(Redeeming(r), RedeemClaims(R), ReplaceRedeems(P))
    /\ CollateralExcess(r) = 0 /\ CopyExcess(r) = 0
    /\ RequestGriefing(r) = IssueDeposits(I)
    /\ AcceptedGriefing(r) = ReplaceDeposits(P)
    /\ Locks(t) = RedeemLocks(R) /\ LockTotal(t) = RedeemLockTotal(R)

BooksInv ==
    /\ BridgeInv
    /\ Books(registry, tokens, issueRequests, redeemRequests, replaceRequests)

LEMMA StateTyped ==
    ASSUME BridgeInv
    PROVE  /\ registry \in Registry /\ RegistryOK(registry) /\ ParamsOK /\ tokens \in Ledger
           /\ issueRequests \in Seq(IssueRequest)
           /\ redeemRequests \in Seq(RedeemRequest)
           /\ replaceRequests \in Seq(ReplaceRequest)
BY DEF BridgeInv, RegistryInv, RegistryOK, RegistrySound, IssueTypeOK, RedeemTypeOK,
       ReplaceTypeOK

LEMMA DebitedAs ==
    ASSUME NEW A, NEW f \in [A -> Int], NEW a \in A, NEW n \in Int
    PROVE  [f EXCEPT ![a] = @ + (0 - n)] = Debited(f, a, n)
<1>1. f[a] + (0 - n) = f[a] - n
  OBVIOUS
<1>2. PICK x, y : x = f[a] + (0 - n) /\ y = f[a] - n
  OBVIOUS
<1>3. [f EXCEPT ![a] = x] = [f EXCEPT ![a] = y]
  BY <1>1, <1>2
<1>4. Debited(f, a, n) = [f EXCEPT ![a] = y]
  BY <1>2 DEF Debited
<1>. QED BY <1>2, <1>3, <1>4

(* Two counters of the vaults that move by the same amounts.               *)
Follows(f, g, x, y) == \A v \in Vaults : g[v] - f[v] = y[v] - x[v]

LEMMA FollowCredit ==
    ASSUME NEW f \in [Vaults -> Nat], NEW x \in [Vaults -> Nat], NEW v \in Vaults,
           NEW n \in Nat
    PROVE  /\ Follows(f, Credited(f, v, n), x, Credited(x, v, n))
           /\ Follows(f, Debited(f, v, n), x, Debited(x, v, n))
           /\ Follows(f, f, x, x)
<1>1. ASSUME NEW u \in Vaults
      PROVE  /\ Credited(f, v, n)[u] - f[u] = Credited(x, v, n)[u] - x[u]
             /\ Debited(f, v, n)[u] - f[u] = Debited(x, v, n)[u] - x[u]
             /\ f[u] - f[u] = x[u] - x[u]
  <2>1. PICK y, z : y = f[u] /\ z = x[u] /\ y \in Int /\ z \in Int
    OBVIOUS
  <2>2. CASE u = v
    <3>1. /\ Credited(f, v, n)[u] = y + n /\ Credited(x, v, n)[u] = z + n
          /\ Debited(f, v, n)[u] = y - n /\ Debited(x, v, n)[u] = z - n
      BY <2>1, <2>2 DEF Credited, Debited
    <3>. QED BY <2>1, <3>1
  <2>3. CASE u # v
    <3>1. /\ Credited(f, v, n)[u] = y /\ Credited(x, v, n)[u] = z
          /\ Debited(f, v, n)[u] = y /\ Debited(x, v, n)[u] = z
      BY <2>1, <2>3 DEF Credited, Debited
    <3>. QED BY <2>1, <3>1
  <2>. QED BY <2>2, <2>3
<1>. QED BY <1>1 DEF Follows

LEMMA FollowPart ==
    ASSUME NEW f \in [Vaults -> Nat], NEW g \in [Vaults -> Nat], NEW x \in [Vaults -> Nat],
           NEW y \in [Vaults -> Nat], NEW z \in [Vaults -> Nat]
    PROVE  /\ Follows(f, g, x, y) /\ Split(f, x, z) => Split(g, y, z)
           /\ Follows(f, g, x, y) /\ Split(f, z, x) => Split(g, z, y)
<1>1. ASSUME NEW v \in Vaults, Follows(f, g, x, y)
      PROVE  /\ f[v] = x[v] + z[v] => g[v] = y[v] + z[v]
             /\ f[v] = z[v] + x[v] => g[v] = z[v] + y[v]
  <2>1. PICK a \in Int, b \in Int, c \in Int, d \in Int, e \in Int :
           a = f[v] /\ b = g[v] /\ c = x[v] /\ d = y[v] /\ e = z[v]
    OBVIOUS
  <2>2. b - a = d - c
    BY <1>1, <2>1 DEF Follows
  <2>3. (a = c + e => b = d + e) /\ (a = e + c => b = e + d)
    BY <2>2
  <2>. QED BY <2>1, <2>3
<1>. QED BY <1>1 DEF Split

LEMMA IssueStep ==
    ASSUME NEW r \in Registry, NEW t \in Ledger, NEW I \in Seq(IssueRequest), NEW R,
           NEW P \in Seq(ReplaceRequest), Books(r, t, I, R, P),
           NEW s, NEW u, NEW J, NEW m \in Int, NEW j \in Int,
           issued_tokens(s) = issued_tokens(r) + m, Supply(u) = Supply(t) + m,
           to_be_issued_tokens(s) = to_be_issued_tokens(r) + j,
           IssueClaims(J) = IssueClaims(I) + j,
           Redeeming(s) = Redeeming(r), SameExcess(r, s),
           AcceptedGriefing(s) = AcceptedGriefing(r), RequestGriefing(s) = IssueDeposits(J),
           Locks(u) = Locks(t), LockTotal(u) = LockTotal(t)
    PROVE  Books(s, u, J, R, P)
<1>1. /\ issued_tokens(r) \in Nat /\ to_be_issued_tokens(r) \in Nat
      /\ IssueClaims(I) \in Nat /\ ReplaceClaims(P) \in Nat
  BY BooksTyped, IssueClaimsTyped, ReplaceClaimsTyped
<1>2. Supply(u) = issued_tokens(s)
  BY <1>1 DEF Books
<1>3. to_be_issued_tokens(s) = IssueClaims(J) + ReplaceClaims(P)
  BY <1>1 DEF Books
<1>. QED BY <1>2, <1>3 DEF Books, SameExcess

LEMMA RedeemStep ==
    ASSUME NEW r \in Registry, NEW t \in Ledger, NEW I, NEW R \in Seq(RedeemRequest),
           NEW P \in Seq(ReplaceRequest), Books(r, t, I, R, P),
           NEW s, NEW u, NEW Q, NEW m \in Int,
           issued_tokens(s) = issued_tokens(r) + m, Supply(u) = Supply(t) + m,
           to_be_issued_tokens(s) = to_be_issued_tokens(r),
           Follows(Redeeming(r), Redeeming(s), RedeemClaims(R), RedeemClaims(Q)),
           Redeeming(s) \in [Vaults -> Nat], RedeemClaims(Q) \in [Vaults -> Nat],
           SameGriefing(r, s), SameExcess(r, s),
           Locks(u) = RedeemLocks(Q), LockTotal(u) = RedeemLockTotal(Q)
    PROVE  Books(s, u, I, Q, P)
<1>1. /\ issued_tokens(r) \in Nat /\ Redeeming(r) \in [Vaults -> Nat]
      /\ RedeemClaims(R) \in [Vaults -> Nat] /\ ReplaceRedeems(P) \in [Vaults -> Nat]
  BY BooksTyped, RedeemClaimsTyped, ReplaceClaimsTyped
<1>2. Supply(u) = issued_tokens(s)
  BY <1>1 DEF Books
<1>3. Split(Redeeming(r), RedeemClaims(R), ReplaceRedeems(P))
  BY DEF Books
<1>4. Split(Redeeming(s), RedeemClaims(Q), ReplaceRedeems(P))
  BY <1>1, <1>3, FollowPart
<1>. QED BY <1>2, <1>4 DEF Books, SameExcess, SameGriefing

LEMMA ReplaceStep ==
    ASSUME NEW r \in Registry, NEW t, NEW I \in Seq(IssueRequest), NEW R \in Seq(RedeemRequest),
           NEW P \in Seq(ReplaceRequest), Books(r, t, I, R, P),
           NEW s, NEW Q, NEW j \in Int,
           issued_tokens(s) = issued_tokens(r),
           to_be_issued_tokens(s) = to_be_issued_tokens(r) + j,
           ReplaceClaims(Q) = ReplaceClaims(P) + j,
           Follows(Redeeming(r), Redeeming(s), ReplaceRedeems(P), ReplaceRedeems(Q)),
           Redeeming(s) \in [Vaults -> Nat], ReplaceRedeems(Q) \in [Vaults -> Nat],
           RequestGriefing(s) = RequestGriefing(r), SameExcess(r, s),
           AcceptedGriefing(s) = ReplaceDeposits(Q)
    PROVE  Books(s, t, I, R, Q)
<1>1. /\ to_be_issued_tokens(r) \in Nat /\ Redeeming(r) \in [Vaults -> Nat]
      /\ IssueClaims(I) \in Nat /\ ReplaceClaims(P) \in Nat
      /\ RedeemClaims(R) \in [Vaults -> Nat] /\ ReplaceRedeems(P) \in [Vaults -> Nat]
  BY BooksTyped, IssueClaimsTyped, RedeemClaimsTyped, ReplaceClaimsTyped
<1>2. to_be_issued_tokens(s) = IssueClaims(I) + ReplaceClaims(Q)
  BY <1>1 DEF Books
<1>3. Split(Redeeming(r), RedeemClaims(R), ReplaceRedeems(P))
  BY DEF Books
<1>4. Split(Redeeming(s), RedeemClaims(R), ReplaceRedeems(Q))
  BY <1>1, <1>3, FollowPart
<1>. QED BY <1>2, <1>4 DEF Books, SameExcess

(* A step that only moves things within the registry.                      *)
LEMMA QuietStep ==
    ASSUME NEW r, NEW t, NEW I, NEW R, NEW P, Books(r, t, I, R, P), NEW s, SameBooks(r, s)
    PROVE  Books(s, t, I, R, P) /\ issued_tokens(s) = issued_tokens(r)
BY DEF Books, SameBooks, SameTokens, SameGriefing, SameExcess

-----------------------------------------------------------------------------
(* A request is added, or replaced by its next version                     *)

Added(q, p, x) == p = Append(q, x)
Revised(q, p, i, x) == i \in DOMAIN q /\ p = [q EXCEPT ![i] = x]

LEMMA RequestAddedOpens ==
    ASSUME NEW S, NEW q \in Seq(S), NEW x \in S, x.status = "Pending", NEW p, Added(q, p, x)
    PROVE  p \in Seq(S) /\ \E n : Opens(q, p, n) /\ p[n] = x
<1>1. DOMAIN q = 1 .. Len(q) /\ Len(q) \in Nat
  BY LenProperties
<1>2. PICK n : n = Len(q) + 1
  OBVIOUS
<1>3. /\ DOMAIN p = 1 .. n /\ p[n] = x /\ p \in Seq(S)
      /\ \A i \in 1 .. Len(q) : p[i] = q[i]
  <2>1. /\ p \in Seq(S) /\ Len(p) = Len(q) + 1
        /\ \A i \in 1 .. Len(q) : p[i] = q[i]
        /\ p[Len(q) + 1] = x
    BY AppendProperties DEF Added
  <2>. QED BY <1>2, <2>1, LenProperties
<1>4. n \notin DOMAIN q /\ DOMAIN p = DOMAIN q \cup {n}
  BY <1>1, <1>2, <1>3
<1>5. \A i \in DOMAIN q : p[i] = q[i]
  BY <1>1, <1>3
<1>6. Extended(Pending(q), Pending(p), n)
  BY <1>3, <1>4, <1>5 DEF Pending, Extended
<1>7. Opens(q, p, n) /\ p[n] = x
  BY <1>3, <1>4, <1>5, <1>6 DEF Opens
<1>. QED BY <1>3, <1>7

LEMMA RequestRevised ==
    ASSUME NEW S, NEW q \in Seq(S), NEW i, NEW x \in S, NEW p, Revised(q, p, i, x)
    PROVE  /\ p \in Seq(S) /\ p[i] = x /\ q[i] \in S /\ i \in DOMAIN q
           /\ q[i].status = "Pending" /\ x.status # "Pending" => Closes(q, p, i)
           /\ (q[i].status = "Pending" <=> x.status = "Pending") => Keeps(q, p, i)
<1>1. i \in DOMAIN q /\ p = [q EXCEPT ![i] = x]
  BY DEF Revised
<1>2. p \in Seq(S) /\ q[i] \in S
  BY <1>1, RequestChanged
<1>3. p[i] = x
  BY <1>1
<1>4. ASSUME q[i].status = "Pending", x.status # "Pending"
      PROVE  Closes(q, p, i)
  BY <1>1, <1>4, RequestCloses
<1>5. ASSUME q[i].status = "Pending" <=> x.status = "Pending"
      PROVE  Keeps(q, p, i)
  BY <1>1, <1>5, RequestKeeps
<1>. QED BY <1>1, <1>2, <1>3, <1>4, <1>5

LockGriefing(r, a, n) == [r EXCEPT !.griefing[a] = @ + n]

LEMMA LockGriefingEffect ==
    ASSUME NEW r \in Registry, NEW a \in Accounts, NEW n \in Nat,
           NEW s, s = LockGriefing(r, a, n)
    PROVE  /\ s \in Registry /\ SameTokens(r, s) /\ SameExcess(r, s)
           /\ AcceptedGriefing(s) = AcceptedGriefing(r)
           /\ RequestGriefing(s) = Credited(RequestGriefing(r), a, n)
<1>1. s = [r EXCEPT !.griefing[a] = @ + n]
  BY DEF LockGriefing
<1>. QED BY <1>1, LockGriefingBooks DEF Credited

LEMMA UnlockGriefingEffect ==
    ASSUME NEW r \in Registry, NEW a \in Accounts, NEW n \in Nat,
           NEW s \in unlock_griefing(r, a, n)
    PROVE  /\ s \in Registry /\ SameTokens(r, s) /\ SameExcess(r, s)
           /\ AcceptedGriefing(s) = AcceptedGriefing(r)
           /\ RequestGriefing(s) = Debited(RequestGriefing(r), a, n)
<1>1. /\ s \in Registry /\ SameTokens(r, s) /\ SameExcess(r, s)
      /\ AcceptedGriefing(s) = AcceptedGriefing(r)
      /\ RequestGriefing(s) = [RequestGriefing(r) EXCEPT ![a] = @ + (0 - n)]
  BY UnlockGriefingBooks
<1>2. RequestGriefing(r) \in [Accounts -> Int]
  BY BooksTyped
<1>3. [RequestGriefing(r) EXCEPT ![a] = @ + (0 - n)] = Debited(RequestGriefing(r), a, n)
  BY <1>2, DebitedAs
<1>. QED BY <1>1, <1>3

-----------------------------------------------------------------------------
(* Issue                                                                   *)

(* What is set aside for a request is what was asked for, fee included.    *)
LEMMA SetIssueAmountParts ==
    ASSUME NEW issue \in IssueRequest, NEW x \in Nat, NEW n, n = set_issue_amount(issue, x)
    PROVE  /\ n \in IssueRequest /\ n.amount + n.fee = x
           /\ n.vault = issue.vault /\ n.requester = issue.requester
           /\ n.griefing_collateral = issue.griefing_collateral
           /\ n.status = issue.status /\ n.expired = issue.expired
<1>1. get_issue_fee(x) \in 0 .. x
  BY FeeBounded, FeeAssumption DEF get_issue_fee
<1>2. PICK f : f = get_issue_fee(x) /\ f \in Nat /\ x - f \in Nat /\ (x - f) + f = x
  BY <1>1
<1>3. n = [issue EXCEPT !.fee = f, !.amount = x - f]
  BY <1>2 DEF set_issue_amount
<1>4. n.amount = x - f /\ n.fee = f
  BY <1>3 DEF IssueRequest
<1>5. /\ n.vault = issue.vault /\ n.requester = issue.requester
      /\ n.griefing_collateral = issue.griefing_collateral
      /\ n.status = issue.status /\ n.expired = issue.expired
  BY <1>3 DEF IssueRequest
<1>. QED BY <1>2, <1>4, <1>5, SetIssueAmountType

LEMMA RequestIssueBooks ==
    ASSUME BooksInv, NEW a \in Requesters, NEW v \in Vaults, NEW x \in TokenAmounts,
           request_issue(a, v, x)
    PROVE  /\ Books(registry', tokens', issueRequests', redeemRequests, replaceRequests)
           /\ issued_tokens(registry') = issued_tokens(registry)
           /\ \E y \in IssueRequest : Added(issueRequests, issueRequests', y) /\ y.status = "Pending"
<1>. DEFINE g == get_issue_griefing_collateral(x)
            n == [vault |-> v, requester |-> a, amount |-> 0, fee |-> 0,
                  griefing_collateral |-> g, expired |-> FALSE, status |-> "Pending"]
<1>0. BridgeInv /\ Books(registry, tokens, issueRequests, redeemRequests, replaceRequests)
  BY DEF BooksInv
<1>1. /\ registry \in Registry /\ RegistryOK(registry) /\ tokens \in Ledger
      /\ issueRequests \in Seq(IssueRequest) /\ replaceRequests \in Seq(ReplaceRequest)
      /\ x \in Nat /\ a \in Accounts
  BY <1>0, StateTyped, HoldersTyped, RegistryAssumption
<1>2. g \in Nat
  <2>1. checked_mul(x, GriefingRate) \in Nat
    BY <1>1, FeeAssumption, MulNat
  <2>. QED BY <2>1, FeeAssumption, MulNat DEF get_issue_griefing_collateral
<1>. HIDE DEF g
<1>3. PICK s, q, p, y : /\ s \in try_increase_to_be_issued_tokens(registry, v, x)
                        /\ q = LockGriefing(s, a, g)
                        /\ q = registry' /\ p = issueRequests'
                        /\ y = set_issue_amount(n, x)
                        /\ Added(issueRequests, p, y)
                        /\ tokens' = tokens
  BY DEF request_issue, g, LockGriefing, Added
<1>4. n \in IssueRequest /\ n.requester = a /\ n.griefing_collateral = g /\ n.status = "Pending"
  BY <1>1, <1>2 DEF IssueRequest
<1>. HIDE DEF n
<1>5. /\ y \in IssueRequest /\ y.amount + y.fee = x /\ y.requester = a
      /\ y.griefing_collateral = g /\ y.status = "Pending"
  BY <1>1, <1>3, <1>4, SetIssueAmountParts
<1>6. /\ issued_tokens(s) = issued_tokens(registry)
      /\ to_be_issued_tokens(s) = to_be_issued_tokens(registry) + x
      /\ Redeeming(s) = Redeeming(registry)
      /\ SameGriefing(registry, s) /\ SameExcess(registry, s)
  BY <1>1, <1>3, TryIncreaseToBeIssuedBooks
<1>7. s \in Registry
  BY <1>1, <1>3, TryIncreaseToBeIssuedOK DEF RegistryOK, RegistrySound
<1>8. /\ q \in Registry
      /\ SameTokens(s, q) /\ SameExcess(s, q) /\ AcceptedGriefing(q) = AcceptedGriefing(s)
      /\ RequestGriefing(q) = Credited(RequestGriefing(s), a, g)
  <2>1. q = LockGriefing(s, a, g)
    BY <1>3
  <2>. QED BY <1>1, <1>2, <1>7, <2>1, LockGriefingEffect
<1>9. p \in Seq(IssueRequest) /\ \E k : Opens(issueRequests, p, k) /\ p[k] = y
  BY <1>1, <1>3, <1>5, RequestAddedOpens
<1>10. PICK k : Opens(issueRequests, p, k) /\ p[k] = y
  BY <1>9
<1>11. /\ IssueClaims(p) = IssueClaims(issueRequests) + x
       /\ IssueDeposits(p) = Credited(IssueDeposits(issueRequests), a, g)
  BY <1>1, <1>5, <1>9, <1>10, IssueOpened
<1>12. RequestGriefing(q) = IssueDeposits(p)
  BY <1>0, <1>6, <1>8, <1>11 DEF Books, SameGriefing
<1>13. /\ issued_tokens(q) = issued_tokens(registry) + 0
       /\ to_be_issued_tokens(q) = to_be_issued_tokens(registry) + x
       /\ Supply(tokens) = Supply(tokens) + 0
       /\ Redeeming(q) = Redeeming(registry) /\ SameExcess(registry, q)
       /\ AcceptedGriefing(q) = AcceptedGriefing(registry)
  BY <1>1, <1>6, <1>8, BooksTyped, LedgerTyped, SMTT(60) DEF SameTokens, SameExcess, SameGriefing
<1>14. Books(q, tokens, p, redeemRequests, replaceRequests)
  BY <1>0, <1>1, <1>11, <1>12, <1>13, IssueStep
<1>15. \E z \in IssueRequest : Added(issueRequests, issueRequests', z) /\ z.status = "Pending"
  BY <1>3, <1>5
<1>. QED BY <1>1, <1>3, <1>13, <1>14, <1>15, BooksTyped

(* A registry that is ready for issuing: j more tokens are to be issued,   *)
(* and G is the griefing collateral of issue requests.                     *)
Prepared(r, s, j, G) ==
    /\ RegistryOK(s)
    /\ issued_tokens(s) = issued_tokens(r)
    /\ to_be_issued_tokens(s) = to_be_issued_tokens(r) + j
    /\ Redeeming(s) = Redeeming(r) /\ SameExcess(r, s)
    /\ AcceptedGriefing(s) = AcceptedGriefing(r)
    /\ RequestGriefing(s) = G

(* Minting the two parts of a request.                                     *)
MintBoth(t, a, n, b, k) == mint_to(mint_to(t, a, n), b, k)

LEMMA MintTwice ==
    ASSUME NEW t \in Ledger, NEW a \in Holders, NEW b \in Holders, NEW n \in Nat, NEW k \in Nat,
           NEW s, s = MintBoth(t, a, n, b, k)
    PROVE  /\ s \in Ledger /\ Supply(s) = Supply(t) + (n + k)
           /\ Locks(s) = Locks(t) /\ LockTotal(s) = LockTotal(t)
<1>1. PICK u : u = mint_to(t, a, n)
  OBVIOUS
<1>2. LedgerEffect(t, u, a, n, 0)
  BY <1>1, MintEffect
<1>3. u \in Ledger /\ Supply(u) = Supply(t) + n
  BY <1>2 DEF LedgerEffect
<1>4. LedgerEffect(u, s, b, k, 0)
  BY <1>1, <1>3, MintEffect DEF MintBoth
<1>5. s \in Ledger /\ Supply(s) = Supply(u) + k
  BY <1>4 DEF LedgerEffect
<1>6. Locks(u) = Locks(t) /\ LockTotal(u) = LockTotal(t)
  BY <1>2, LedgerElsewhere
<1>7. Locks(s) = Locks(u) /\ LockTotal(s) = LockTotal(u)
  BY <1>3, <1>4, LedgerElsewhere
<1>8. Supply(t) \in Nat
  BY LedgerTyped
<1>9. Supply(s) = Supply(t) + (n + k)
  BY <1>3, <1>5, <1>8
<1>. QED BY <1>5, <1>6, <1>7, <1>9

LEMMA FinishIssueBooks ==
    ASSUME BooksInv, NEW i \in IssueIds, NEW prepared, NEW total \in Nat, NEW d \in Nat, NEW G,
           \A s \in prepared : Prepared(registry, s, total - d, G),
           finish_issue(i, prepared, total),
           \/ /\ issueRequests[i].status = "Pending"
              /\ d = issueRequests[i].amount + issueRequests[i].fee
              /\ G = Debited(IssueDeposits(issueRequests), issueRequests[i].requester,
                             issueRequests[i].griefing_collateral)
           \/ /\ issueRequests[i].status = "Cancelled"
              /\ d = 0 /\ G = IssueDeposits(issueRequests)
    PROVE  /\ Books(registry', tokens', issueRequests', redeemRequests, replaceRequests)
           /\ issued_tokens(registry') = issued_tokens(registry) + total
           /\ \E x : /\ Revised(issueRequests, issueRequests', i, x)
                     /\ x.status = "Completed" /\ x.amount + x.fee = total
<1>. DEFINE request == issueRequests[i]
<1>0. BridgeInv /\ Books(registry, tokens, issueRequests, redeemRequests, replaceRequests)
  BY DEF BooksInv
<1>1. /\ registry \in Registry /\ RegistryOK(registry) /\ tokens \in Ledger
      /\ issueRequests \in Seq(IssueRequest) /\ replaceRequests \in Seq(ReplaceRequest)
      /\ i \in DOMAIN issueRequests
  BY <1>0, StateTyped DEF IssueIds
<1>2. request \in IssueRequest
  BY <1>1, RequestChanged
<1>3. PICK issue, x, s, b, q, p, u :
           /\ issue = set_issue_amount(request, total)
           /\ x = [issue EXCEPT !.status = "Completed", !.expired = FALSE]
           /\ s \in prepared /\ b \in execute_issue_tokens(s, issue.vault, total)
           /\ q \in distribute_rewards(b, issue.fee)
           /\ u = mint_to(mint_to(tokens, issue.requester, issue.amount), FeePool, issue.fee)
           /\ Revised(issueRequests, p, i, x)
           /\ q = registry' /\ p = issueRequests' /\ u = tokens'
  <2>1. PICK issue : issue = set_issue_amount(request, total)
    OBVIOUS
  <2>2. /\ registry' \in UNION {distribute_rewards(a, issue.fee) :
                                   a \in UNION {execute_issue_tokens(c, issue.vault, total) :
                                                   c \in prepared}}
        /\ tokens' = mint_to(mint_to(tokens, issue.requester, issue.amount), FeePool, issue.fee)
        /\ issueRequests' = [issueRequests EXCEPT ![i] =
                                [issue EXCEPT !.status = "Completed", !.expired = FALSE]]
    BY <2>1 DEF finish_issue
  <2>3. PICK s \in prepared : \E b \in execute_issue_tokens(s, issue.vault, total) :
               registry' \in distribute_rewards(b, issue.fee)
    BY <2>2
  <2>4. PICK b \in execute_issue_tokens(s, issue.vault, total) :
               registry' \in distribute_rewards(b, issue.fee)
    BY <2>3
  <2>5. PICK x : x = [issue EXCEPT !.status = "Completed", !.expired = FALSE]
    OBVIOUS
  <2>6. Revised(issueRequests, issueRequests', i, x)
    BY <1>1, <2>2, <2>5 DEF Revised
  <2>. HIDE DEF request
  <2>. QED BY <2>1, <2>2, <2>3, <2>4, <2>5, <2>6
<1>4. /\ issue \in IssueRequest /\ issue.amount + issue.fee = total
      /\ issue.requester = request.requester
      /\ issue.griefing_collateral = request.griefing_collateral
  <2>1. issue = set_issue_amount(request, total)
    BY <1>3
  <2>. HIDE DEF request
  <2>. QED BY <1>2, <2>1, SetIssueAmountParts
<1>5. /\ issue.vault \in Vaults /\ issue.requester \in Holders
      /\ issue.amount \in Nat /\ issue.fee \in Nat
  BY <1>4, HoldersTyped DEF IssueRequest
<1>6. /\ x \in IssueRequest /\ x.status = "Completed"
      /\ x.amount = issue.amount /\ x.fee = issue.fee
  <2>1. x = [issue EXCEPT !.status = "Completed", !.expired = FALSE]
    BY <1>3
  <2>2. PICK y : y = [issue EXCEPT !.status = "Completed"]
    OBVIOUS
  <2>3. y \in IssueRequest /\ y.status = "Completed" /\ y.amount = issue.amount /\ y.fee = issue.fee
    BY <1>4, <2>2 DEF IssueRequest
  <2>4. x = [y EXCEPT !.expired = FALSE]
    BY <1>4, <2>1, <2>2 DEF IssueRequest
  <2>. QED BY <2>3, <2>4 DEF IssueRequest
<1>. HIDE DEF request
<1>7. Prepared(registry, s, total - d, G)
  BY <1>3
<1>8. /\ RegistryOK(s) /\ s \in Registry
      /\ issued_tokens(s) = issued_tokens(registry)
      /\ to_be_issued_tokens(s) = to_be_issued_tokens(registry) + (total - d)
      /\ Redeeming(s) = Redeeming(registry) /\ SameExcess(registry, s)
      /\ AcceptedGriefing(s) = AcceptedGriefing(registry) /\ RequestGriefing(s) = G
  BY <1>7 DEF Prepared, RegistryOK, RegistrySound
<1>9. /\ issued_tokens(q) = issued_tokens(s) + total
      /\ to_be_issued_tokens(q) = to_be_issued_tokens(s) - total
      /\ Redeeming(q) = Redeeming(s)
      /\ SameGriefing(s, q) /\ SameExcess(s, q)
  <2>1. b \in execute_issue_tokens(s, issue.vault, total)
    BY <1>3
  <2>2. /\ issued_tokens(b) = issued_tokens(s) + total
        /\ to_be_issued_tokens(b) = to_be_issued_tokens(s) - total
        /\ Redeeming(b) = Redeeming(s)
        /\ SameGriefing(s, b) /\ SameExcess(s, b)
    BY <1>5, <1>8, <2>1, ExecuteIssueBooks
  <2>3. b \in Registry
    BY <1>5, <1>8, <2>1, ExecuteIssueTokensOK DEF RegistryOK, RegistrySound
  <2>4. SameBooks(b, q)
    BY <1>3, <2>3, RewardsDistributed, SamePartsBooks
  <2>. QED BY <2>2, <2>4 DEF SameBooks, SameTokens, SameGriefing, SameExcess
<1>10. /\ Supply(u) = Supply(tokens) + total
       /\ Locks(u) = Locks(tokens) /\ LockTotal(u) = LockTotal(tokens)
  <2>1. u = mint_to(mint_to(tokens, issue.requester, issue.amount), FeePool, issue.fee)
    BY <1>3
  <2>2. PICK a \in Holders, n \in Nat, k \in Nat :
             a = issue.requester /\ n = issue.amount /\ k = issue.fee
    BY <1>5
  <2>3. u = MintBoth(tokens, a, n, FeePool, k) /\ FeePool \in Holders
    BY <2>1, <2>2, HoldersTyped DEF MintBoth
  <2>4. /\ u \in Ledger /\ Supply(u) = Supply(tokens) + (n + k)
        /\ Locks(u) = Locks(tokens) /\ LockTotal(u) = LockTotal(tokens)
    BY <1>1, <2>3, MintTwice
  <2>5. n + k = total
    BY <1>4, <2>2
  <2>. QED BY <2>4, <2>5
<1>11. /\ p \in Seq(IssueRequest)
       /\ request.status = "Pending" => Closes(issueRequests, p, i)
       /\ request.status = "Cancelled" => Keeps(issueRequests, p, i)
       /\ request.status = "Cancelled" => i \notin Pending(issueRequests)
  <2>1. Revised(issueRequests, p, i, x)
    BY <1>3
  <2>2. /\ p \in Seq(IssueRequest)
        /\ request.status = "Pending" /\ x.status # "Pending" => Closes(issueRequests, p, i)
        /\ (request.status = "Pending" <=> x.status = "Pending") => Keeps(issueRequests, p, i)
    BY <1>1, <1>6, <2>1, RequestRevised DEF request
  <2>. QED BY <1>6, <2>2 DEF Pending, request
<1>12. IssueClaims(p) = IssueClaims(issueRequests) + (0 - d) /\ G = IssueDeposits(p)
  <2>1. CASE request.status = "Pending"
    <3>1. /\ IssueClaims(p) = IssueClaims(issueRequests) - (request.amount + request.fee)
          /\ IssueDeposits(p) = Debited(IssueDeposits(issueRequests), request.requester,
                                        request.griefing_collateral)
      BY <1>1, <1>11, <2>1, IssueClosed DEF request
    <3>2. /\ d = request.amount + request.fee
          /\ G = Debited(IssueDeposits(issueRequests), request.requester,
                         request.griefing_collateral)
      BY <2>1 DEF request
    <3>3. IssueClaims(issueRequests) \in Nat
      BY <1>1, IssueClaimsTyped
    <3>. QED BY <3>1, <3>2, <3>3
  <2>2. CASE request.status = "Cancelled"
    <3>1. IssueClaims(p) = IssueClaims(issueRequests)
          /\ IssueDeposits(p) = IssueDeposits(issueRequests)
      BY <1>1, <1>11, <2>2, IssueKept
    <3>2. IssueClaims(issueRequests) \in Nat
      BY <1>1, IssueClaimsTyped
    <3>3. d = 0 /\ G = IssueDeposits(issueRequests)
      BY <2>2 DEF request
    <3>. QED BY <3>1, <3>2, <3>3
  <2>. QED BY <2>1, <2>2 DEF request
<1>13. PICK j : j = 0 - d /\ j \in Int
  OBVIOUS
<1>14. /\ issued_tokens(q) = issued_tokens(registry) + total
       /\ to_be_issued_tokens(q) = to_be_issued_tokens(registry) + j
  <2>1. issued_tokens(registry) \in Nat /\ to_be_issued_tokens(registry) \in Nat
    BY <1>1, BooksTyped
  <2>. QED BY <1>8, <1>9, <1>13, <2>1
<1>15. /\ Redeeming(q) = Redeeming(registry) /\ SameExcess(registry, q)
       /\ AcceptedGriefing(q) = AcceptedGriefing(registry)
       /\ RequestGriefing(q) = IssueDeposits(p)
  BY <1>8, <1>9, <1>12 DEF SameExcess, SameGriefing
<1>16. IssueClaims(p) = IssueClaims(issueRequests) + j
  BY <1>12, <1>13
<1>17. Books(q, u, p, redeemRequests, replaceRequests)
  BY <1>0, <1>1, <1>10, <1>13, <1>14, <1>15, <1>16, IssueStep
<1>. QED BY <1>3, <1>4, <1>6, <1>14, <1>17

LEMMA ExecuteIssueKeepsBooks ==
    ASSUME BooksInv, NEW i \in IssueIds, NEW a, NEW x \in TokenAmounts,
           execute_issue(a, i, x)
    PROVE  /\ Books(registry', tokens', issueRequests', redeemRequests, replaceRequests)
           /\ issueRequests[i].status \in {"Pending", "Cancelled"}
           /\ \E total \in Nat :
                 /\ issued_tokens(registry') = issued_tokens(registry) + total
                 /\ \E y : /\ Revised(issueRequests, issueRequests', i, y)
                           /\ y.status = "Completed" /\ y.amount + y.fee = total
<1>. DEFINE issue == issueRequests[i]
            expected == issue.amount + issue.fee
            D == IssueDeposits(issueRequests)
            G == Debited(D, issue.requester, issue.griefing_collateral)
<1>0. /\ BridgeInv /\ Books(registry, tokens, issueRequests, redeemRequests, replaceRequests)
      /\ RegistryOK(registry) /\ ParamsOK /\ x \in Nat /\ registry \in Registry
  BY RegistryAssumption, StateTyped DEF BooksInv
<1>1. issue \in IssueRequest
  BY <1>0, RequestChanged DEF BridgeInv, IssueTypeOK, IssueIds
<1>2. /\ issue.vault \in Vaults /\ issue.requester \in Accounts
      /\ issue.griefing_collateral \in Nat /\ expected \in Nat
      /\ issue.amount \in Nat /\ issue.fee \in Nat
  BY <1>1 DEF IssueRequest
<1>. HIDE DEF issue
<1>a. RequestGriefing(registry) = D
  BY <1>0 DEF Books
<1>b. to_be_issued_tokens(registry) \in Nat
  BY <1>0, BooksTyped
<1>. HIDE DEF D
<1>3. CASE issue.status = "Cancelled" /\ finish_issue(i, reopen_cancelled(issue, x), x)
  <2>1. ASSUME NEW s \in reopen_cancelled(issue, x) PROVE Prepared(registry, s, x - 0, D)
    <3>1. s \in try_increase_to_be_issued_tokens(registry, issue.vault, x)
      BY <2>1 DEF reopen_cancelled
    <3>2. RegistryOK(s)
      BY <1>0, <1>2, <3>1, TryIncreaseToBeIssuedOK
    <3>3. /\ issued_tokens(s) = issued_tokens(registry)
          /\ to_be_issued_tokens(s) = to_be_issued_tokens(registry) + x
          /\ Redeeming(s) = Redeeming(registry)
          /\ SameGriefing(registry, s) /\ SameExcess(registry, s)
      BY <1>0, <1>2, <3>1, TryIncreaseToBeIssuedBooks
    <3>4. x - 0 = x
      BY <1>0
    <3>. QED BY <1>a, <3>2, <3>3, <3>4 DEF Prepared, SameGriefing
  <2>2. 0 \in Nat
    OBVIOUS
  <2>. QED BY <1>0, <1>3, <2>1, <2>2, FinishIssueBooks DEF issue, D
<1>4. CASE /\ issue.status = "Pending" /\ x < expected
           /\ finish_issue(i, decrease_issue_amount(issue, x), x)
  <2>1. ASSUME NEW s \in decrease_issue_amount(issue, x)
        PROVE  Prepared(registry, s, x - expected, G)
    <3>0. PICK d : d = issue.amount + issue.fee - x
      OBVIOUS
    <3>1. PICK q : /\ q \in decrease_to_be_issued(registry, issue.vault, d)
                   /\ s \in unlock_griefing(q, issue.requester, issue.griefing_collateral)
      BY <2>1, <3>0, Zenon DEF decrease_issue_amount
    <3>2. d \in Nat /\ 0 - d = x - expected
      BY <1>0, <1>2, <1>4, <3>0
    <3>3. RegistryOK(q) /\ q \in Registry
      BY <1>0, <1>2, <3>1, <3>2, DecreaseToBeIssuedOK DEF RegistryOK, RegistrySound
    <3>4. RegistryOK(s)
      BY <1>2, <3>1, <3>3, UnlockGriefingOK
    <3>5. /\ issued_tokens(q) = issued_tokens(registry)
          /\ to_be_issued_tokens(q) = to_be_issued_tokens(registry) - d
          /\ Redeeming(q) = Redeeming(registry)
          /\ SameGriefing(registry, q) /\ SameExcess(registry, q)
      BY <1>0, <1>2, <3>1, <3>2, DecreaseToBeIssuedBooks
    <3>6. /\ s \in Registry /\ SameTokens(q, s) /\ SameExcess(q, s)
          /\ AcceptedGriefing(s) = AcceptedGriefing(q)
          /\ RequestGriefing(s) = Debited(RequestGriefing(q), issue.requester,
                                          issue.griefing_collateral)
      BY <1>2, <3>1, <3>3, UnlockGriefingEffect
    <3>7. to_be_issued_tokens(s) = to_be_issued_tokens(registry) + (x - expected)
      <4>1. to_be_issued_tokens(s) = to_be_issued_tokens(registry) - d
        BY <3>5, <3>6 DEF SameTokens
      <4>2. to_be_issued_tokens(registry) - d = to_be_issued_tokens(registry) + (0 - d)
        BY <1>b, <3>2
      <4>. QED BY <3>2, <4>1, <4>2
    <3>. HIDE DEF expected
    <3>. QED BY <1>a, <3>4, <3>5, <3>6, <3>7 DEF Prepared, SameGriefing, SameTokens, SameExcess
  <2>. HIDE DEF G
  <2>2. G = Debited(IssueDeposits(issueRequests), issueRequests[i].requester,
                    issueRequests[i].griefing_collateral)
    BY DEF G, D, issue
  <2>8. PICK S, d : S = decrease_issue_amount(issue, x) /\ d = expected /\ d \in Nat
    BY <1>2
  <2>9. /\ \A s \in S : Prepared(registry, s, x - d, G)
        /\ finish_issue(i, S, x)
        /\ issueRequests[i].status = "Pending"
        /\ d = issueRequests[i].amount + issueRequests[i].fee /\ d \in Nat
    BY <1>4, <2>1, <2>8 DEF issue
  <2>10. /\ Books(registry', tokens', issueRequests', redeemRequests, replaceRequests)
         /\ issued_tokens(registry') = issued_tokens(registry) + x
         /\ \E y : /\ Revised(issueRequests, issueRequests', i, y)
                   /\ y.status = "Completed" /\ y.amount + y.fee = x
    BY <1>0, <2>2, <2>9, FinishIssueBooks
  <2>. QED BY <1>0, <2>9, <2>10
<1>5. ASSUME issue.status = "Pending", x >= expected, NEW k \in surplus_issued(issue, x),
             finish_issue(i, increase_issue_amount(issue, k), expected + k)
      PROVE  /\ Books(registry', tokens', issueRequests', redeemRequests, replaceRequests)
             /\ issueRequests[i].status \in {"Pending", "Cancelled"}
             /\ \E total \in Nat :
                   /\ issued_tokens(registry') = issued_tokens(registry) + total
                   /\ \E y : /\ Revised(issueRequests, issueRequests', i, y)
                             /\ y.status = "Completed" /\ y.amount + y.fee = total
  <2>. DEFINE w == registry.vault[issue.vault]
  <2>1. w \in Vault
    BY <1>0, <1>2, VaultsTyped DEF RegistryOK
  <2>2. issuable_tokens(w) \in Nat /\ x - expected \in Nat
    BY <1>0, <1>2, <1>5, <2>1, IssuableNat
  <2>3. k \in Nat
    <3>1. k = 0 \/ k = min(x - expected, issuable_tokens(w))
      BY <1>5 DEF surplus_issued, Try
    <3>. QED BY <2>2, <3>1 DEF min
  <2>4. PICK total \in Nat : total = expected + k /\ total - expected = k
    BY <1>2, <2>3
  <2>5. ASSUME NEW s \in increase_issue_amount(issue, k)
        PROVE  Prepared(registry, s, total - expected, G)
    <3>1. PICK q : /\ \/ k = 0 /\ q = registry
                      \/ q \in try_increase_to_be_issued_tokens(registry, issue.vault, k)
                   /\ s \in unlock_griefing(q, issue.requester, issue.griefing_collateral)
      BY <2>5 DEF increase_issue_amount
    <3>2. RegistryOK(q) /\ q \in Registry
      BY <1>0, <1>2, <2>3, <3>1, TryIncreaseToBeIssuedOK DEF RegistryOK, RegistrySound
    <3>3. RegistryOK(s)
      BY <1>2, <3>1, <3>2, UnlockGriefingOK
    <3>4. /\ issued_tokens(q) = issued_tokens(registry)
          /\ to_be_issued_tokens(q) = to_be_issued_tokens(registry) + k
          /\ Redeeming(q) = Redeeming(registry)
          /\ SameGriefing(registry, q) /\ SameExcess(registry, q)
      <4>1. CASE k = 0 /\ q = registry
        BY <1>b, <4>1 DEF SameGriefing, SameExcess
      <4>2. CASE q \in try_increase_to_be_issued_tokens(registry, issue.vault, k)
        BY <1>0, <1>2, <2>3, <4>2, TryIncreaseToBeIssuedBooks
      <4>. QED BY <3>1, <4>1, <4>2
    <3>5. /\ s \in Registry /\ SameTokens(q, s) /\ SameExcess(q, s)
          /\ AcceptedGriefing(s) = AcceptedGriefing(q)
          /\ RequestGriefing(s) = Debited(RequestGriefing(q), issue.requester,
                                          issue.griefing_collateral)
      BY <1>2, <3>1, <3>2, UnlockGriefingEffect
    <3>. HIDE DEF expected
    <3>. QED BY <1>a, <2>4, <3>3, <3>4, <3>5 DEF Prepared, SameGriefing, SameTokens, SameExcess
  <2>6. finish_issue(i, increase_issue_amount(issue, k), total)
    BY <1>5, <2>4
  <2>. HIDE DEF G
  <2>7. G = Debited(IssueDeposits(issueRequests), issueRequests[i].requester,
                    issueRequests[i].griefing_collateral)
    BY DEF G, D, issue
  <2>8. PICK S, d : S = increase_issue_amount(issue, k) /\ d = expected /\ d \in Nat
    BY <1>2
  <2>9. /\ \A s \in S : Prepared(registry, s, total - d, G)
        /\ finish_issue(i, S, total)
        /\ issueRequests[i].status = "Pending"
        /\ d = issueRequests[i].amount + issueRequests[i].fee /\ d \in Nat
    BY <1>5, <2>5, <2>6, <2>8 DEF issue
  <2>10. /\ Books(registry', tokens', issueRequests', redeemRequests, replaceRequests)
         /\ issued_tokens(registry') = issued_tokens(registry) + total
         /\ \E y : /\ Revised(issueRequests, issueRequests', i, y)
                   /\ y.status = "Completed" /\ y.amount + y.fee = total
    BY <1>0, <2>7, <2>9, FinishIssueBooks
  <2>. QED BY <1>0, <2>4, <2>9, <2>10
<1>. QED BY <1>3, <1>4, <1>5 DEF execute_issue, issue

LEMMA CancelIssueBooks ==
    ASSUME BooksInv, NEW i \in IssueIds, NEW a, cancel_issue(a, i)
    PROVE  /\ Books(registry', tokens', issueRequests', redeemRequests, replaceRequests)
           /\ issued_tokens(registry') = issued_tokens(registry)
           /\ issueRequests[i].status = "Pending"
           /\ \E y : Revised(issueRequests, issueRequests', i, y) /\ y.status = "Cancelled"
<1>. DEFINE issue == issueRequests[i]
<1>0. BridgeInv /\ Books(registry, tokens, issueRequests, redeemRequests, replaceRequests)
  BY DEF BooksInv
<1>1. /\ registry \in Registry /\ RegistryOK(registry) /\ tokens \in Ledger
      /\ issueRequests \in Seq(IssueRequest) /\ replaceRequests \in Seq(ReplaceRequest)
      /\ i \in DOMAIN issueRequests
  BY <1>0, StateTyped DEF IssueIds
<1>2. issue \in IssueRequest
  BY <1>1, RequestChanged
<1>3. PICK v, b, g, n, y :
           /\ v = issue.vault /\ b = issue.requester /\ g = issue.griefing_collateral
           /\ n = issue.amount + issue.fee
           /\ y = [issue EXCEPT !.status = "Cancelled", !.expired = FALSE]
           /\ v \in Vaults /\ b \in Accounts /\ g \in Nat /\ n \in Nat
  BY <1>2 DEF IssueRequest
<1>4. y \in IssueRequest /\ y.status = "Cancelled"
  <2>1. PICK z : z = [issue EXCEPT !.status = "Cancelled"]
    OBVIOUS
  <2>2. z \in IssueRequest /\ z.status = "Cancelled" /\ y = [z EXCEPT !.expired = FALSE]
    BY <1>2, <1>3, <2>1 DEF IssueRequest
  <2>. QED BY <2>2 DEF IssueRequest
<1>5. PICK s, q, p : /\ s \in unlock_griefing(registry, b, g)
                     /\ q \in decrease_to_be_issued(s, v, n)
                     /\ q = registry' /\ p = issueRequests' /\ tokens' = tokens
                     /\ issue.status = "Pending"
                     /\ Revised(issueRequests, p, i, y)
  BY <1>1, <1>3 DEF cancel_issue, Revised
<1>. HIDE DEF issue
<1>6. RegistryOK(s)
  BY <1>1, <1>3, <1>5, UnlockGriefingOK
<1>7. /\ s \in Registry /\ SameTokens(registry, s) /\ SameExcess(registry, s)
      /\ AcceptedGriefing(s) = AcceptedGriefing(registry)
      /\ RequestGriefing(s) = Debited(RequestGriefing(registry), b, g)
  BY <1>1, <1>3, <1>5, UnlockGriefingEffect
<1>8. /\ issued_tokens(q) = issued_tokens(s)
      /\ to_be_issued_tokens(q) = to_be_issued_tokens(s) - n
      /\ Redeeming(q) = Redeeming(s)
      /\ SameGriefing(s, q) /\ SameExcess(s, q)
  BY <1>3, <1>5, <1>6, DecreaseToBeIssuedBooks
<1>9. p \in Seq(IssueRequest) /\ Closes(issueRequests, p, i)
  <2>1. Revised(issueRequests, p, i, y) /\ issue.status = "Pending" /\ y.status # "Pending"
    BY <1>4, <1>5
  <2>. QED BY <1>1, <1>4, <2>1, RequestRevised DEF issue
<1>10. /\ IssueClaims(p) = IssueClaims(issueRequests) - n
       /\ IssueDeposits(p) = Debited(IssueDeposits(issueRequests), b, g)
  BY <1>1, <1>3, <1>9, IssueClosed DEF issue
<1>11. PICK j : j = 0 - n /\ j \in Int
  BY <1>3
<1>12. /\ issued_tokens(registry) \in Nat /\ to_be_issued_tokens(registry) \in Nat
       /\ Supply(tokens) \in Nat /\ IssueClaims(issueRequests) \in Nat
  BY <1>1, BooksTyped, LedgerTyped, IssueClaimsTyped
<1>13. /\ issued_tokens(q) = issued_tokens(registry) + 0
       /\ to_be_issued_tokens(q) = to_be_issued_tokens(registry) + j
       /\ Supply(tokens) = Supply(tokens) + 0
       /\ IssueClaims(p) = IssueClaims(issueRequests) + j
  BY <1>3, <1>7, <1>8, <1>10, <1>11, <1>12 DEF SameTokens
<1>14. /\ Redeeming(q) = Redeeming(registry) /\ SameExcess(registry, q)
       /\ AcceptedGriefing(q) = AcceptedGriefing(registry)
       /\ RequestGriefing(q) = IssueDeposits(p)
  BY <1>0, <1>7, <1>8, <1>10 DEF Books, SameTokens, SameExcess, SameGriefing
<1>15. Books(q, tokens, p, redeemRequests, replaceRequests)
  BY <1>0, <1>1, <1>11, <1>13, <1>14, IssueStep
<1>. QED BY <1>4, <1>5, <1>12, <1>13, <1>15 DEF issue

LEMMA IssueExpiresBooks ==
    ASSUME BooksInv, NEW i \in IssueIds, issue_expires(i)
    PROVE  /\ Books(registry', tokens', issueRequests', redeemRequests, replaceRequests)
           /\ UNCHANGED <<registry, tokens>>
           /\ issueRequests[i].status = "Pending"
           /\ \E y : Revised(issueRequests, issueRequests', i, y) /\ y.status = "Pending"
<1>. DEFINE issue == issueRequests[i]
<1>0. BridgeInv /\ Books(registry, tokens, issueRequests, redeemRequests, replaceRequests)
  BY DEF BooksInv
<1>1. issueRequests \in Seq(IssueRequest) /\ i \in DOMAIN issueRequests
  BY <1>0, StateTyped DEF IssueIds
<1>2. issue \in IssueRequest
  BY <1>1, RequestChanged
<1>3. PICK p, y : /\ y = [issue EXCEPT !.expired = TRUE] /\ p = issueRequests'
                  /\ registry' = registry /\ tokens' = tokens /\ issue.status = "Pending"
                  /\ Revised(issueRequests, p, i, y)
  BY <1>1 DEF issue_expires, registryVars, Revised
<1>4. /\ y \in IssueRequest /\ y.status = "Pending" /\ y.amount = issue.amount
      /\ y.fee = issue.fee /\ y.griefing_collateral = issue.griefing_collateral
      /\ y.requester = issue.requester
  BY <1>2, <1>3 DEF IssueRequest
<1>. HIDE DEF issue
<1>5. p \in Seq(IssueRequest) /\ Keeps(issueRequests, p, i) /\ p[i] = y
  <2>1. Revised(issueRequests, p, i, y) /\ (issue.status = "Pending" <=> y.status = "Pending")
    BY <1>3, <1>4
  <2>. QED BY <1>1, <1>4, <2>1, RequestRevised DEF issue
<1>6. /\ IssueClaims(p) = IssueClaims(issueRequests)
      /\ IssueDeposits(p) = IssueDeposits(issueRequests)
  BY <1>1, <1>4, <1>5, IssueKept DEF issue
<1>7. Books(registry, tokens, p, redeemRequests, replaceRequests)
  BY <1>0, <1>6 DEF Books
<1>. QED BY <1>3, <1>4, <1>7 DEF issue

-----------------------------------------------------------------------------
(* Redeem                                                                  *)

LEMMA ReleaseReplaceCollateralBooks ==
    ASSUME NEW r, RegistryOK(r), NEW v \in Vaults, NEW n \in Nat,
           NEW s \in release_replace_collateral(r, v, n)
    PROVE  SameBooks(r, s)
<1>1. PICK g, q : /\ g = used_replace_collateral(r.vault[v], n)
                  /\ q = decrease_to_be_replaced_tokens(r, v, n)
  OBVIOUS
<1>2. r.vault[v] \in Vault
  BY VaultsTyped DEF RegistryOK
<1>3. g \in Nat
  BY <1>1, <1>2, UsedReplace DEF Vault
<1>4. SameBooks(r, q) /\ q \in Registry
  BY <1>1, OffersBooks, DecreaseToBeReplacedOK DEF RegistryOK, RegistrySound
<1>5. CASE g = 0
  BY <1>1, <1>4, <1>5 DEF release_replace_collateral
<1>6. CASE g # 0
  <2>1. s \in release_funds(q, <<"AvailableReplaceCollateral", v>>, g)
    BY <1>1, <1>6, ToFreeBalance DEF release_replace_collateral
  <2>2. s \in Registry /\ SameBooks(q, s)
    BY <1>3, <1>4, <2>1, ReleaseOfferBooks
  <2>. QED BY <1>4, <2>2, SameChain
<1>. QED BY <1>5, <1>6

LEMMA CreditedNegative ==
    ASSUME NEW A, NEW f \in [A -> Nat], NEW a \in A, NEW n \in Nat, NEW k, k = 0 - n
    PROVE  Credited(f, a, k) = Debited(f, a, n)
<1>1. f \in [A -> Int]
  OBVIOUS
<1>2. [f EXCEPT ![a] = @ + (0 - n)] = Debited(f, a, n)
  BY <1>1, DebitedAs
<1>. QED BY <1>2 DEF Credited

LEMMA CreditDebit ==
    ASSUME NEW f \in [Vaults -> Nat], NEW v \in Vaults, NEW n \in Nat
    PROVE  Debited(Credited(f, v, n), v, n) = f
<1>1. PICK h : h = Credited(f, v, n)
  OBVIOUS
<1>2. h \in [Vaults -> Nat] /\ h[v] = f[v] + n /\ \A w \in Vaults : w # v => h[w] = f[w]
  BY <1>1 DEF Credited
<1>3. h[v] - n = f[v]
  BY <1>2
<1>4. [h EXCEPT ![v] = f[v]] = f
  BY <1>2
<1>. QED BY <1>1, <1>3, <1>4 DEF Debited

LEMMA RequestRedeemBooks ==
    ASSUME BooksInv, NEW a \in Requesters, NEW v \in Vaults, NEW x \in TokenAmounts,
           NEW f \in InclusionFees, request_redeem(a, v, x, f), RedeemTypeOK'
    PROVE  /\ Books(registry', tokens', issueRequests, redeemRequests', replaceRequests)
           /\ issued_tokens(registry') = issued_tokens(registry)
           /\ \E y \in RedeemRequest : Added(redeemRequests, redeemRequests', y) /\ y.status = "Pending"
<1>0. BridgeInv /\ Books(registry, tokens, issueRequests, redeemRequests, replaceRequests)
  BY DEF BooksInv
<1>1. /\ registry \in Registry /\ RegistryOK(registry) /\ tokens \in Ledger
      /\ redeemRequests \in Seq(RedeemRequest) /\ replaceRequests \in Seq(ReplaceRequest)
      /\ x \in Nat /\ f \in Nat /\ a \in Accounts /\ a \in Holders
  BY <1>0, StateTyped, HoldersTyped, RegistryAssumption, RedeemAssumption
<1>2. PICK fee : fee = IF a = v THEN 0 ELSE get_redeem_fee(x)
  OBVIOUS
<1>3. fee \in Nat /\ fee <= x
  BY <1>1, <1>2, FeeBounded, FeeAssumption DEF get_redeem_fee
<1>4. PICK n, c : n = x - fee /\ c = n - f
  OBVIOUS
<1>5. PICK s, q, u, p, m, y :
           /\ f <= n
           /\ s \in try_increase_to_be_redeemed_tokens(registry, v, n)
           /\ q \in release_replace_collateral(s, v, n)
           /\ u \in lock_on(tokens, a, x)
           /\ y = [vault |-> v, redeemer |-> a, amount_btc |-> c, transfer_fee_btc |-> f,
                   fee |-> fee, premium |-> m, expired |-> FALSE, status |-> "Pending"]
           /\ Added(redeemRequests, p, y)
           /\ q = registry' /\ u = tokens' /\ p = redeemRequests'
  BY <1>2, <1>4 DEF request_redeem, Added
<1>6. n \in Nat /\ c \in Nat /\ c + f = n /\ n + fee = x
  <2>1. n \in Nat /\ f <= n
    BY <1>1, <1>3, <1>4, <1>5
  <2>. QED BY <1>1, <1>3, <1>4, <2>1
<1>7. y.vault = v /\ y.redeemer = a /\ burn_amount(y) = n /\ y.fee = fee /\ y.status = "Pending"
  BY <1>5, <1>6 DEF burn_amount
<1>8. p \in Seq(RedeemRequest) /\ y \in RedeemRequest
  <2>1. p \in Seq(RedeemRequest)
    BY <1>5 DEF RedeemTypeOK
  <2>2. p = Append(redeemRequests, y)
    BY <1>5 DEF Added
  <2>3. Len(redeemRequests) + 1 \in DOMAIN p /\ p[Len(redeemRequests) + 1] = y
    BY <1>1, <2>2
  <2>. QED BY <2>1, <2>3, RequestChanged
<1>9. PICK k : Opens(redeemRequests, p, k) /\ p[k] = y
  <2>1. Added(redeemRequests, p, y)
    BY <1>5
  <2>. QED BY <1>1, <1>7, <1>8, <2>1, RequestAddedOpens
<1>10. /\ RedeemPromises(p) = RedeemPromises(redeemRequests) + n
       /\ RedeemLockTotal(p) = RedeemLockTotal(redeemRequests) + x
       /\ RedeemClaims(p) = Credited(RedeemClaims(redeemRequests), v, n)
       /\ RedeemLocks(p) = Credited(RedeemLocks(redeemRequests), a, x)
  BY <1>1, <1>6, <1>7, <1>8, <1>9, RedeemOpened
<1>11. RegistryOK(s) /\ RegistryOK(q) /\ q \in Registry
  <2>1. RegistryOK(s)
    BY <1>1, <1>5, <1>6, TryIncreaseToBeRedeemedOK
  <2>2. RegistryOK(q)
    BY <1>5, <1>6, <2>1, ReleaseReplaceCollateralOK
  <2>. QED BY <2>1, <2>2 DEF RegistryOK, RegistrySound
<1>12. /\ issued_tokens(s) = issued_tokens(registry)
       /\ to_be_issued_tokens(s) = to_be_issued_tokens(registry)
       /\ Redeeming(s) = Credited(Redeeming(registry), v, n)
       /\ SameGriefing(registry, s) /\ SameExcess(registry, s)
  BY <1>1, <1>5, <1>6, TryIncreaseToBeRedeemedBooks DEF Credited
<1>13. SameBooks(s, q)
  BY <1>5, <1>6, <1>11, ReleaseReplaceCollateralBooks
<1>14. LedgerEffect(tokens, u, a, 0, x)
  BY <1>1, <1>5, LockEffect
<1>15. /\ issued_tokens(registry) \in Nat /\ Redeeming(registry) \in [Vaults -> Nat]
       /\ RedeemClaims(redeemRequests) \in [Vaults -> Nat]
       /\ Redeeming(q) \in [Vaults -> Nat] /\ RedeemClaims(p) \in [Vaults -> Nat]
  BY <1>1, <1>8, <1>11, BooksTyped, RedeemClaimsTyped
<1>16. /\ issued_tokens(q) = issued_tokens(registry) + 0
       /\ to_be_issued_tokens(q) = to_be_issued_tokens(registry)
       /\ Redeeming(q) = Credited(Redeeming(registry), v, n)
       /\ SameGriefing(registry, q) /\ SameExcess(registry, q)
  BY <1>12, <1>13, <1>15 DEF SameBooks, SameTokens, SameGriefing, SameExcess
<1>17. Follows(Redeeming(registry), Redeeming(q), RedeemClaims(redeemRequests), RedeemClaims(p))
  BY <1>6, <1>10, <1>15, <1>16, FollowCredit
<1>18. /\ Supply(u) = Supply(tokens) + 0
       /\ Locks(u) = RedeemLocks(p) /\ LockTotal(u) = RedeemLockTotal(p)
  BY <1>0, <1>10, <1>14 DEF Books, LedgerEffect
<1>19. Books(q, u, issueRequests, p, replaceRequests)
  BY <1>0, <1>1, <1>15, <1>16, <1>17, <1>18, RedeemStep
<1>. QED BY <1>5, <1>7, <1>8, <1>15, <1>16, <1>19

LEMMA RedeemRevised ==
    ASSUME BridgeInv, NEW i \in RedeemIds, NEW st \in RedeemRequestStatus,
           NEW p, p = set_redeem_status(i, st)
    PROVE  \E y \in RedeemRequest :
              /\ Revised(redeemRequests, p, i, y) /\ y.status = st
              /\ burn_amount(y) = burn_amount(redeemRequests[i])
<1>. DEFINE redeem == redeemRequests[i]
<1>1. i \in DOMAIN redeemRequests /\ redeem \in RedeemRequest
  BY RedeemTyped DEF RedeemIds
<1>2. PICK z, y : z = [redeem EXCEPT !.status = st] /\ y = [z EXCEPT !.expired = FALSE]
  OBVIOUS
<1>3. Revised(redeemRequests, p, i, y)
  BY <1>1, <1>2 DEF Revised, set_redeem_status, RedeemRequest
<1>. HIDE DEF redeem
<1>4. z \in RedeemRequest /\ z.status = st /\ burn_amount(z) = burn_amount(redeem)
  BY <1>1, <1>2 DEF RedeemRequest, burn_amount
<1>5. y \in RedeemRequest /\ y.status = st /\ burn_amount(y) = burn_amount(z)
  BY <1>2, <1>4 DEF RedeemRequest, burn_amount
<1>. QED BY <1>3, <1>4, <1>5 DEF redeem

(* A pending request is settled: the vault is to redeem less by what it    *)
(* stands for, and its redeemer has that and the fee locked no longer.     *)
LEMMA RedeemSettledBooks ==
    ASSUME BooksInv, NEW i \in RedeemIds, redeemRequests[i].status = "Pending",
           NEW st \in RedeemRequestStatus, st # "Pending",
           NEW q \in Registry, NEW u, NEW p, NEW m \in Int, NEW n, NEW k,
           n = burn_amount(redeemRequests[i]), k = n + redeemRequests[i].fee,
           p = set_redeem_status(i, st),
           issued_tokens(q) = issued_tokens(registry) + m,
           to_be_issued_tokens(q) = to_be_issued_tokens(registry),
           Redeeming(q) = Debited(Redeeming(registry), redeemRequests[i].vault, n),
           SameGriefing(registry, q), SameExcess(registry, q),
           LedgerEffect(tokens, u, redeemRequests[i].redeemer, m, 0 - k)
    PROVE  /\ Books(q, u, issueRequests, p, replaceRequests)
           /\ \E y : /\ Revised(redeemRequests, p, i, y) /\ y.status = st
                     /\ burn_amount(y) = burn_amount(redeemRequests[i])
<1>0. BridgeInv /\ Books(registry, tokens, issueRequests, redeemRequests, replaceRequests)
  BY DEF BooksInv
<1>1. /\ registry \in Registry /\ RegistryOK(registry) /\ tokens \in Ledger
      /\ redeemRequests \in Seq(RedeemRequest) /\ replaceRequests \in Seq(ReplaceRequest)
  BY <1>0, StateTyped
<1>2. PICK v, a, fee :
           /\ v = redeemRequests[i].vault /\ a = redeemRequests[i].redeemer
           /\ fee = redeemRequests[i].fee
           /\ v \in Vaults /\ a \in Holders /\ fee \in Nat /\ n \in Nat
  BY <1>0, RedeemTyped, HoldersTyped
<1>3. k \in Nat /\ k = n + fee
  BY <1>2
<1>4. PICK y \in RedeemRequest :
           /\ Revised(redeemRequests, p, i, y) /\ y.status = st
           /\ burn_amount(y) = burn_amount(redeemRequests[i])
  BY <1>0, RedeemRevised
<1>5. p \in Seq(RedeemRequest) /\ Closes(redeemRequests, p, i)
  BY <1>1, <1>4, RequestRevised
<1>6. /\ RedeemPromises(p) = RedeemPromises(redeemRequests) - n
      /\ RedeemLockTotal(p) = RedeemLockTotal(redeemRequests) - k
      /\ RedeemClaims(p) = Debited(RedeemClaims(redeemRequests), v, n)
      /\ RedeemLocks(p) = Debited(RedeemLocks(redeemRequests), a, k)
  BY <1>1, <1>2, <1>3, <1>5, RedeemClosed
<1>7. /\ RedeemClaims(redeemRequests) \in [Vaults -> Nat] /\ RedeemClaims(p) \in [Vaults -> Nat]
      /\ RedeemLocks(redeemRequests) \in [Holders -> Nat]
      /\ RedeemLockTotal(redeemRequests) \in Nat
      /\ Redeeming(registry) \in [Vaults -> Nat] /\ Redeeming(q) \in [Vaults -> Nat]
  BY <1>1, <1>5, RedeemClaimsTyped, BooksTyped
<1>8. Follows(Redeeming(registry), Redeeming(q), RedeemClaims(redeemRequests), RedeemClaims(p))
  <2>1. Redeeming(q) = Debited(Redeeming(registry), v, n)
    BY <1>2
  <2>. QED BY <1>2, <1>6, <1>7, <2>1, FollowCredit
<1>9. PICK l : l = 0 - k
  OBVIOUS
<1>10. /\ Supply(u) = Supply(tokens) + m
       /\ LockTotal(u) = LockTotal(tokens) + l
       /\ Locks(u) = Credited(Locks(tokens), a, l)
  BY <1>2, <1>9 DEF LedgerEffect
<1>11. Locks(u) = RedeemLocks(p)
  <2>1. Locks(u) = Credited(RedeemLocks(redeemRequests), a, l)
    BY <1>0, <1>10 DEF Books
  <2>2. Credited(RedeemLocks(redeemRequests), a, l) = Debited(RedeemLocks(redeemRequests), a, k)
    BY <1>2, <1>3, <1>7, <1>9, CreditedNegative
  <2>. QED BY <1>6, <2>1, <2>2
<1>12. LockTotal(u) = RedeemLockTotal(p)
  <2>1. LockTotal(u) = RedeemLockTotal(redeemRequests) + l
    BY <1>0, <1>10 DEF Books
  <2>. QED BY <1>3, <1>6, <1>7, <1>9, <2>1
<1>13. Books(q, u, issueRequests, p, replaceRequests)
  BY <1>0, <1>1, <1>7, <1>8, <1>10, <1>11, <1>12, RedeemStep
<1>. QED BY <1>4, <1>13

LEMMA ExecuteRedeemKeepsBooks ==
    ASSUME BooksInv, NEW i \in RedeemIds, execute_redeem(i)
    PROVE  /\ Books(registry', tokens', issueRequests, redeemRequests', replaceRequests)
           /\ redeemRequests[i].status = "Pending"
           /\ issued_tokens(registry') = issued_tokens(registry) - burn_amount(redeemRequests[i])
           /\ \E y : /\ Revised(redeemRequests, redeemRequests', i, y) /\ y.status = "Completed"
                     /\ burn_amount(y) = burn_amount(redeemRequests[i])
<1>. DEFINE redeem == redeemRequests[i]
<1>0. BridgeInv /\ Books(registry, tokens, issueRequests, redeemRequests, replaceRequests)
  BY DEF BooksInv
<1>1. registry \in Registry /\ RegistryOK(registry) /\ ParamsOK /\ tokens \in Ledger
  BY <1>0, StateTyped
<1>2. PICK v, a, n, fee, pr :
           /\ v = redeem.vault /\ a = redeem.redeemer /\ n = burn_amount(redeem)
           /\ fee = redeem.fee /\ pr = redeem.premium
           /\ v \in Vaults /\ a \in Holders /\ n \in Nat /\ fee \in Nat /\ pr \in Nat
  BY <1>0, RedeemTyped, HoldersTyped
<1>3. PICK d, q, t, u, p :
           /\ redeem.status = "Pending"
           /\ d \in distribute_rewards(registry, fee) /\ q \in redeem_tokens(d, v, n, pr)
           /\ t \in burn_from(tokens, a, n) /\ u \in unlock_and_transfer(t, a, FeePool, fee)
           /\ p = set_redeem_status(i, "Completed")
           /\ q = registry' /\ u = tokens' /\ p = redeemRequests'
  BY <1>2 DEF execute_redeem
<1>. HIDE DEF redeem
<1>a. RegistryOK(d) /\ SameBooks(registry, d)
  BY <1>1, <1>3, RewardsDistributed, SamePartsOK, SamePartsBooks
<1>4. /\ issued_tokens(q) = issued_tokens(registry) - n
      /\ to_be_issued_tokens(q) = to_be_issued_tokens(registry)
      /\ Redeeming(q) = Debited(Redeeming(registry), v, n)
      /\ SameGriefing(registry, q) /\ SameExcess(registry, q)
  <2>1. /\ issued_tokens(q) = issued_tokens(d) - n
        /\ to_be_issued_tokens(q) = to_be_issued_tokens(d)
        /\ Redeeming(q) = Debited(Redeeming(d), v, n)
        /\ SameGriefing(d, q) /\ SameExcess(d, q)
    BY <1>1, <1>2, <1>3, <1>a, RedeemTokensBooks DEF Debited
  <2>. QED BY <1>a, <2>1 DEF SameBooks, SameTokens, SameGriefing, SameExcess
<1>5. q \in Registry
  BY <1>1, <1>2, <1>3, <1>a, RedeemTokensOK DEF RegistryOK, RegistrySound
<1>6. PICK m, l, k, j : m = 0 - n /\ l = 0 - fee /\ k = n + fee /\ j = 0 - k
  OBVIOUS
<1>7. m \in Int /\ l \in Int /\ m + l = j /\ m + 0 = m
  BY <1>2, <1>6
<1>8. LedgerEffect(tokens, t, a, m, m)
  BY <1>1, <1>2, <1>3, <1>6, BurnEffect
<1>9. t \in Ledger
  BY <1>8 DEF LedgerEffect
<1>10. LedgerEffect(t, u, a, 0, l)
  BY <1>2, <1>3, <1>6, <1>9, UnlockTransferEffect, HoldersTyped
<1>11. LedgerEffect(tokens, u, a, m + 0, m + l)
  BY <1>1, <1>2, <1>7, <1>8, <1>10, LedgerChain
<1>12. LedgerEffect(tokens, u, redeemRequests[i].redeemer, m, 0 - k)
  BY <1>2, <1>6, <1>7, <1>11 DEF redeem
<1>13. issued_tokens(registry) \in Nat
  BY <1>1, BooksTyped
<1>14. issued_tokens(q) = issued_tokens(registry) + m
  BY <1>2, <1>4, <1>6, <1>13
<1>15. "Completed" \in RedeemRequestStatus /\ "Completed" # "Pending"
  BY DEF RedeemRequestStatus
<1>16. /\ redeemRequests[i].status = "Pending" /\ n = burn_amount(redeemRequests[i])
       /\ k = n + redeemRequests[i].fee
       /\ Redeeming(q) = Debited(Redeeming(registry), redeemRequests[i].vault, n)
  BY <1>2, <1>3, <1>4, <1>6 DEF redeem
<1>17. p = set_redeem_status(i, "Completed")
  BY <1>3
<1>18. /\ Books(q, u, issueRequests, p, replaceRequests)
       /\ \E y : /\ Revised(redeemRequests, p, i, y) /\ y.status = "Completed"
                 /\ burn_amount(y) = burn_amount(redeemRequests[i])
  BY <1>4, <1>5, <1>7, <1>12, <1>14, <1>15, <1>16, <1>17, RedeemSettledBooks
<1>. QED BY <1>3, <1>4, <1>16, <1>18

LEMMA SlashForCancelBooks ==
    ASSUME BridgeInv, NEW i \in RedeemIds, NEW reimburse \in BOOLEAN,
           NEW s \in slash_for_cancel(redeemRequests[i], reimburse)
    PROVE  SameBooks(registry, s)
<1>. DEFINE redeem == redeemRequests[i]
<1>0. RegistryOK(registry) /\ ParamsOK /\ registry \in Registry
  BY StateTyped
<1>1. PICK v, n, u : /\ v = redeem.vault /\ n = burn_amount(redeem) /\ u = redeem.redeemer
                     /\ v \in Vaults /\ n \in Nat
  BY RedeemTyped
<1>2. PICK w : w = registry.vault[v] /\ w \in Vault
  BY <1>0, <1>1, VaultsTyped DEF RegistryOK
<1>. HIDE DEF redeem
<1>3. CASE is_liquidated(w)
  <2>1. PICK c, q, d : /\ c = liquidated_share(w, n)
                       /\ q \in decrease_liquidated_collateral(registry, v, c)
                       /\ d = IF reimburse THEN <<"FreeBalance", u>> ELSE <<"LiquidationVault", v>>
                       /\ s \in transfer_funds(q, <<"LiquidatedCollateral", v>>, d, c)
    BY <1>1, <1>2, <1>3 DEF slash_for_cancel, redeem
  <2>2. c \in Nat
    BY <1>1, <1>2, <2>1, LiquidatedShare
  <2>3. CASE reimburse
    <3>1. s \in transfer_funds(q, <<"LiquidatedCollateral", v>>, <<"FreeBalance", u>>, c)
      BY <2>1, <2>3
    <3>. QED BY <1>0, <1>1, <2>1, <2>2, <3>1, ConfiscateBooks
  <2>4. CASE ~reimburse
    <3>1. s \in transfer_funds(q, <<"LiquidatedCollateral", v>>, <<"LiquidationVault", v>>, c)
      BY <2>1, <2>4
    <3>. QED BY <1>0, <1>1, <2>1, <2>2, <3>1, ConfiscateBooks
  <2>. QED BY <2>3, <2>4
<1>4. CASE ~is_liquidated(w)
  <2>. DEFINE value == wrapped_to_collateral(n)
              slash == IF reimburse THEN value + get_punishment_fee(value)
                       ELSE get_punishment_fee(value)
  <2>1. PICK q, c : /\ c = min(w.stake, slash)
                    /\ q \in transfer_funds(registry, <<"Collateral", v>>, <<"FreeBalance", u>>, c)
                    /\ s = q \/ s \in ban_vault(q, v)
    BY <1>1, <1>2, <1>4 DEF slash_for_cancel, try_ban_vault, redeem
  <2>2. value \in Nat
    BY <1>0, <1>1, ParamsPositive, MulNat DEF wrapped_to_collateral
  <2>. HIDE DEF value
  <2>3. get_punishment_fee(value) \in Nat
    BY <2>2, MulNat, FeeAssumption DEF get_punishment_fee
  <2>4. slash \in Nat /\ w.stake \in Nat
    BY <1>2, <2>2, <2>3 DEF Vault
  <2>. HIDE DEF slash
  <2>5. c \in Nat
    BY <2>1, <2>4 DEF min
  <2>6. q \in release_funds(registry, <<"Collateral", v>>, c)
    BY <2>1, ToFreeBalance
  <2>7. SameBooks(registry, q)
    BY <1>0, <1>1, <1>2, <1>4, <2>5, <2>6, SlashStakeBooks
  <2>8. RegistryOK(q)
    BY <1>0, <1>1, <1>2, <1>4, <2>5, <2>6, SlashStakeOK
  <2>9. s = q \/ SameBooks(q, s)
    BY <1>1, <2>1, <2>8, OffersBooks
  <2>. QED BY <2>7, <2>9, SameChain
<1>. QED BY <1>3, <1>4

LEMMA CancelRedeemBooks ==
    ASSUME BooksInv, NEW i \in RedeemIds, NEW a, NEW reimburse \in BOOLEAN,
           cancel_redeem(a, i, reimburse), registry' \in Registry
    PROVE  /\ Books(registry', tokens', issueRequests, redeemRequests', replaceRequests)
           /\ redeemRequests[i].status = "Pending"
           /\ \E st, y :
                 /\ Revised(redeemRequests, redeemRequests', i, y) /\ y.status = st
                 /\ burn_amount(y) = burn_amount(redeemRequests[i])
                 /\ \/ /\ st \in {"Reimbursed", "ReimbursedOwed"}
                       /\ issued_tokens(registry')
                             = issued_tokens(registry) - burn_amount(redeemRequests[i])
                    \/ /\ st \in {"Reimbursed", "Retried"}
                       /\ issued_tokens(registry') = issued_tokens(registry)
<1>. DEFINE redeem == redeemRequests[i]
<1>0. BridgeInv /\ Books(registry, tokens, issueRequests, redeemRequests, replaceRequests)
  BY DEF BooksInv
<1>1. registry \in Registry /\ RegistryOK(registry) /\ ParamsOK /\ tokens \in Ledger
  BY <1>0, StateTyped
<1>2. PICK v, n, u, fee :
           /\ v = redeem.vault /\ n = burn_amount(redeem) /\ u = redeem.redeemer
           /\ fee = redeem.fee
           /\ v \in Vaults /\ v \in Holders /\ n \in Nat /\ u \in Holders /\ fee \in Nat
  BY <1>0, RedeemTyped, HoldersTyped
<1>3. PICK b, s :
           /\ b \in slash_for_cancel(redeem, reimburse)
           /\ s = b \/ s \in distribute_rewards(b, fee)
           /\ IF reimburse THEN reimburse_redeem(i, s) ELSE retry_redeem(i, s)
  BY <1>2 DEF cancel_redeem
<1>4. redeem.status = "Pending"
  BY DEF cancel_redeem
<1>5. SameBooks(registry, s) /\ s \in Registry
  <2>1. SameBooks(registry, b) /\ b \in Registry
    BY <1>0, <1>3, SlashForCancelBooks, SlashForCancel DEF Settling, RegistrySound
  <2>2. CASE s \in distribute_rewards(b, fee)
    <3>1. SameParts(b, s)
      BY <2>1, <2>2, RewardsDistributed
    <3>. QED BY <2>1, <3>1, SamePartsBooks, SameChain DEF SameParts
  <2>. QED BY <1>3, <2>1, <2>2
<1>6. PICK q, k, p : q = registry' /\ k = tokens' /\ p = redeemRequests'
  OBVIOUS
<1>7. PICK e, l, j, x : e = 0 - n /\ l = 0 - fee /\ x = n + fee /\ j = 0 - x
  OBVIOUS
<1>8. e \in Int /\ l \in Int /\ l + e = j /\ 0 + e = e /\ 0 + 0 = 0 /\ x \in Nat
  BY <1>2, <1>7
<1>9. issued_tokens(registry) \in Nat
  BY <1>1, BooksTyped
<1>10. /\ n = burn_amount(redeemRequests[i]) /\ x = n + redeemRequests[i].fee
       /\ v = redeemRequests[i].vault /\ u = redeemRequests[i].redeemer
       /\ redeemRequests[i].status = "Pending"
  BY <1>2, <1>4, <1>7
<1>. HIDE DEF redeem
<1>11. ASSUME NEW t \in unlock_and_transfer(tokens, u, FeePool, fee)
       PROVE  LedgerEffect(tokens, t, u, 0, l) /\ t \in Ledger
  <2>1. LedgerEffect(tokens, t, u, 0, l)
    BY <1>1, <1>2, <1>7, <1>11, UnlockTransferEffect, HoldersTyped
  <2>. QED BY <2>1 DEF LedgerEffect
<1>12. ASSUME NEW st \in RedeemRequestStatus, st # "Pending", p = set_redeem_status(i, st),
              q \in execute_redeem_tokens(s, v, n),
              NEW t \in unlock_and_transfer(tokens, u, FeePool, fee), k \in burn_from(t, u, n)
       PROVE  /\ Books(q, k, issueRequests, p, replaceRequests)
              /\ issued_tokens(q) = issued_tokens(registry) - n
              /\ \E y : /\ Revised(redeemRequests, p, i, y) /\ y.status = st
                        /\ burn_amount(y) = burn_amount(redeemRequests[i])
  <2>1. /\ issued_tokens(q) = issued_tokens(s) - n
        /\ to_be_issued_tokens(q) = to_be_issued_tokens(s)
        /\ Redeeming(q) = Debited(Redeeming(s), v, n)
        /\ SameGriefing(s, q) /\ SameExcess(s, q)
    BY <1>2, <1>5, <1>12, ExecuteRedeemBooks DEF Debited
  <2>2. /\ issued_tokens(q) = issued_tokens(registry) - n
        /\ to_be_issued_tokens(q) = to_be_issued_tokens(registry)
        /\ Redeeming(q) = Debited(Redeeming(registry), redeemRequests[i].vault, n)
        /\ SameGriefing(registry, q) /\ SameExcess(registry, q)
    BY <1>5, <1>10, <2>1 DEF SameBooks, SameTokens, SameGriefing, SameExcess
  <2>3. issued_tokens(q) = issued_tokens(registry) + e
    BY <1>2, <1>7, <1>9, <2>2
  <2>4. LedgerEffect(tokens, t, u, 0, l) /\ t \in Ledger
    BY <1>11, <1>12
  <2>5. LedgerEffect(t, k, u, e, e)
    BY <1>2, <1>7, <1>12, <2>4, BurnEffect
  <2>6. LedgerEffect(tokens, k, u, 0 + e, l + e)
    BY <1>1, <1>2, <1>8, <2>4, <2>5, LedgerChain
  <2>7. LedgerEffect(tokens, k, redeemRequests[i].redeemer, e, 0 - x)
    BY <1>7, <1>8, <1>10, <2>6
  <2>8. q \in Registry
    BY <1>6
  <2>9. /\ Books(q, k, issueRequests, p, replaceRequests)
        /\ \E y : /\ Revised(redeemRequests, p, i, y) /\ y.status = st
                  /\ burn_amount(y) = burn_amount(redeemRequests[i])
    BY <1>8, <1>10, <1>12, <2>2, <2>3, <2>7, <2>8, RedeemSettledBooks
  <2>. QED BY <2>2, <2>9
<1>13. ASSUME NEW st \in RedeemRequestStatus, st # "Pending", p = set_redeem_status(i, st),
              q \in decrease_to_be_redeemed(s, v, n), LedgerEffect(tokens, k, u, 0, j)
       PROVE  /\ Books(q, k, issueRequests, p, replaceRequests)
              /\ issued_tokens(q) = issued_tokens(registry)
              /\ \E y : /\ Revised(redeemRequests, p, i, y) /\ y.status = st
                        /\ burn_amount(y) = burn_amount(redeemRequests[i])
  <2>1. /\ issued_tokens(q) = issued_tokens(s)
        /\ to_be_issued_tokens(q) = to_be_issued_tokens(s)
        /\ Redeeming(q) = Debited(Redeeming(s), v, n)
        /\ SameGriefing(s, q) /\ SameExcess(s, q) /\ q \in Registry
    BY <1>2, <1>5, <1>13, DecreaseToBeRedeemedBooks DEF Debited
  <2>2. /\ issued_tokens(q) = issued_tokens(registry)
        /\ to_be_issued_tokens(q) = to_be_issued_tokens(registry)
        /\ Redeeming(q) = Debited(Redeeming(registry), redeemRequests[i].vault, n)
        /\ SameGriefing(registry, q) /\ SameExcess(registry, q)
    BY <1>5, <1>10, <2>1 DEF SameBooks, SameTokens, SameGriefing, SameExcess
  <2>3. issued_tokens(q) = issued_tokens(registry) + 0 /\ 0 \in Int
    BY <1>9, <2>2
  <2>4. LedgerEffect(tokens, k, redeemRequests[i].redeemer, 0, 0 - x)
    BY <1>7, <1>10, <1>13
  <2>5. /\ Books(q, k, issueRequests, p, replaceRequests)
        /\ \E y : /\ Revised(redeemRequests, p, i, y) /\ y.status = st
                  /\ burn_amount(y) = burn_amount(redeemRequests[i])
    BY <1>10, <1>13, <2>1, <2>2, <2>3, <2>4, RedeemSettledBooks
  <2>. QED BY <2>2, <2>5
<1>14. CASE /\ q \in execute_redeem_tokens(s, v, n)
            /\ k \in UNION {burn_from(t, u, n) :
                               t \in unlock_and_transfer(tokens, u, FeePool, fee)}
            /\ p = set_redeem_status(i,
                  IF is_liquidated(s.vault[v]) THEN "Reimbursed" ELSE "ReimbursedOwed")
  <2>1. PICK st : /\ st = IF is_liquidated(s.vault[v]) THEN "Reimbursed" ELSE "ReimbursedOwed"
                  /\ st \in {"Reimbursed", "ReimbursedOwed"}
    OBVIOUS
  <2>2. st \in RedeemRequestStatus /\ st # "Pending" /\ p = set_redeem_status(i, st)
    BY <1>14, <2>1 DEF RedeemRequestStatus
  <2>3. PICK t : t \in unlock_and_transfer(tokens, u, FeePool, fee) /\ k \in burn_from(t, u, n)
    BY <1>14
  <2>4. /\ Books(q, k, issueRequests, p, replaceRequests)
        /\ issued_tokens(q) = issued_tokens(registry) - n
        /\ \E y : /\ Revised(redeemRequests, p, i, y) /\ y.status = st
                  /\ burn_amount(y) = burn_amount(redeemRequests[i])
    BY <1>12, <1>14, <2>2, <2>3
  <2>. QED BY <1>6, <1>10, <2>1, <2>4
<1>15. CASE /\ q \in decrease_to_be_redeemed(s, v, n)
            /\ k \in UNION {unlock_and_transfer(t, u, v, n) :
                               t \in unlock_and_transfer(tokens, u, FeePool, fee)}
            /\ p = set_redeem_status(i, "Reimbursed")
  <2>1. PICK t : /\ t \in unlock_and_transfer(tokens, u, FeePool, fee)
                 /\ k \in unlock_and_transfer(t, u, v, n)
    BY <1>15
  <2>2. LedgerEffect(tokens, t, u, 0, l) /\ t \in Ledger
    BY <1>11, <2>1
  <2>3. LedgerEffect(t, k, u, 0, e)
    BY <1>2, <1>7, <2>1, <2>2, UnlockTransferEffect
  <2>4. LedgerEffect(tokens, k, u, 0 + 0, l + e)
    BY <1>1, <1>2, <1>8, <2>2, <2>3, LedgerChain
  <2>5. LedgerEffect(tokens, k, u, 0, j)
    BY <1>8, <2>4
  <2>6. "Reimbursed" \in RedeemRequestStatus /\ "Reimbursed" # "Pending"
    BY DEF RedeemRequestStatus
  <2>7. /\ Books(q, k, issueRequests, p, replaceRequests)
        /\ issued_tokens(q) = issued_tokens(registry)
        /\ \E y : /\ Revised(redeemRequests, p, i, y) /\ y.status = "Reimbursed"
                  /\ burn_amount(y) = burn_amount(redeemRequests[i])
    BY <1>13, <1>15, <2>5, <2>6
  <2>. QED BY <1>6, <1>10, <2>7
<1>16. CASE retry_redeem(i, s)
  <2>1. /\ k \in unlock_on(tokens, u, x) /\ q \in decrease_to_be_redeemed(s, v, n)
        /\ p = set_redeem_status(i, "Retried")
    BY <1>6, <1>10, <1>16 DEF retry_redeem
  <2>2. LedgerEffect(tokens, k, u, 0, j)
    BY <1>1, <1>2, <1>7, <1>8, <2>1, UnlockEffect
  <2>3. "Retried" \in RedeemRequestStatus /\ "Retried" # "Pending"
    BY DEF RedeemRequestStatus
  <2>4. /\ Books(q, k, issueRequests, p, replaceRequests)
        /\ issued_tokens(q) = issued_tokens(registry)
        /\ \E y : /\ Revised(redeemRequests, p, i, y) /\ y.status = "Retried"
                  /\ burn_amount(y) = burn_amount(redeemRequests[i])
    BY <1>13, <2>1, <2>2, <2>3
  <2>. QED BY <1>6, <1>10, <2>4
<1>17. \/ retry_redeem(i, s)
       \/ /\ q \in execute_redeem_tokens(s, v, n)
          /\ k \in UNION {burn_from(t, u, n) :
                             t \in unlock_and_transfer(tokens, u, FeePool, fee)}
          /\ p = set_redeem_status(i,
                IF is_liquidated(s.vault[v]) THEN "Reimbursed" ELSE "ReimbursedOwed")
       \/ /\ q \in decrease_to_be_redeemed(s, v, n)
          /\ k \in UNION {unlock_and_transfer(t, u, v, n) :
                             t \in unlock_and_transfer(tokens, u, FeePool, fee)}
          /\ p = set_redeem_status(i, "Reimbursed")
  BY <1>2, <1>3, <1>6, <1>10 DEF reimburse_redeem, redeem
<1>. QED BY <1>14, <1>15, <1>16, <1>17

(* Supply and issued tokens change together, and nothing else does.        *)
LEMMA RedeemQuietBooks ==
    ASSUME BooksInv, NEW q \in Registry, NEW u, NEW p \in Seq(RedeemRequest), NEW m \in Int,
           issued_tokens(q) = issued_tokens(registry) + m,
           to_be_issued_tokens(q) = to_be_issued_tokens(registry),
           Redeeming(q) = Redeeming(registry),
           SameGriefing(registry, q), SameExcess(registry, q),
           Supply(u) = Supply(tokens) + m, Locks(u) = Locks(tokens),
           LockTotal(u) = LockTotal(tokens), SameRedeemClaims(redeemRequests, p)
    PROVE  Books(q, u, issueRequests, p, replaceRequests)
<1>0. BridgeInv /\ Books(registry, tokens, issueRequests, redeemRequests, replaceRequests)
  BY DEF BooksInv
<1>1. /\ registry \in Registry /\ RegistryOK(registry) /\ tokens \in Ledger
      /\ redeemRequests \in Seq(RedeemRequest) /\ replaceRequests \in Seq(ReplaceRequest)
  BY <1>0, StateTyped
<1>2. /\ RedeemClaims(redeemRequests) \in [Vaults -> Nat]
      /\ Redeeming(registry) \in [Vaults -> Nat] /\ RedeemClaims(p) = RedeemClaims(redeemRequests)
  BY <1>1, RedeemClaimsTyped, BooksTyped DEF SameRedeemClaims
<1>3. Locks(u) = RedeemLocks(p) /\ LockTotal(u) = RedeemLockTotal(p)
  BY <1>0 DEF Books, SameRedeemClaims
<1>4. Follows(Redeeming(registry), Redeeming(q), RedeemClaims(redeemRequests), RedeemClaims(p))
  BY <1>2 DEF Follows
<1>. QED BY <1>0, <1>1, <1>2, <1>3, <1>4, RedeemStep

LEMMA MintReimbursedBooks ==
    ASSUME BooksInv, NEW i \in RedeemIds, NEW v \in Vaults,
           mint_tokens_for_reimbursed_redeem(v, i)
    PROVE  /\ Books(registry', tokens', issueRequests, redeemRequests', replaceRequests)
           /\ redeemRequests[i].status = "ReimbursedOwed"
           /\ issued_tokens(registry') = issued_tokens(registry) + burn_amount(redeemRequests[i])
           /\ \E y : /\ Revised(redeemRequests, redeemRequests', i, y) /\ y.status = "Reimbursed"
                     /\ burn_amount(y) = burn_amount(redeemRequests[i])
<1>0. BridgeInv
  BY DEF BooksInv
<1>1. /\ registry \in Registry /\ RegistryOK(registry) /\ tokens \in Ledger /\ v \in Holders
      /\ redeemRequests \in Seq(RedeemRequest)
  BY <1>0, StateTyped, HoldersTyped
<1>2. PICK n : n = burn_amount(redeemRequests[i]) /\ n \in Nat
  BY <1>0, RedeemTyped
<1>3. PICK s, q, u, p : /\ s \in try_increase_to_be_issued_tokens(registry, v, n)
                        /\ q \in execute_issue_tokens(s, v, n)
                        /\ u = mint_to(tokens, v, n)
                        /\ p = set_redeem_status(i, "Reimbursed")
                        /\ q = registry' /\ u = tokens' /\ p = redeemRequests'
                        /\ redeemRequests[i].status = "ReimbursedOwed"
  BY <1>2 DEF mint_tokens_for_reimbursed_redeem
<1>4. RegistryOK(s)
  BY <1>1, <1>2, <1>3, TryIncreaseToBeIssuedOK
<1>5. q \in Registry
  BY <1>2, <1>3, <1>4, ExecuteIssueTokensOK DEF RegistryOK, RegistrySound
<1>6. /\ issued_tokens(s) = issued_tokens(registry)
      /\ to_be_issued_tokens(s) = to_be_issued_tokens(registry) + n
      /\ Redeeming(s) = Redeeming(registry)
      /\ SameGriefing(registry, s) /\ SameExcess(registry, s)
  BY <1>1, <1>2, <1>3, TryIncreaseToBeIssuedBooks
<1>7. /\ issued_tokens(q) = issued_tokens(s) + n
      /\ to_be_issued_tokens(q) = to_be_issued_tokens(s) - n
      /\ Redeeming(q) = Redeeming(s)
      /\ SameGriefing(s, q) /\ SameExcess(s, q)
  BY <1>2, <1>3, <1>4, ExecuteIssueBooks
<1>8. issued_tokens(registry) \in Nat /\ to_be_issued_tokens(registry) \in Nat
  BY <1>1, BooksTyped
<1>9. /\ issued_tokens(q) = issued_tokens(registry) + n
      /\ to_be_issued_tokens(q) = to_be_issued_tokens(registry)
  BY <1>2, <1>6, <1>7, <1>8
<1>10. /\ Redeeming(q) = Redeeming(registry)
       /\ SameGriefing(registry, q) /\ SameExcess(registry, q)
  BY <1>6, <1>7 DEF SameGriefing, SameExcess
<1>11. LedgerEffect(tokens, u, v, n, 0)
  BY <1>1, <1>2, <1>3, MintEffect
<1>12. /\ Supply(u) = Supply(tokens) + n
       /\ Locks(u) = Locks(tokens) /\ LockTotal(u) = LockTotal(tokens)
  BY <1>1, <1>11, LedgerElsewhere DEF LedgerEffect
<1>13. "Reimbursed" \in RedeemRequestStatus
  BY DEF RedeemRequestStatus
<1>14. PICK y \in RedeemRequest :
            /\ Revised(redeemRequests, p, i, y) /\ y.status = "Reimbursed"
            /\ burn_amount(y) = burn_amount(redeemRequests[i])
  BY <1>0, <1>3, <1>13, RedeemRevised
<1>15. p \in Seq(RedeemRequest) /\ Keeps(redeemRequests, p, i)
  <2>1. redeemRequests[i].status = "Pending" <=> y.status = "Pending"
    BY <1>3, <1>14
  <2>. QED BY <1>1, <1>14, <2>1, RequestRevised
<1>16. SameRedeemClaims(redeemRequests, p)
  <2>1. i \notin Pending(redeemRequests)
    BY <1>3 DEF Pending
  <2>. QED BY <1>1, <1>15, <2>1, RedeemKept
<1>17. Books(q, u, issueRequests, p, replaceRequests)
  BY <1>2, <1>5, <1>9, <1>10, <1>12, <1>15, <1>16, RedeemQuietBooks
<1>. QED BY <1>2, <1>3, <1>9, <1>14, <1>17

(* Locking an amount and burning it.                                       *)
LEMMA LockedBurnt ==
    ASSUME NEW t \in Ledger, NEW a \in Holders, NEW n \in Nat,
           NEW s \in lock_on(t, a, n), NEW u \in burn_from(s, a, n), NEW m, m = 0 - n
    PROVE  LedgerEffect(t, u, a, m, 0)
<1>1. LedgerEffect(t, s, a, 0, n)
  BY LockEffect
<1>2. s \in Ledger
  BY <1>1 DEF LedgerEffect
<1>3. LedgerEffect(s, u, a, m, m)
  BY <1>2, BurnEffect
<1>4. m \in Int /\ 0 + m = m /\ n + m = 0
  OBVIOUS
<1>5. LedgerEffect(t, u, a, 0 + m, n + m)
  BY <1>1, <1>3, <1>4, LedgerChain
<1>. QED BY <1>4, <1>5

LEMMA LiquidationRedeemBooks ==
    ASSUME BooksInv, NEW a \in Requesters, NEW x \in TokenAmounts, liquidation_redeem(a, x)
    PROVE  /\ Books(registry', tokens', issueRequests, redeemRequests', replaceRequests)
           /\ issued_tokens(registry') = issued_tokens(registry) - x
           /\ redeemRequests' = redeemRequests
<1>0. BridgeInv
  BY DEF BooksInv
<1>1. /\ registry \in Registry /\ RegistryOK(registry) /\ tokens \in Ledger
      /\ redeemRequests \in Seq(RedeemRequest) /\ x \in Nat /\ a \in Holders
  BY <1>0, StateTyped, HoldersTyped, RegistryAssumption
<1>2. PICK q, t, u : /\ q \in redeem_tokens_liquidation(registry, a, x)
                     /\ t \in lock_on(tokens, a, x) /\ u \in burn_from(t, a, x)
                     /\ q = registry' /\ u = tokens' /\ redeemRequests' = redeemRequests
  BY DEF liquidation_redeem
<1>3. q \in Registry
  BY <1>1, <1>2, RedeemLiquidationOK DEF RegistryOK, RegistrySound
<1>4. /\ issued_tokens(q) = issued_tokens(registry) - x
      /\ to_be_issued_tokens(q) = to_be_issued_tokens(registry)
      /\ Redeeming(q) = Redeeming(registry)
      /\ SameGriefing(registry, q) /\ SameExcess(registry, q)
  BY <1>1, <1>2, RedeemLiquidationBooks
<1>5. PICK m : m = 0 - x /\ m \in Int
  BY <1>1
<1>6. LedgerEffect(tokens, u, a, m, 0)
  BY <1>1, <1>2, <1>5, LockedBurnt
<1>7. /\ Supply(u) = Supply(tokens) + m
      /\ Locks(u) = Locks(tokens) /\ LockTotal(u) = LockTotal(tokens)
  BY <1>1, <1>6, LedgerElsewhere DEF LedgerEffect
<1>8. issued_tokens(registry) \in Nat
  BY <1>1, BooksTyped
<1>9. issued_tokens(q) = issued_tokens(registry) + m
  BY <1>1, <1>4, <1>5, <1>8
<1>10. SameRedeemClaims(redeemRequests, redeemRequests)
  BY DEF SameRedeemClaims
<1>11. Books(q, u, issueRequests, redeemRequests, replaceRequests)
  BY <1>1, <1>3, <1>4, <1>5, <1>7, <1>9, <1>10, RedeemQuietBooks
<1>. QED BY <1>2, <1>4, <1>11

LEMMA SelfRedeemBooks ==
    ASSUME BooksInv, NEW v \in Vaults, NEW x \in TokenAmounts, self_redeem(v, x)
    PROVE  /\ Books(registry', tokens', issueRequests, redeemRequests', replaceRequests)
           /\ \E n \in Nat : issued_tokens(registry') = issued_tokens(registry) - n
           /\ redeemRequests' = redeemRequests
<1>0. BridgeInv
  BY DEF BooksInv
<1>1. /\ registry \in Registry /\ RegistryOK(registry) /\ ParamsOK /\ tokens \in Ledger
      /\ redeemRequests \in Seq(RedeemRequest) /\ x \in Nat /\ v \in Holders
  BY <1>0, StateTyped, HoldersTyped, RegistryAssumption
<1>2. PICK fee : fee = IF x = registry.vault[v].issued - registry.vault[v].to_be_redeemed
                       THEN 0 ELSE get_redeem_fee(x)
  OBVIOUS
<1>3. PICK n : n = x - fee
  OBVIOUS
<1>4. fee \in Nat /\ n \in Nat
  <2>1. fee \in Nat /\ fee <= x
    BY <1>1, <1>2, FeeBounded, FeeAssumption DEF get_redeem_fee
  <2>. QED BY <1>1, <1>3, <2>1
<1>5. PICK t, z, u, d, s, c, q :
           /\ t \in lock_on(tokens, v, n) /\ z \in burn_from(t, v, n)
           /\ u \in transfer(z, v, FeePool, fee)
           /\ d \in distribute_rewards(registry, fee)
           /\ s \in try_increase_to_be_redeemed_tokens(d, v, n)
           /\ c \in redeem_tokens(s, v, n, 0)
           /\ q \in release_replace_collateral(c, v, n)
           /\ q = registry' /\ u = tokens' /\ redeemRequests' = redeemRequests
  BY <1>2, <1>3 DEF self_redeem
<1>a. RegistryOK(d) /\ d \in Registry /\ SameBooks(registry, d)
  BY <1>1, <1>5, RewardsDistributed, SamePartsOK, SamePartsBooks DEF SameParts
<1>6. RegistryOK(s)
  BY <1>1, <1>4, <1>5, <1>a, TryIncreaseToBeRedeemedOK
<1>7. RegistryOK(c)
  BY <1>1, <1>4, <1>5, <1>6, RedeemTokensOK
<1>8. q \in Registry
  BY <1>4, <1>5, <1>7, ReleaseReplaceCollateralOK DEF RegistryOK, RegistrySound
<1>9. /\ issued_tokens(s) = issued_tokens(registry)
      /\ to_be_issued_tokens(s) = to_be_issued_tokens(registry)
      /\ Redeeming(s) = Credited(Redeeming(registry), v, n)
      /\ SameGriefing(registry, s) /\ SameExcess(registry, s)
  <2>1. /\ issued_tokens(s) = issued_tokens(d)
        /\ to_be_issued_tokens(s) = to_be_issued_tokens(d)
        /\ Redeeming(s) = Credited(Redeeming(d), v, n)
        /\ SameGriefing(d, s) /\ SameExcess(d, s)
    BY <1>4, <1>5, <1>a, TryIncreaseToBeRedeemedBooks DEF Credited
  <2>. QED BY <1>a, <2>1 DEF SameBooks, SameTokens, SameGriefing, SameExcess
<1>10. /\ issued_tokens(c) = issued_tokens(s) - n
       /\ to_be_issued_tokens(c) = to_be_issued_tokens(s)
       /\ Redeeming(c) = Debited(Redeeming(s), v, n)
       /\ SameGriefing(s, c) /\ SameExcess(s, c)
  BY <1>1, <1>4, <1>5, <1>6, RedeemTokensBooks DEF Debited
<1>11. SameBooks(c, q)
  BY <1>4, <1>5, <1>7, ReleaseReplaceCollateralBooks
<1>12. Redeeming(c) = Redeeming(registry)
  <2>1. PICK f \in [Vaults -> Nat] : f = Redeeming(registry)
    BY <1>1, BooksTyped
  <2>2. Debited(Credited(f, v, n), v, n) = f
    BY <1>4, CreditDebit
  <2>. QED BY <1>9, <1>10, <2>1, <2>2
<1>13. /\ issued_tokens(q) = issued_tokens(registry) - n
       /\ to_be_issued_tokens(q) = to_be_issued_tokens(registry)
       /\ Redeeming(q) = Redeeming(registry)
       /\ SameGriefing(registry, q) /\ SameExcess(registry, q)
  BY <1>9, <1>10, <1>11, <1>12 DEF SameBooks, SameTokens, SameGriefing, SameExcess
<1>14. PICK m : m = 0 - n /\ m \in Int
  BY <1>4
<1>15. LedgerEffect(tokens, z, v, m, 0) /\ z \in Ledger
  <2>1. LedgerEffect(tokens, z, v, m, 0)
    BY <1>1, <1>4, <1>5, <1>14, LockedBurnt
  <2>. QED BY <2>1 DEF LedgerEffect
<1>16. LedgerEffect(z, u, v, 0, 0)
  BY <1>1, <1>4, <1>5, <1>15, TransferEffect, HoldersTyped
<1>17. /\ Supply(z) = Supply(tokens) + m /\ Supply(u) = Supply(z) + 0
       /\ Locks(z) = Locks(tokens) /\ LockTotal(z) = LockTotal(tokens)
       /\ Locks(u) = Locks(z) /\ LockTotal(u) = LockTotal(z)
  BY <1>1, <1>15, <1>16, LedgerElsewhere DEF LedgerEffect
<1>18. issued_tokens(registry) \in Nat /\ Supply(tokens) \in Nat
  BY <1>1, BooksTyped, LedgerTyped
<1>19. issued_tokens(q) = issued_tokens(registry) + m /\ Supply(u) = Supply(tokens) + m
  BY <1>4, <1>13, <1>14, <1>17, <1>18
<1>20. SameRedeemClaims(redeemRequests, redeemRequests)
  BY DEF SameRedeemClaims
<1>21. Books(q, u, issueRequests, redeemRequests, replaceRequests)
  BY <1>1, <1>8, <1>13, <1>14, <1>17, <1>19, <1>20, RedeemQuietBooks
<1>. QED BY <1>4, <1>5, <1>13, <1>21

LEMMA RedeemExpiresBooks ==
    ASSUME BooksInv, NEW i \in RedeemIds, redeem_expires(i)
    PROVE  /\ Books(registry', tokens', issueRequests, redeemRequests', replaceRequests)
           /\ UNCHANGED <<registry, tokens>>
           /\ redeemRequests[i].status = "Pending"
           /\ \E y : /\ Revised(redeemRequests, redeemRequests', i, y) /\ y.status = "Pending"
                     /\ burn_amount(y) = burn_amount(redeemRequests[i])
<1>. DEFINE redeem == redeemRequests[i]
<1>0. BridgeInv /\ Books(registry, tokens, issueRequests, redeemRequests, replaceRequests)
  BY DEF BooksInv
<1>1. /\ redeemRequests \in Seq(RedeemRequest) /\ i \in DOMAIN redeemRequests
      /\ redeem \in RedeemRequest
  BY <1>0, StateTyped, RedeemTyped DEF RedeemIds
<1>2. PICK p, y : /\ y = [redeem EXCEPT !.expired = TRUE] /\ p = redeemRequests'
                  /\ registry' = registry /\ tokens' = tokens /\ redeem.status = "Pending"
                  /\ Revised(redeemRequests, p, i, y)
  BY <1>1 DEF redeem_expires, registryVars, Revised
<1>3. /\ y \in RedeemRequest /\ y.status = "Pending" /\ burn_amount(y) = burn_amount(redeem)
      /\ y.fee = redeem.fee /\ y.vault = redeem.vault /\ y.redeemer = redeem.redeemer
  BY <1>1, <1>2 DEF RedeemRequest, burn_amount
<1>. HIDE DEF redeem
<1>4. p \in Seq(RedeemRequest) /\ Keeps(redeemRequests, p, i) /\ p[i] = y
  <2>1. Revised(redeemRequests, p, i, y) /\ (redeem.status = "Pending" <=> y.status = "Pending")
    BY <1>2, <1>3
  <2>. QED BY <1>1, <1>3, <2>1, RequestRevised DEF redeem
<1>5. SameRedeemClaims(redeemRequests, p)
  BY <1>1, <1>3, <1>4, RedeemKept DEF redeem
<1>6. Books(registry, tokens, issueRequests, p, replaceRequests)
  BY <1>0, <1>5 DEF Books, SameRedeemClaims
<1>. QED BY <1>2, <1>3, <1>6 DEF redeem

-----------------------------------------------------------------------------
(* Replace                                                                 *)

LEMMA AcceptTokensBooks ==
    ASSUME NEW r, RegistryOK(r), NEW old \in Vaults, NEW new \in Vaults, NEW n \in Nat,
           NEW s \in accept_replace_tokens(r, old, new, n)
    PROVE  /\ issued_tokens(s) = issued_tokens(r)
           /\ to_be_issued_tokens(s) = to_be_issued_tokens(r) + n
           /\ Redeeming(s) = Credited(Redeeming(r), old, n)
           /\ SameGriefing(r, s) /\ SameExcess(r, s)
<1>1. PICK q : /\ q \in try_increase_to_be_redeemed_tokens(r, old, n)
               /\ s \in try_increase_to_be_issued_tokens(q, new, n)
  BY DEF accept_replace_tokens
<1>2. RegistryOK(q)
  BY <1>1, TryIncreaseToBeRedeemedOK
<1>3. /\ issued_tokens(q) = issued_tokens(r)
      /\ to_be_issued_tokens(q) = to_be_issued_tokens(r)
      /\ Redeeming(q) = Credited(Redeeming(r), old, n)
      /\ SameGriefing(r, q) /\ SameExcess(r, q)
  BY <1>1, TryIncreaseToBeRedeemedBooks DEF Credited
<1>4. /\ issued_tokens(s) = issued_tokens(q)
      /\ to_be_issued_tokens(s) = to_be_issued_tokens(q) + n
      /\ Redeeming(s) = Redeeming(q)
      /\ SameGriefing(q, s) /\ SameExcess(q, s)
  BY <1>1, <1>2, TryIncreaseToBeIssuedBooks
<1>. QED BY <1>3, <1>4 DEF SameGriefing, SameExcess

(* The griefing collateral of an accepted request is given back or taken.  *)
LEMMA ReleaseAcceptedEffect ==
    ASSUME NEW r \in Registry, NEW v \in Vaults, NEW n \in Nat,
           NEW s \in release_funds(r, <<"ActiveReplaceCollateral", v>>, n)
    PROVE  /\ s \in Registry /\ SameTokens(r, s) /\ SameExcess(r, s)
           /\ RequestGriefing(s) = RequestGriefing(r)
           /\ AcceptedGriefing(s) = Debited(AcceptedGriefing(r), v, n)
<1>1. /\ s \in Registry /\ SameTokens(r, s) /\ SameExcess(r, s)
      /\ RequestGriefing(s) = RequestGriefing(r)
      /\ AcceptedGriefing(s) = [AcceptedGriefing(r) EXCEPT ![v] = @ + (0 - n)]
  BY ReleaseAcceptedBooks
<1>2. AcceptedGriefing(r) \in [Vaults -> Int]
  BY BooksTyped
<1>3. [AcceptedGriefing(r) EXCEPT ![v] = @ + (0 - n)] = Debited(AcceptedGriefing(r), v, n)
  BY <1>2, DebitedAs
<1>. QED BY <1>1, <1>3

ReplaceEnded(p, i, st) ==
    p = [replaceRequests EXCEPT ![i].status = st, ![i].expired = FALSE]

LEMMA ReplaceRevised ==
    ASSUME BridgeInv, NEW i \in ReplaceIds, NEW st \in {"Completed", "Cancelled"},
           NEW p, ReplaceEnded(p, i, st)
    PROVE  \E y \in ReplaceRequest :
              /\ Revised(replaceRequests, p, i, y) /\ y.status = st
              /\ y.old_vault = replaceRequests[i].old_vault
              /\ y.amount = replaceRequests[i].amount
              /\ y.griefing_collateral = replaceRequests[i].griefing_collateral
<1>. DEFINE replace == replaceRequests[i]
<1>1. i \in DOMAIN replaceRequests /\ replace \in ReplaceRequest
  BY ReplaceTyped
<1>2. PICK z, y : z = [replace EXCEPT !.status = st] /\ y = [z EXCEPT !.expired = FALSE]
  OBVIOUS
<1>3. Revised(replaceRequests, p, i, y)
  BY <1>1, <1>2 DEF Revised, ReplaceRequest, ReplaceEnded
<1>. HIDE DEF replace
<1>4. /\ z \in ReplaceRequest /\ z.status = st /\ z.old_vault = replace.old_vault
      /\ z.amount = replace.amount /\ z.griefing_collateral = replace.griefing_collateral
  BY <1>1, <1>2 DEF ReplaceRequest
<1>5. /\ y \in ReplaceRequest /\ y.status = st /\ y.old_vault = z.old_vault
      /\ y.amount = z.amount /\ y.griefing_collateral = z.griefing_collateral
  BY <1>2, <1>4 DEF ReplaceRequest
<1>. QED BY <1>3, <1>4, <1>5 DEF replace

LEMMA RequestReplaceBooks ==
    ASSUME BooksInv, NEW v \in Vaults, NEW x \in TokenAmounts, request_replace(v, x)
    PROVE  SameBooks(registry, registry') /\ replaceRequests' = replaceRequests
<1>0. /\ BridgeInv /\ RegistryOK(registry) /\ ParamsOK /\ x \in Nat
  BY RegistryAssumption, StateTyped DEF BooksInv
<1>. DEFINE w == registry.vault[v]
<1>1. w \in Vault
  BY <1>0, VaultsTyped DEF RegistryOK
<1>2. PICK n : n = min(x, w.issued - w.to_be_replaced - w.to_be_redeemed)
  OBVIOUS
<1>3. n \in Nat
  <2>1. w.to_be_replaced + w.to_be_redeemed <= w.issued
    BY DEF request_replace
  <2>2. w.issued \in Nat /\ w.to_be_replaced \in Nat /\ w.to_be_redeemed \in Nat
    BY <1>1 DEF Vault
  <2>. HIDE DEF w
  <2>. QED BY <1>0, <1>2, <2>1, <2>2 DEF min
<1>4. PICK g : g = get_replace_griefing_collateral(n)
  OBVIOUS
<1>5. g \in Nat
  <2>1. checked_mul(n, GriefingRate) \in Nat
    BY <1>3, FeeAssumption, MulNat
  <2>. QED BY <1>4, <2>1, FeeAssumption, MulNat DEF get_replace_griefing_collateral
<1>6. PICK s, r : /\ s \in try_increase_to_be_replaced_tokens(registry, v, n)
                  /\ r \in transfer_funds(s, <<"FreeBalance", v>>,
                                          <<"AvailableReplaceCollateral", v>>, g)
                  /\ r = registry' /\ replaceRequests' = replaceRequests
  BY <1>2, <1>4 DEF request_replace
<1>7. SameBooks(registry, s) /\ s \in Registry
  BY <1>0, <1>3, <1>6, OffersBooks, TryIncreaseToBeReplacedOK DEF RegistryOK, RegistrySound
<1>8. PICK q : /\ q \in release_funds(s, <<"FreeBalance", v>>, g)
               /\ r \in claim_funds(q, <<"AvailableReplaceCollateral", v>>, g)
  BY <1>6, Transferred
<1>9. q = s
  BY <1>8 DEF release_funds
<1>10. r \in Registry /\ SameBooks(s, r)
  BY <1>5, <1>7, <1>8, <1>9, ClaimOfferBooks
<1>11. SameBooks(registry, r)
  BY <1>7, <1>10, SameChain
<1>. QED BY <1>6, <1>11

LEMMA WithdrawReplaceKeepsBooks ==
    ASSUME BooksInv, NEW v \in Vaults, NEW x \in TokenAmounts, withdraw_replace(v, x)
    PROVE  SameBooks(registry, registry') /\ replaceRequests' = replaceRequests
<1>0. RegistryOK(registry) /\ x \in Nat
  BY RegistryAssumption, StateTyped DEF BooksInv
<1>1. PICK r : /\ r = registry' /\ r \in withdraw_replace_request(registry, v, x)
               /\ replaceRequests' = replaceRequests
  BY DEF withdraw_replace
<1>2. SameBooks(registry, r)
  BY <1>0, <1>1, WithdrawReplaceBooks
<1>. QED BY <1>1, <1>2

LEMMA AcceptReplaceBooks ==
    ASSUME BooksInv, NEW old \in Vaults, NEW new \in Vaults, NEW x \in TokenAmounts,
           NEW c \in CollateralAmounts, accept_replace(old, new, x, c)
    PROVE  /\ Books(registry', tokens, issueRequests, redeemRequests, replaceRequests')
           /\ issued_tokens(registry') = issued_tokens(registry)
           /\ \E y \in ReplaceRequest : Added(replaceRequests, replaceRequests', y) /\ y.status = "Pending"
<1>0. BridgeInv /\ Books(registry, tokens, issueRequests, redeemRequests, replaceRequests)
  BY DEF BooksInv
<1>1. /\ registry \in Registry /\ RegistryOK(registry) /\ ParamsOK /\ tokens \in Ledger
      /\ issueRequests \in Seq(IssueRequest) /\ redeemRequests \in Seq(RedeemRequest)
      /\ replaceRequests \in Seq(ReplaceRequest)
      /\ x \in Nat /\ c \in Nat
  BY <1>0, StateTyped, RegistryAssumption
<1>. DEFINE w == registry.vault[old]
<1>2. w \in Vault
  BY <1>1, VaultsTyped DEF RegistryOK
<1>3. PICK n, g, d, b : /\ n = used_to_be_replaced(w, x)
                        /\ g = used_replace_collateral(w, x)
                        /\ d = calculate_collateral(c, n, x)
                        /\ b = decrease_to_be_replaced_tokens(registry, old, x)
  OBVIOUS
<1>4. n \in Nat /\ n <= x /\ g \in Nat
  <2>1. w.to_be_replaced \in Nat /\ w.replace_collateral \in Nat
    BY <1>2 DEF Vault
  <2>. HIDE DEF w
  <2>. QED BY <1>1, <1>2, <1>3, <2>1, UsedReplace
<1>5. d \in Nat
  BY <1>1, <1>3, <1>4, ShareBounded
<1>6. RegistryOK(b) /\ b \in Registry /\ SameBooks(registry, b)
  <2>1. RegistryOK(b)
    BY <1>1, <1>3, DecreaseToBeReplacedOK
  <2>2. b \in Registry
    BY <2>1 DEF RegistryOK, RegistrySound
  <2>3. SameBooks(registry, b)
    BY <1>1, <1>3, OffersBooks
  <2>. QED BY <2>1, <2>2, <2>3
<1>7a. PICK e, s, q :
           /\ e \in try_deposit_collateral(b, new, d)
           /\ s \in accept_replace_tokens(e, old, new, n)
           /\ q \in transfer_funds(s, <<"AvailableReplaceCollateral", old>>,
                                   <<"ActiveReplaceCollateral", old>>, g)
           /\ q = registry'
  BY <1>3 DEF accept_replace
<1>7. PICK y, p :
           /\ y = [old_vault |-> old, new_vault |-> new, amount |-> n,
                   collateral |-> d, griefing_collateral |-> g,
                   expired |-> FALSE, status |-> "Pending"]
           /\ Added(replaceRequests, p, y)
           /\ p = replaceRequests'
  BY <1>3 DEF accept_replace, Added
<1>8. RegistryOK(e)
  <2>1. registry.vault[new].status # "none" /\ old # new
    BY DEF accept_replace, ensure_not_banned, is_active
  <2>2. b.vault[new] = registry.vault[new]
    BY <1>1, <1>3, <2>1 DEF decrease_to_be_replaced_tokens, set_vault, RegistryOK,
                            RegistrySound, Registry
  <2>. QED BY <1>1, <1>5, <1>6, <1>7a, <2>1, <2>2, TryDepositOK
<1>. HIDE DEF w
<1>9. SameBooks(b, e)
  BY <1>1, <1>5, <1>6, <1>7a, TryDepositBooks
<1>10. SameBooks(registry, e)
  BY <1>6, <1>9, SameChain
<1>11. /\ issued_tokens(s) = issued_tokens(e)
       /\ to_be_issued_tokens(s) = to_be_issued_tokens(e) + n
       /\ Redeeming(s) = Credited(Redeeming(e), old, n)
       /\ SameGriefing(e, s) /\ SameExcess(e, s)
  BY <1>4, <1>7a, <1>8, AcceptTokensBooks
<1>12. s \in Registry
  BY <1>4, <1>7a, <1>8, AcceptTokensOK DEF RegistryOK, RegistrySound
<1>13. PICK t : /\ t \in release_funds(s, <<"AvailableReplaceCollateral", old>>, g)
                /\ q \in claim_funds(t, <<"ActiveReplaceCollateral", old>>, g)
  BY <1>7a, Transferred
<1>14. t \in Registry /\ SameBooks(s, t)
  BY <1>4, <1>12, <1>13, ReleaseOfferBooks
<1>15. /\ q \in Registry /\ SameTokens(t, q) /\ SameExcess(t, q)
       /\ RequestGriefing(q) = RequestGriefing(t)
       /\ AcceptedGriefing(q) = Credited(AcceptedGriefing(t), old, g)
  BY <1>4, <1>13, <1>14, ClaimAcceptedBooks DEF Credited
<1>16. /\ issued_tokens(q) = issued_tokens(registry)
       /\ to_be_issued_tokens(q) = to_be_issued_tokens(registry) + n
       /\ Redeeming(q) = Credited(Redeeming(registry), old, n)
       /\ RequestGriefing(q) = RequestGriefing(registry) /\ SameExcess(registry, q)
       /\ AcceptedGriefing(q) = Credited(AcceptedGriefing(registry), old, g)
  BY <1>10, <1>11, <1>14, <1>15 DEF SameBooks, SameTokens, SameGriefing, SameExcess
<1>17. /\ y \in ReplaceRequest /\ y.status = "Pending" /\ y.amount = n
       /\ y.old_vault = old /\ y.griefing_collateral = g
  BY <1>4, <1>5, <1>7 DEF ReplaceRequest
<1>18. p \in Seq(ReplaceRequest) /\ \E k : Opens(replaceRequests, p, k) /\ p[k] = y
  <2>1. Added(replaceRequests, p, y)
    BY <1>7
  <2>. QED BY <1>1, <1>17, <2>1, RequestAddedOpens
<1>19. PICK k : Opens(replaceRequests, p, k) /\ p[k] = y
  BY <1>18
<1>20. /\ ReplaceClaims(p) = ReplaceClaims(replaceRequests) + n
       /\ ReplaceRedeems(p) = Credited(ReplaceRedeems(replaceRequests), old, n)
       /\ ReplaceDeposits(p) = Credited(ReplaceDeposits(replaceRequests), old, g)
  BY <1>1, <1>17, <1>18, <1>19, ReplaceOpened
<1>21. /\ Redeeming(registry) \in [Vaults -> Nat] /\ Redeeming(q) \in [Vaults -> Nat]
       /\ ReplaceRedeems(replaceRequests) \in [Vaults -> Nat]
       /\ ReplaceRedeems(p) \in [Vaults -> Nat]
  BY <1>1, <1>15, <1>18, BooksTyped, ReplaceClaimsTyped
<1>22. Follows(Redeeming(registry), Redeeming(q), ReplaceRedeems(replaceRequests), ReplaceRedeems(p))
  BY <1>4, <1>16, <1>20, <1>21, FollowCredit
<1>23. AcceptedGriefing(q) = ReplaceDeposits(p)
  BY <1>0, <1>16, <1>20 DEF Books
<1>24. n \in Int
  BY <1>4
<1>25. Books(q, tokens, issueRequests, redeemRequests, p)
  BY <1>0, <1>1, <1>16, <1>20, <1>21, <1>22, <1>23, <1>24, ReplaceStep
<1>. QED BY <1>7, <1>7a, <1>16, <1>17, <1>25

(* A pending request ends: its tokens are to be issued and to be redeemed  *)
(* no longer, and its griefing collateral is locked no longer.             *)
LEMMA ReplaceEndsBooks ==
    ASSUME BooksInv, NEW i \in ReplaceIds, replaceRequests[i].status = "Pending",
           NEW st \in {"Completed", "Cancelled"}, NEW q \in Registry, NEW n, NEW p,
           ReplaceEnded(p, i, st), n = replaceRequests[i].amount,
           issued_tokens(q) = issued_tokens(registry),
           to_be_issued_tokens(q) = to_be_issued_tokens(registry) - n,
           Redeeming(q) = Debited(Redeeming(registry), replaceRequests[i].old_vault, n),
           RequestGriefing(q) = RequestGriefing(registry), SameExcess(registry, q),
           AcceptedGriefing(q) = Debited(AcceptedGriefing(registry),
                                         replaceRequests[i].old_vault,
                                         replaceRequests[i].griefing_collateral)
    PROVE  /\ Books(q, tokens, issueRequests, redeemRequests, p)
           /\ \E y : Revised(replaceRequests, p, i, y) /\ y.status = st
<1>0. BridgeInv /\ Books(registry, tokens, issueRequests, redeemRequests, replaceRequests)
  BY DEF BooksInv
<1>1. /\ registry \in Registry /\ tokens \in Ledger
      /\ issueRequests \in Seq(IssueRequest) /\ redeemRequests \in Seq(RedeemRequest)
      /\ replaceRequests \in Seq(ReplaceRequest)
  BY <1>0, StateTyped
<1>2. PICK old, g : /\ old = replaceRequests[i].old_vault
                    /\ g = replaceRequests[i].griefing_collateral
                    /\ old \in Vaults /\ g \in Nat /\ n \in Nat
  BY <1>0, ReplaceTyped
<1>3. PICK y \in ReplaceRequest : Revised(replaceRequests, p, i, y) /\ y.status = st
  BY <1>0, ReplaceRevised
<1>4. p \in Seq(ReplaceRequest) /\ Closes(replaceRequests, p, i)
  BY <1>1, <1>3, RequestRevised
<1>5. /\ ReplaceClaims(p) = ReplaceClaims(replaceRequests) - n
      /\ ReplaceRedeems(p) = Debited(ReplaceRedeems(replaceRequests), old, n)
      /\ ReplaceDeposits(p) = Debited(ReplaceDeposits(replaceRequests), old, g)
  BY <1>1, <1>2, <1>4, ReplaceClosed
<1>6. /\ Redeeming(registry) \in [Vaults -> Nat] /\ Redeeming(q) \in [Vaults -> Nat]
      /\ ReplaceRedeems(replaceRequests) \in [Vaults -> Nat]
      /\ ReplaceRedeems(p) \in [Vaults -> Nat]
      /\ ReplaceClaims(replaceRequests) \in Nat /\ to_be_issued_tokens(registry) \in Nat
  BY <1>1, <1>4, BooksTyped, ReplaceClaimsTyped
<1>7. Follows(Redeeming(registry), Redeeming(q), ReplaceRedeems(replaceRequests), ReplaceRedeems(p))
  <2>1. Redeeming(q) = Debited(Redeeming(registry), old, n)
    BY <1>2
  <2>. QED BY <1>2, <1>5, <1>6, <2>1, FollowCredit
<1>8. AcceptedGriefing(q) = ReplaceDeposits(p)
  <2>1. AcceptedGriefing(q) = Debited(AcceptedGriefing(registry), old, g)
    BY <1>2
  <2>. QED BY <1>0, <1>5, <2>1 DEF Books
<1>9. PICK j : j = 0 - n /\ j \in Int
  BY <1>2
<1>10. /\ to_be_issued_tokens(q) = to_be_issued_tokens(registry) + j
       /\ ReplaceClaims(p) = ReplaceClaims(replaceRequests) + j
  BY <1>2, <1>5, <1>6, <1>9
<1>11. Books(q, tokens, issueRequests, redeemRequests, p)
  BY <1>0, <1>1, <1>6, <1>7, <1>8, <1>9, <1>10, ReplaceStep
<1>. QED BY <1>3, <1>11

LEMMA ExecuteReplaceBooks ==
    ASSUME BooksInv, NEW i \in ReplaceIds, execute_replace(i)
    PROVE  /\ Books(registry', tokens, issueRequests, redeemRequests, replaceRequests')
           /\ issued_tokens(registry') = issued_tokens(registry)
           /\ replaceRequests[i].status \in {"Pending", "Cancelled"}
           /\ \E y : Revised(replaceRequests, replaceRequests', i, y) /\ y.status = "Completed"
<1>0. BridgeInv /\ Books(registry, tokens, issueRequests, redeemRequests, replaceRequests)
  BY DEF BooksInv
<1>1. /\ registry \in Registry /\ RegistryOK(registry) /\ ParamsOK
      /\ replaceRequests \in Seq(ReplaceRequest)
  BY <1>0, StateTyped
<1>2. PICK old, new, n, g :
           /\ old = replaceRequests[i].old_vault /\ new = replaceRequests[i].new_vault
           /\ n = replaceRequests[i].amount /\ g = replaceRequests[i].griefing_collateral
           /\ old \in Vaults /\ new \in Vaults /\ n \in Nat /\ g \in Nat
  BY <1>0, ReplaceTyped
<1>3. PICK s, q, p :
           /\ \/ /\ replaceRequests[i].status = "Pending"
                 /\ s \in transfer_funds(registry, <<"ActiveReplaceCollateral", old>>,
                                         <<"FreeBalance", old>>, g)
              \/ /\ replaceRequests[i].status = "Cancelled"
                 /\ s \in accept_replace_tokens(registry, old, new, n)
           /\ q \in replace_tokens(s, old, new, n)
           /\ ReplaceEnded(p, i, "Completed")
           /\ q = registry' /\ p = replaceRequests'
  BY <1>2 DEF execute_replace, ReplaceEnded
<1>4. to_be_issued_tokens(registry) \in Nat /\ Redeeming(registry) \in [Vaults -> Nat]
  BY <1>1, BooksTyped
<1>5. ASSUME RegistryOK(s)
      PROVE  /\ q \in Registry
             /\ issued_tokens(q) = issued_tokens(s)
             /\ to_be_issued_tokens(q) = to_be_issued_tokens(s) - n
             /\ Redeeming(q) = Debited(Redeeming(s), old, n)
             /\ SameGriefing(s, q) /\ SameExcess(s, q)
  <2>1. q \in Registry
    BY <1>1, <1>2, <1>3, <1>5, ReplaceTokensOK DEF RegistryOK, RegistrySound
  <2>2. /\ issued_tokens(q) = issued_tokens(s)
        /\ to_be_issued_tokens(q) = to_be_issued_tokens(s) - n
        /\ Redeeming(q) = Debited(Redeeming(s), old, n)
        /\ SameGriefing(s, q) /\ SameExcess(s, q)
    BY <1>1, <1>2, <1>3, <1>5, ReplaceTokensBooks DEF Debited
  <2>. QED BY <2>1, <2>2
<1>6. CASE /\ replaceRequests[i].status = "Pending"
           /\ s \in transfer_funds(registry, <<"ActiveReplaceCollateral", old>>,
                                   <<"FreeBalance", old>>, g)
  <2>1. s \in release_funds(registry, <<"ActiveReplaceCollateral", old>>, g)
    BY <1>6, ToFreeBalance
  <2>2. RegistryOK(s)
    BY <1>1, <1>2, <2>1, ReleaseReplaceOK
  <2>3. /\ s \in Registry /\ SameTokens(registry, s) /\ SameExcess(registry, s)
        /\ RequestGriefing(s) = RequestGriefing(registry)
        /\ AcceptedGriefing(s) = Debited(AcceptedGriefing(registry), old, g)
    BY <1>1, <1>2, <2>1, ReleaseAcceptedEffect
  <2>4. /\ q \in Registry
        /\ issued_tokens(q) = issued_tokens(registry)
        /\ to_be_issued_tokens(q) = to_be_issued_tokens(registry) - n
        /\ Redeeming(q) = Debited(Redeeming(registry), replaceRequests[i].old_vault, n)
        /\ RequestGriefing(q) = RequestGriefing(registry) /\ SameExcess(registry, q)
        /\ AcceptedGriefing(q) = Debited(AcceptedGriefing(registry),
                                         replaceRequests[i].old_vault,
                                         replaceRequests[i].griefing_collateral)
    BY <1>2, <1>5, <2>2, <2>3 DEF SameTokens, SameGriefing, SameExcess
  <2>5. /\ ReplaceEnded(p, i, "Completed")
        /\ n = replaceRequests[i].amount
    BY <1>2, <1>3
  <2>6. /\ Books(q, tokens, issueRequests, redeemRequests, p)
        /\ \E y : Revised(replaceRequests, p, i, y) /\ y.status = "Completed"
    BY <1>6, <2>4, <2>5, ReplaceEndsBooks
  <2>. QED BY <1>3, <1>6, <2>4, <2>6
<1>7. CASE /\ replaceRequests[i].status = "Cancelled"
           /\ s \in accept_replace_tokens(registry, old, new, n)
  <2>1. RegistryOK(s)
    BY <1>1, <1>2, <1>7, AcceptTokensOK
  <2>2. /\ issued_tokens(s) = issued_tokens(registry)
        /\ to_be_issued_tokens(s) = to_be_issued_tokens(registry) + n
        /\ Redeeming(s) = Credited(Redeeming(registry), old, n)
        /\ SameGriefing(registry, s) /\ SameExcess(registry, s)
    BY <1>1, <1>2, <1>7, AcceptTokensBooks
  <2>3. /\ issued_tokens(q) = issued_tokens(registry)
        /\ to_be_issued_tokens(q) = (to_be_issued_tokens(registry) + n) - n
        /\ Redeeming(q) = Debited(Credited(Redeeming(registry), old, n), old, n)
        /\ SameGriefing(registry, q) /\ SameExcess(registry, q)
    BY <1>5, <2>1, <2>2 DEF SameGriefing, SameExcess
  <2>4. (to_be_issued_tokens(registry) + n) - n = to_be_issued_tokens(registry)
    BY <1>2, <1>4
  <2>5. Debited(Credited(Redeeming(registry), old, n), old, n) = Redeeming(registry)
    BY <1>2, <1>4, CreditDebit
  <2>6. SameBooks(registry, q)
    BY <2>3, <2>4, <2>5 DEF SameBooks, SameTokens
  <2>7. ReplaceEnded(p, i, "Completed")
    BY <1>3
  <2>8. PICK y \in ReplaceRequest : Revised(replaceRequests, p, i, y) /\ y.status = "Completed"
    BY <1>0, <2>7, ReplaceRevised
  <2>9. p \in Seq(ReplaceRequest) /\ Keeps(replaceRequests, p, i)
    <3>1. replaceRequests[i].status = "Pending" <=> y.status = "Pending"
      BY <1>7, <2>8
    <3>. QED BY <1>1, <2>8, <3>1, RequestRevised
  <2>10. SameReplaceClaims(replaceRequests, p)
    <3>1. i \notin Pending(replaceRequests)
      BY <1>7 DEF Pending
    <3>. QED BY <1>1, <2>9, <3>1, ReplaceKept
  <2>11. Books(q, tokens, issueRequests, redeemRequests, replaceRequests)
    BY <1>0, <2>6, QuietStep
  <2>12. Books(q, tokens, issueRequests, redeemRequests, p)
    BY <2>10, <2>11 DEF Books, SameReplaceClaims
  <2>. QED BY <1>3, <1>7, <2>3, <2>8, <2>12
<1>. QED BY <1>3, <1>6, <1>7

LEMMA CancelReplaceBooks ==
    ASSUME BooksInv, NEW i \in ReplaceIds, cancel_replace(i)
    PROVE  /\ Books(registry', tokens, issueRequests, redeemRequests, replaceRequests')
           /\ issued_tokens(registry') = issued_tokens(registry)
           /\ replaceRequests[i].status = "Pending"
           /\ \E y : Revised(replaceRequests, replaceRequests', i, y) /\ y.status = "Cancelled"
<1>0. BridgeInv /\ Books(registry, tokens, issueRequests, redeemRequests, replaceRequests)
  BY DEF BooksInv
<1>1. /\ registry \in Registry /\ RegistryOK(registry) /\ ParamsOK
      /\ replaceRequests \in Seq(ReplaceRequest)
  BY <1>0, StateTyped
<1>2. PICK old, new, n, g, c :
           /\ old = replaceRequests[i].old_vault /\ new = replaceRequests[i].new_vault
           /\ n = replaceRequests[i].amount /\ g = replaceRequests[i].griefing_collateral
           /\ c = replaceRequests[i].collateral
           /\ old \in Vaults /\ new \in Vaults /\ n \in Nat /\ g \in Nat /\ c \in Nat
  BY <1>0, ReplaceTyped
<1>3. PICK s, t, q : /\ s \in cancel_replace_tokens(registry, old, new, n)
                     /\ t \in transfer_funds(s, <<"ActiveReplaceCollateral", old>>,
                                             <<"FreeBalance", new>>, g)
                     /\ q \in release_new_vault_collateral(t, new, c)
                     /\ q = registry'
  BY <1>2 DEF cancel_replace
<1>4. PICK p : p = replaceRequests' /\ ReplaceEnded(p, i, "Cancelled")
  BY DEF cancel_replace, ReplaceEnded
<1>5. replaceRequests[i].status = "Pending"
  BY DEF cancel_replace
<1>6. RegistryOK(s)
  BY <1>1, <1>2, <1>3, CancelReplaceTokensOK
<1>7. s \in Registry
  BY <1>6 DEF RegistryOK, RegistrySound
<1>8. /\ issued_tokens(s) = issued_tokens(registry)
      /\ to_be_issued_tokens(s) = to_be_issued_tokens(registry) - n
      /\ Redeeming(s) = Debited(Redeeming(registry), old, n)
      /\ SameGriefing(registry, s) /\ SameExcess(registry, s)
  BY <1>1, <1>2, <1>3, CancelReplaceTokensBooks DEF Debited
<1>9. t \in release_funds(s, <<"ActiveReplaceCollateral", old>>, g)
  BY <1>3, ToFreeBalance
<1>10. /\ t \in Registry /\ SameTokens(s, t) /\ SameExcess(s, t)
       /\ RequestGriefing(t) = RequestGriefing(s)
       /\ AcceptedGriefing(t) = Debited(AcceptedGriefing(s), old, g)
  BY <1>2, <1>7, <1>9, ReleaseAcceptedEffect
<1>11. RegistryOK(t)
  BY <1>2, <1>6, <1>9, ReleaseReplaceOK
<1>12. q = t \/ q \in force_withdraw_collateral(t, new, c)
  BY <1>3 DEF release_new_vault_collateral
<1>13. q \in Registry
  BY <1>1, <1>2, <1>10, <1>11, <1>12, ForceWithdrawOK DEF RegistryOK, RegistrySound
<1>14. SameBooks(t, q)
  <2>1. CASE q = t
    BY <2>1 DEF SameBooks, SameTokens, SameGriefing, SameExcess
  <2>2. CASE q \in force_withdraw_collateral(t, new, c)
    BY <1>1, <1>2, <1>10, <2>2, ForceWithdrawBooks
  <2>. QED BY <1>12, <2>1, <2>2
<1>15. /\ issued_tokens(q) = issued_tokens(registry)
       /\ to_be_issued_tokens(q) = to_be_issued_tokens(registry) - n
       /\ Redeeming(q) = Debited(Redeeming(registry), old, n)
       /\ RequestGriefing(q) = RequestGriefing(registry) /\ SameExcess(registry, q)
       /\ AcceptedGriefing(q) = Debited(AcceptedGriefing(registry), old, g)
  BY <1>8, <1>10, <1>14 DEF SameBooks, SameTokens, SameGriefing, SameExcess
<1>16. /\ n = replaceRequests[i].amount
       /\ Redeeming(q) = Debited(Redeeming(registry), replaceRequests[i].old_vault, n)
       /\ AcceptedGriefing(q) = Debited(AcceptedGriefing(registry),
                                        replaceRequests[i].old_vault,
                                        replaceRequests[i].griefing_collateral)
  BY <1>2, <1>15
<1>17. /\ Books(q, tokens, issueRequests, redeemRequests, p)
       /\ \E y : Revised(replaceRequests, p, i, y) /\ y.status = "Cancelled"
  BY <1>4, <1>5, <1>13, <1>15, <1>16, ReplaceEndsBooks
<1>. QED BY <1>3, <1>4, <1>5, <1>15, <1>17

LEMMA ReplaceExpiresBooks ==
    ASSUME BooksInv, NEW i \in ReplaceIds, replace_expires(i)
    PROVE  /\ Books(registry', tokens, issueRequests, redeemRequests, replaceRequests')
           /\ registry' = registry
           /\ replaceRequests[i].status = "Pending"
           /\ \E y : Revised(replaceRequests, replaceRequests', i, y) /\ y.status = "Pending"
<1>. DEFINE replace == replaceRequests[i]
<1>0. BridgeInv /\ Books(registry, tokens, issueRequests, redeemRequests, replaceRequests)
  BY DEF BooksInv
<1>1. /\ replaceRequests \in Seq(ReplaceRequest) /\ i \in DOMAIN replaceRequests
      /\ replace \in ReplaceRequest
  BY <1>0, StateTyped, ReplaceTyped
<1>2. PICK p, y : /\ y = [replace EXCEPT !.expired = TRUE] /\ p = replaceRequests'
                  /\ registry' = registry /\ replace.status = "Pending"
                  /\ Revised(replaceRequests, p, i, y)
  BY <1>1 DEF replace_expires, registryVars, Revised
<1>3. /\ y \in ReplaceRequest /\ y.status = "Pending" /\ y.amount = replace.amount
      /\ y.old_vault = replace.old_vault
      /\ y.griefing_collateral = replace.griefing_collateral
  BY <1>1, <1>2 DEF ReplaceRequest
<1>. HIDE DEF replace
<1>4. p \in Seq(ReplaceRequest) /\ Keeps(replaceRequests, p, i) /\ p[i] = y
  <2>1. Revised(replaceRequests, p, i, y)
        /\ (replace.status = "Pending" <=> y.status = "Pending")
    BY <1>2, <1>3
  <2>. QED BY <1>1, <1>3, <2>1, RequestRevised DEF replace
<1>5. SameReplaceClaims(replaceRequests, p)
  BY <1>1, <1>3, <1>4, ReplaceKept DEF replace
<1>6. Books(registry, tokens, issueRequests, redeemRequests, p)
  BY <1>0, <1>5 DEF Books, SameReplaceClaims
<1>. QED BY <1>2, <1>3, <1>6 DEF replace

-----------------------------------------------------------------------------
(* The books of the bridge                                                 *)

NewRegistry ==
    [vault |-> [v \in Vaults |-> NoVault],
     lv |-> [issued |-> 0, to_be_issued |-> 0, to_be_redeemed |-> 0, collateral |-> 0,
             reserved |-> 0],
     total |-> 0,
     griefing |-> [a \in Accounts |-> 0],
     capacity |-> "current"]

LEMMA NewRegistryBooks ==
    /\ issued_tokens(NewRegistry) = 0 /\ to_be_issued_tokens(NewRegistry) = 0
    /\ \A v \in Vaults : Redeeming(NewRegistry)[v] = 0
    /\ CollateralExcess(NewRegistry) = 0 /\ CopyExcess(NewRegistry) = 0
    /\ RequestGriefing(NewRegistry) = [a \in Accounts |-> 0]
    /\ AcceptedGriefing(NewRegistry) = [v \in Vaults |-> 0]
<1>. DEFINE r == NewRegistry
<1>1. /\ DOMAIN r.vault = Vaults /\ \A v \in Vaults : r.vault[v] = NoVault
      /\ r.lv.issued = 0 /\ r.lv.to_be_issued = 0 /\ r.lv.to_be_redeemed = 0
      /\ r.lv.collateral = 0 /\ r.total = 0
      /\ \A a \in Accounts : r.griefing[a] = 0
  BY DEF NewRegistry
<1>2. /\ NoVault.issued = 0 /\ NoVault.to_be_issued = 0 /\ NoVault.to_be_redeemed = 0
      /\ NoVault.replace_collateral = 0 /\ NoVault.active_replace_collateral = 0
      /\ NoVault.liquidated_collateral = 0 /\ NoVault.stake = 0
  BY DEF NoVault
<1>. HIDE DEF r
<1>3. issued_tokens(r) = 0
  <2>1. Total(Field(r.vault, "issued"), Vaults) = 0
    <3>1. \A v \in Vaults : Field(r.vault, "issued")[v] = 0
      BY <1>1, <1>2 DEF Field
    <3>. QED BY <3>1, TotalZero
  <2>. QED BY <1>1, <2>1 DEF issued_tokens
<1>4. to_be_issued_tokens(r) = 0
  <2>1. Total(Field(r.vault, "to_be_issued"), Vaults) = 0
    <3>1. \A v \in Vaults : Field(r.vault, "to_be_issued")[v] = 0
      BY <1>1, <1>2 DEF Field
    <3>. QED BY <3>1, TotalZero
  <2>. QED BY <1>1, <2>1 DEF to_be_issued_tokens
<1>5. \A v \in Vaults : Redeeming(r)[v] = 0
  BY <1>1, <1>2 DEF Redeeming, Field
<1>6. CollateralExcess(r) = 0
  <2>. DEFINE h == [v \in Vaults |-> r.vault[v].stake + r.vault[v].liquidated_collateral]
  <2>1. \A v \in Vaults : h[v] = 0
    BY <1>1, <1>2
  <2>. HIDE DEF h
  <2>2. Total(h, Vaults) = 0
    BY <2>1, TotalZero
  <2>3. held_collateral(r) = 0
    BY <1>1, <2>2 DEF held_collateral, h
  <2>. QED BY <1>1, <2>3 DEF CollateralExcess
<1>7. CopyExcess(r) = 0
  <2>. DEFINE L == {v \in Vaults : is_liquidated(r.vault[v])}
  <2>1. \A v \in L : Redeeming(r)[v] = 0
    BY <1>5
  <2>. HIDE DEF L
  <2>2. Total(Redeeming(r), L) = 0
    BY <2>1, TotalZero
  <2>. QED BY <1>1, <2>2 DEF CopyExcess, L
<1>8. RequestGriefing(r) = [a \in Accounts |-> 0]
  BY <1>1, <1>2 DEF RequestGriefing
<1>9. AcceptedGriefing(r) = [v \in Vaults |-> 0]
  BY <1>1, <1>2 DEF AcceptedGriefing, Field
<1>. QED BY <1>3, <1>4, <1>5, <1>6, <1>7, <1>8, <1>9 DEF r

LEMMA NoClaims ==
    ASSUME NEW f, NEW k, NEW A
    PROVE  Claims(f, k, {}, A) = [a \in A |-> 0]
<1>1. \A a : {i \in {} : k[i] = a} = {}
  OBVIOUS
<1>2. \A a : Total(f, {i \in {} : k[i] = a}) = 0
  BY <1>1, TotalEmpty
<1>. QED BY <1>2 DEF Claims

LEMMA BooksInit == Init => BooksInv
<1>. SUFFICES ASSUME Init PROVE BooksInv
  OBVIOUS
<1>1. BridgeInv
  BY BridgeInitInv
<1>2. PICK q : q = << >>
  OBVIOUS
<1>3. /\ registry = NewRegistry
      /\ issueRequests = q /\ redeemRequests = q /\ replaceRequests = q
      /\ tokens = [a \in Holders |-> [free |-> 0, reserved |-> 0]]
  BY <1>2 DEF Init, RegistryInit, TreasuryInit, IssueInit, RedeemInit, ReplaceInit, NewRegistry
<1>4. Pending(q) = {}
  BY <1>2 DEF Pending
<1>5. /\ IssueClaims(q) = 0 /\ ReplaceClaims(q) = 0 /\ RedeemLockTotal(q) = 0
      /\ IssueDeposits(q) = [a \in Accounts |-> 0]
      /\ RedeemClaims(q) = [v \in Vaults |-> 0]
      /\ RedeemLocks(q) = [a \in Holders |-> 0]
      /\ ReplaceRedeems(q) = [v \in Vaults |-> 0]
      /\ ReplaceDeposits(q) = [v \in Vaults |-> 0]
  BY <1>4, TotalEmpty, NoClaims
     DEF IssueClaims, ReplaceClaims, RedeemLockTotal, IssueDeposits, RedeemClaims, RedeemLocks,
         ReplaceRedeems, ReplaceDeposits
<1>6. /\ Locks(tokens) = [a \in Holders |-> 0]
      /\ \A a \in Holders : Locks(tokens)[a] = 0 /\ Holdings(tokens)[a] = 0
  BY <1>3 DEF Locks, Holdings
<1>7. Supply(tokens) = 0 /\ LockTotal(tokens) = 0
  <2>1. Total(Holdings(tokens), Holders) = 0 /\ Total(Locks(tokens), Holders) = 0
    BY <1>6, TotalZero
  <2>. QED BY <2>1 DEF Supply, LockTotal, Holdings
<1>8. Split(Redeeming(registry), RedeemClaims(q), ReplaceRedeems(q))
  BY <1>3, <1>5, NewRegistryBooks DEF Split
<1>9. Books(registry, tokens, q, q, q)
  BY <1>3, <1>5, <1>6, <1>7, <1>8, NewRegistryBooks DEF Books
<1>. QED BY <1>1, <1>3, <1>9 DEF BooksInv

LEMMA IssueNextBooks ==
    ASSUME BooksInv, IssueNext
    PROVE  Books(registry', tokens', issueRequests', redeemRequests, replaceRequests)
<1>1. CASE \E a \in Requesters, v \in Vaults, x \in TokenAmounts : request_issue(a, v, x)
  BY <1>1, RequestIssueBooks
<1>2. CASE \E i \in IssueIds, a \in Requesters, x \in TokenAmounts : execute_issue(a, i, x)
  BY <1>2, ExecuteIssueKeepsBooks
<1>3. CASE \E i \in IssueIds, a \in Requesters : cancel_issue(a, i)
  BY <1>3, CancelIssueBooks
<1>4. CASE \E i \in IssueIds : issue_expires(i)
  BY <1>4, IssueExpiresBooks
<1>. QED BY <1>1, <1>2, <1>3, <1>4 DEF IssueNext

LEMMA RedeemNextBooks ==
    ASSUME BooksInv, RedeemNext
    PROVE  Books(registry', tokens', issueRequests, redeemRequests', replaceRequests)
<1>0. RedeemTypeOK' /\ registry' \in Registry
  BY RedeemNextInv DEF BooksInv, RegistryInv, RegistryOK, RegistrySound
<1>1. CASE \E a \in Requesters, v \in Vaults, x \in TokenAmounts, f \in InclusionFees :
              request_redeem(a, v, x, f)
  BY <1>0, <1>1, RequestRedeemBooks
<1>2. CASE \E a \in Requesters, x \in TokenAmounts : liquidation_redeem(a, x)
  BY <1>2, LiquidationRedeemBooks
<1>3. CASE \E i \in RedeemIds : execute_redeem(i)
  BY <1>3, ExecuteRedeemKeepsBooks
<1>4. CASE \E i \in RedeemIds, a \in Requesters, b \in BOOLEAN : cancel_redeem(a, i, b)
  BY <1>0, <1>4, CancelRedeemBooks
<1>5. CASE \E i \in RedeemIds, v \in Vaults : mint_tokens_for_reimbursed_redeem(v, i)
  BY <1>5, MintReimbursedBooks
<1>6. CASE \E v \in Vaults, x \in TokenAmounts : self_redeem(v, x)
  BY <1>6, SelfRedeemBooks
<1>7. CASE \E i \in RedeemIds : redeem_expires(i)
  BY <1>7, RedeemExpiresBooks
<1>. QED BY <1>1, <1>2, <1>3, <1>4, <1>5, <1>6, <1>7 DEF RedeemNext

LEMMA ReplaceNextBooks ==
    ASSUME BooksInv, ReplaceNext
    PROVE  Books(registry', tokens, issueRequests, redeemRequests, replaceRequests')
<1>0. Books(registry, tokens, issueRequests, redeemRequests, replaceRequests)
  BY DEF BooksInv
<1>1. CASE \E v \in Vaults, x \in TokenAmounts : request_replace(v, x)
  BY <1>0, <1>1, RequestReplaceBooks, QuietStep
<1>2. CASE \E v \in Vaults, x \in TokenAmounts : withdraw_replace(v, x)
  BY <1>0, <1>2, WithdrawReplaceKeepsBooks, QuietStep
<1>3. CASE \E old, new \in Vaults, x \in TokenAmounts, c \in CollateralAmounts :
              accept_replace(old, new, x, c)
  BY <1>3, AcceptReplaceBooks
<1>4. CASE \E i \in ReplaceIds : execute_replace(i)
  BY <1>4, ExecuteReplaceBooks
<1>5. CASE \E i \in ReplaceIds : cancel_replace(i)
  BY <1>5, CancelReplaceBooks
<1>6. CASE \E i \in ReplaceIds : replace_expires(i)
  BY <1>6, ReplaceExpiresBooks
<1>. QED BY <1>1, <1>2, <1>3, <1>4, <1>5, <1>6 DEF ReplaceNext

LEMMA BooksNext == BooksInv /\ [Next]_vars => BooksInv'
<1>. SUFFICES ASSUME BooksInv, [Next]_vars PROVE BooksInv'
  OBVIOUS
<1>0. BridgeInv /\ BridgeInv' /\ Books(registry, tokens, issueRequests, redeemRequests, replaceRequests)
  BY BridgeNextInv DEF BooksInv
<1>. SUFFICES Books(registry', tokens', issueRequests', redeemRequests', replaceRequests')
  BY <1>0 DEF BooksInv, Books, Supply, issued_tokens, to_be_issued_tokens, Split
<1>1. CASE RegistryNext /\ UNCHANGED <<tokens, issueRequests, redeemRequests, replaceRequests>>
  BY <1>0, <1>1, RegistryNextBooks, QuietStep DEF BridgeInv
<1>2. CASE IssueNext /\ UNCHANGED <<redeemRequests, replaceRequests>>
  BY <1>2, IssueNextBooks
<1>3. CASE RedeemNext /\ UNCHANGED <<issueRequests, replaceRequests>>
  BY <1>3, RedeemNextBooks
<1>4. CASE ReplaceNext /\ UNCHANGED <<tokens, issueRequests, redeemRequests>>
  BY <1>4, ReplaceNextBooks
<1>5. CASE UNCHANGED vars
  BY <1>0, <1>5 DEF vars
<1>. QED BY <1>1, <1>2, <1>3, <1>4, <1>5 DEF Next

(* The inductive invariant: in every reachable state of the bridge the     *)
(* counters of the registry, the token ledger and the request queues are   *)
(* one set of books, kept by every extrinsic together.                     *)
THEOREM BooksInvariant == Spec => []BooksInv
BY BooksInit, BooksNext, PTL DEF Spec

(* Every wrapped token in circulation is an issued token of some vault or  *)
(* of the liquidation vault, and conversely: execute_issue, execute_redeem, *)
(* cancel_redeem, mint_tokens_for_reimbursed_redeem, liquidation_redeem,   *)
(* self_redeem, execute_replace and liquidate_vault move the ledger and    *)
(* the registry together.                                                  *)
THEOREM SupplyIsBacked == Spec => []SupplyBacked
<1>1. BooksInv => SupplyBacked
  BY DEF BooksInv, Books, SupplyBacked, TotalIssuance
<1>. QED BY <1>1, BooksInvariant, PTL

(* The to-be-issued tokens of the registry are those of the pending issue  *)
(* and replace requests, whatever was paid, overpaid, cancelled or         *)
(* liquidated (issue: execute_issue, cancel_issue; replace: accept,        *)
(* execute and cancel; vault-registry: liquidate_vault).                   *)
THEOREM ToBeIssuedIsConserved == Spec => []ToBeIssuedConserved
<1>1. BooksInv => ToBeIssuedConserved
  BY DEF BooksInv, Books, IssueClaims, ReplaceClaims, ToBeIssuedConserved, PendingIssues,
         PendingReplaces
<1>. QED BY <1>1, BooksInvariant, PTL

(* The sum over the requests of one account is the one over its pending    *)
(* requests.                                                               *)
LEMMA ClaimsOf ==
    ASSUME NEW f, NEW k, NEW P, NEW A, NEW a \in A, NEW S, S = {i \in P : k[i] = a}
    PROVE  Claims(f, k, P, A)[a] = Total(f, S)
BY DEF Claims

(* The to-be-redeemed tokens of each vault are those of its pending redeem *)
(* requests and of the pending replace requests it is the old vault of,    *)
(* and the liquidation vault holds the copy of those of the liquidated     *)
(* vaults, until the last of them is settled (vault-registry:              *)
(* liquidate_vault, redeem_tokens, cancel_redeem_tokens, replace_tokens).  *)
THEOREM RedeemsAreCovered == Spec => []RedeemsCovered
<1>1. ASSUME BooksInv PROVE RedeemsCovered
  <2>0. BridgeInv /\ Books(registry, tokens, issueRequests, redeemRequests, replaceRequests)
    BY <1>1 DEF BooksInv
  <2>1. registry \in Registry
    BY <2>0, StateTyped
  <2>2. DOMAIN registry.vault = Vaults /\ registry.lv.to_be_redeemed \in Nat
    BY <2>1 DEF Registry, SystemVault
  <2>3. ASSUME NEW v \in Vaults
        PROVE  registry.vault[v].to_be_redeemed =
                   Total(burn_amounts(redeemRequests),
                         {i \in PendingRedeems : redeemRequests[i].vault = v})
                   + Total(Field(replaceRequests, "amount"),
                           {i \in PendingReplaces : replaceRequests[i].old_vault = v})
    <3>1. Redeeming(registry)[v]
             = RedeemClaims(redeemRequests)[v] + ReplaceRedeems(replaceRequests)[v]
      BY <2>0 DEF Books, Split
    <3>2. Redeeming(registry)[v] = registry.vault[v].to_be_redeemed
      BY <2>2 DEF Redeeming, Field
    <3>3. RedeemClaims(redeemRequests)[v]
             = Total(burn_amounts(redeemRequests),
                     {i \in PendingRedeems : redeemRequests[i].vault = v})
      <4>1. PICK S : S = {i \in PendingRedeems : redeemRequests[i].vault = v}
        OBVIOUS
      <4>2. \A i \in Pending(redeemRequests) : Field(redeemRequests, "vault")[i] = redeemRequests[i].vault
        BY DEF Field, Pending
      <4>3. S = {i \in Pending(redeemRequests) : Field(redeemRequests, "vault")[i] = v}
        BY <4>1, <4>2 DEF PendingRedeems
      <4>. QED BY <4>1, <4>3, ClaimsOf DEF RedeemClaims
    <3>4. ReplaceRedeems(replaceRequests)[v]
             = Total(Field(replaceRequests, "amount"),
                     {i \in PendingReplaces : replaceRequests[i].old_vault = v})
      <4>1. PICK S : S = {i \in PendingReplaces : replaceRequests[i].old_vault = v}
        OBVIOUS
      <4>2. \A i \in Pending(replaceRequests) : Field(replaceRequests, "old_vault")[i] = replaceRequests[i].old_vault
        BY DEF Field, Pending
      <4>3. S = {i \in Pending(replaceRequests) : Field(replaceRequests, "old_vault")[i] = v}
        BY <4>1, <4>2 DEF PendingReplaces
      <4>. QED BY <4>1, <4>3, ClaimsOf DEF ReplaceRedeems
    <3>. QED BY <3>1, <3>2, <3>3, <3>4
  <2>4. registry.lv.to_be_redeemed =
           Total(Field(registry.vault, "to_be_redeemed"),
                 {v \in Vaults : is_liquidated(registry.vault[v])})
    <3>1. PICK k : k = Total(Redeeming(registry), {v \in Vaults : is_liquidated(registry.vault[v])})
      OBVIOUS
    <3>2. k \in Nat
      <4>1. Redeeming(registry) \in [Vaults -> Nat]
        BY <2>1, BooksTyped
      <4>2. PICK L : L = {v \in Vaults : is_liquidated(registry.vault[v])}
        OBVIOUS
      <4>3. IsFiniteSet(L) /\ \A v \in L : Redeeming(registry)[v] \in Nat
        BY <4>1, <4>2, AccountsAssumption, FS_Subset
      <4>. QED BY <3>1, <4>2, <4>3, TotalNat
    <3>3. registry.lv.to_be_redeemed - k = 0
      BY <2>0, <3>1 DEF Books, CopyExcess
    <3>. QED BY <2>2, <3>1, <3>2, <3>3 DEF Redeeming
  <2>. QED BY <2>3, <2>4 DEF RedeemsCovered
<1>. QED BY <1>1, BooksInvariant, PTL

(* TotalUserVaultCollateral is the collateral of all the vaults and of the *)
(* liquidation vault: the total the collateral ceiling is checked against  *)
(* is moved with every deposit, withdrawal, slash and liquidation.         *)
THEOREM TotalCollateralHolds == Spec => []TotalCollateral
<1>1. ASSUME BooksInv PROVE TotalCollateral
  <2>0. BridgeInv /\ Books(registry, tokens, issueRequests, redeemRequests, replaceRequests)
    BY <1>1 DEF BooksInv
  <2>1. registry \in Registry
    BY <2>0, StateTyped
  <2>2. registry.total \in Nat /\ held_collateral(registry) \in Nat
    BY <2>1, BooksTyped DEF Registry
  <2>3. registry.total - held_collateral(registry) = 0
    BY <2>0 DEF Books, CollateralExcess
  <2>. QED BY <2>2, <2>3 DEF TotalCollateral
<1>. QED BY <1>1, BooksInvariant, PTL

(* The griefing collateral an account has locked is that of its pending    *)
(* issue requests and, for a vault, of its replace offer and accepted      *)
(* requests, which are exactly its pending ones: no settlement releases    *)
(* another request's deposit or forgets its own (issue: execute_issue,     *)
(* cancel_issue; replace: accept, execute, cancel and withdraw).           *)
THEOREM GriefingIsLocked == Spec => []GriefingLocked
<1>1. ASSUME BooksInv PROVE GriefingLocked
  <2>0. BridgeInv /\ Books(registry, tokens, issueRequests, redeemRequests, replaceRequests)
    BY <1>1 DEF BooksInv
  <2>1. registry \in Registry /\ issueRequests \in Seq(IssueRequest)
    BY <2>0, StateTyped
  <2>2. /\ registry.vault \in [Vaults -> Vault] /\ registry.griefing \in [Accounts -> Nat]
    BY <2>1 DEF Registry
  <2>3. ASSUME NEW a \in Accounts
        PROVE  registry.griefing[a] =
                  Total(Field(issueRequests, "griefing_collateral"),
                        {i \in PendingIssues : issueRequests[i].requester = a})
                  + IF a \in Vaults
                    THEN registry.vault[a].replace_collateral
                         + registry.vault[a].active_replace_collateral
                    ELSE 0
    <3>1. PICK h, k : /\ h = IF a \in Vaults
                             THEN registry.vault[a].replace_collateral
                                  + registry.vault[a].active_replace_collateral
                             ELSE 0
                      /\ k = IssueDeposits(issueRequests)[a]
      OBVIOUS
    <3>2. h \in Nat
      <4>1. CASE a \in Vaults
        <5>1. registry.vault[a] \in Vault
          BY <2>2, <4>1
        <5>2. registry.vault[a].replace_collateral \in Nat
              /\ registry.vault[a].active_replace_collateral \in Nat
          BY <5>1 DEF Vault
        <5>. QED BY <3>1, <4>1, <5>2
      <4>2. CASE a \notin Vaults
        BY <3>1, <4>2
      <4>. QED BY <4>1, <4>2
    <3>3. RequestGriefing(registry)[a] = registry.griefing[a] - h
      BY <3>1 DEF RequestGriefing
    <3>4. RequestGriefing(registry)[a] = k
      BY <2>0, <3>1 DEF Books
    <3>5. registry.griefing[a] \in Nat
      BY <2>2
    <3>6. registry.griefing[a] = k + h
      BY <3>2, <3>3, <3>4, <3>5
    <3>7. k = Total(Field(issueRequests, "griefing_collateral"),
                    {i \in PendingIssues : issueRequests[i].requester = a})
      <4>1. PICK S : S = {i \in PendingIssues : issueRequests[i].requester = a}
        OBVIOUS
      <4>2. \A i \in Pending(issueRequests) : Field(issueRequests, "requester")[i] = issueRequests[i].requester
        BY DEF Field, Pending
      <4>3. S = {i \in Pending(issueRequests) : Field(issueRequests, "requester")[i] = a}
        BY <4>1, <4>2 DEF PendingIssues
      <4>. QED BY <3>1, <4>1, <4>3, ClaimsOf DEF IssueDeposits
    <3>. QED BY <3>1, <3>6, <3>7
  <2>4. ASSUME NEW v \in Vaults
        PROVE  registry.vault[v].active_replace_collateral =
                   Total(Field(replaceRequests, "griefing_collateral"),
                         {i \in PendingReplaces : replaceRequests[i].old_vault = v})
    <3>1. AcceptedGriefing(registry)[v] = registry.vault[v].active_replace_collateral
      BY <2>2 DEF AcceptedGriefing, Field
    <3>2. AcceptedGriefing(registry)[v] = ReplaceDeposits(replaceRequests)[v]
      BY <2>0 DEF Books
    <3>3. ReplaceDeposits(replaceRequests)[v]
             = Total(Field(replaceRequests, "griefing_collateral"),
                     {i \in PendingReplaces : replaceRequests[i].old_vault = v})
      <4>1. PICK S : S = {i \in PendingReplaces : replaceRequests[i].old_vault = v}
        OBVIOUS
      <4>2. \A i \in Pending(replaceRequests) : Field(replaceRequests, "old_vault")[i] = replaceRequests[i].old_vault
        BY DEF Field, Pending
      <4>3. S = {i \in Pending(replaceRequests) : Field(replaceRequests, "old_vault")[i] = v}
        BY <4>1, <4>2 DEF PendingReplaces
      <4>. QED BY <4>1, <4>3, ClaimsOf DEF ReplaceDeposits
    <3>. QED BY <3>1, <3>2, <3>3
  <2>. QED BY <2>3, <2>4 DEF GriefingLocked
<1>. QED BY <1>1, BooksInvariant, PTL

(* The wrapped tokens an account has locked are those of its pending       *)
(* redeem requests, fee included (redeem: request_redeem, execute_redeem,  *)
(* cancel_redeem with and without reimbursement).                          *)
THEOREM RedeemTokensAreLocked == Spec => []RedeemTokensLocked
<1>1. ASSUME BooksInv PROVE RedeemTokensLocked
  <2>0. Books(registry, tokens, issueRequests, redeemRequests, replaceRequests)
    BY <1>1 DEF BooksInv
  <2>1. SUFFICES ASSUME NEW a \in Accounts
        PROVE  tokens[a].reserved =
                  Total(redeem_totals(redeemRequests),
                        {i \in PendingRedeems : redeemRequests[i].redeemer = a})
    BY DEF RedeemTokensLocked
  <2>2. a \in Holders
    BY DEF Holders
  <2>3. Locks(tokens)[a] = tokens[a].reserved
    BY <2>2 DEF Locks
  <2>4. Locks(tokens)[a] = RedeemLocks(redeemRequests)[a]
    BY <2>0 DEF Books
  <2>5. RedeemLocks(redeemRequests)[a]
           = Total(redeem_totals(redeemRequests),
                   {i \in PendingRedeems : redeemRequests[i].redeemer = a})
    <3>1. PICK S : S = {i \in PendingRedeems : redeemRequests[i].redeemer = a}
      OBVIOUS
    <3>2. \A i \in Pending(redeemRequests) : Field(redeemRequests, "redeemer")[i] = redeemRequests[i].redeemer
      BY DEF Field, Pending
    <3>3. S = {i \in Pending(redeemRequests) : Field(redeemRequests, "redeemer")[i] = a}
      BY <3>1, <3>2 DEF PendingRedeems
    <3>. QED BY <2>2, <3>1, <3>3, ClaimsOf DEF RedeemLocks
  <2>. QED BY <2>3, <2>4, <2>5
<1>. QED BY <1>1, BooksInvariant, PTL

-----------------------------------------------------------------------------
(* Steps, seen from the requests: p is the next value of the queue, n and  *)
(* m are the tokens that vaults answer for before and after                *)

IssueEffect(p, n, m) ==
    \/ \E y \in IssueRequest : Added(issueRequests, p, y) /\ y.status = "Pending" /\ m = n
    \/ \E i \in IssueIds : \E y :
          /\ Revised(issueRequests, p, i, y)
          /\ \/ /\ issueRequests[i].status = "Pending"
                /\ y.status \in {"Pending", "Cancelled"} /\ m = n
             \/ /\ issueRequests[i].status \in {"Pending", "Cancelled"}
                /\ y.status = "Completed"
                /\ y.amount + y.fee \in Nat /\ m = n + (y.amount + y.fee)

RedeemEffect(p, n, m) ==
    \/ \E y \in RedeemRequest : Added(redeemRequests, p, y) /\ y.status = "Pending" /\ m = n
    \/ p = redeemRequests /\ \E k \in Nat : m = n - k
    \/ \E i \in RedeemIds : \E y :
          /\ Revised(redeemRequests, p, i, y)
          /\ burn_amount(y) = burn_amount(redeemRequests[i])
          /\ \/ /\ redeemRequests[i].status = "Pending"
                /\ y.status \in {"Pending", "Retried", "Reimbursed"} /\ m = n
             \/ /\ redeemRequests[i].status = "Pending"
                /\ y.status \in {"Completed", "Reimbursed", "ReimbursedOwed"}
                /\ m = n - burn_amount(redeemRequests[i])
             \/ /\ redeemRequests[i].status = "ReimbursedOwed" /\ y.status = "Reimbursed"
                /\ m = n + burn_amount(redeemRequests[i])

ReplaceEffect(p, n, m) ==
    /\ m = n
    /\ \/ p = replaceRequests
       \/ \E y \in ReplaceRequest : Added(replaceRequests, p, y) /\ y.status = "Pending"
       \/ \E i \in ReplaceIds : \E y :
             /\ Revised(replaceRequests, p, i, y)
             /\ \/ /\ replaceRequests[i].status = "Pending"
                   /\ y.status \in {"Pending", "Cancelled"}
                \/ /\ replaceRequests[i].status \in {"Pending", "Cancelled"}
                   /\ y.status = "Completed"

LEMMA IssueNextEffect ==
    ASSUME BooksInv, IssueNext
    PROVE  IssueEffect(issueRequests', issued_tokens(registry), issued_tokens(registry'))
<1>0. PICK p, n, m : p = issueRequests' /\ n = issued_tokens(registry) /\ m = issued_tokens(registry')
  OBVIOUS
<1>1. CASE \E a \in Requesters, v \in Vaults, x \in TokenAmounts : request_issue(a, v, x)
  <2>1. m = n /\ \E y \in IssueRequest : Added(issueRequests, p, y) /\ y.status = "Pending"
    BY <1>0, <1>1, RequestIssueBooks
  <2>. QED BY <1>0, <2>1 DEF IssueEffect
<1>2. CASE \E i \in IssueIds, a \in Requesters, x \in TokenAmounts : execute_issue(a, i, x)
  <2>1. PICK i \in IssueIds, a \in Requesters, x \in TokenAmounts : execute_issue(a, i, x)
    BY <1>2
  <2>2. /\ issueRequests[i].status \in {"Pending", "Cancelled"}
        /\ \E total \in Nat :
              /\ m = n + total
              /\ \E y : /\ Revised(issueRequests, p, i, y)
                        /\ y.status = "Completed" /\ y.amount + y.fee = total
    BY <1>0, <2>1, ExecuteIssueKeepsBooks
  <2>. QED BY <1>0, <2>2 DEF IssueEffect
<1>3. CASE \E i \in IssueIds, a \in Requesters : cancel_issue(a, i)
  <2>1. PICK i \in IssueIds, a \in Requesters : cancel_issue(a, i)
    BY <1>3
  <2>2. /\ m = n /\ issueRequests[i].status = "Pending"
        /\ \E y : Revised(issueRequests, p, i, y) /\ y.status = "Cancelled"
    BY <1>0, <2>1, CancelIssueBooks
  <2>. QED BY <1>0, <2>2 DEF IssueEffect
<1>4. CASE \E i \in IssueIds : issue_expires(i)
  <2>1. PICK i \in IssueIds : issue_expires(i)
    BY <1>4
  <2>2. /\ m = n /\ issueRequests[i].status = "Pending"
        /\ \E y : Revised(issueRequests, p, i, y) /\ y.status = "Pending"
    BY <1>0, <2>1, IssueExpiresBooks
  <2>. QED BY <1>0, <2>2 DEF IssueEffect
<1>. QED BY <1>1, <1>2, <1>3, <1>4 DEF IssueNext

LEMMA RedeemNextEffect ==
    ASSUME BooksInv, RedeemNext
    PROVE  RedeemEffect(redeemRequests', issued_tokens(registry), issued_tokens(registry'))
<1>0. PICK p, n, m : p = redeemRequests' /\ n = issued_tokens(registry) /\ m = issued_tokens(registry')
  OBVIOUS
<1>h. RedeemTypeOK' /\ registry' \in Registry /\ TokenAmounts \subseteq Nat
  BY RedeemNextInv, RegistryAssumption DEF BooksInv, RegistryInv, RegistryOK, RegistrySound
<1>1. CASE \E a \in Requesters, v \in Vaults, x \in TokenAmounts, f \in InclusionFees :
              request_redeem(a, v, x, f)
  <2>1. m = n /\ \E y \in RedeemRequest : Added(redeemRequests, p, y) /\ y.status = "Pending"
    BY <1>0, <1>h, <1>1, RequestRedeemBooks
  <2>. QED BY <1>0, <2>1 DEF RedeemEffect
<1>2. CASE \E a \in Requesters, x \in TokenAmounts : liquidation_redeem(a, x)
  <2>1. p = redeemRequests /\ \E x \in TokenAmounts : m = n - x
    BY <1>0, <1>2, LiquidationRedeemBooks
  <2>. QED BY <1>0, <1>h, <2>1 DEF RedeemEffect
<1>3. CASE \E i \in RedeemIds : execute_redeem(i)
  <2>1. PICK i \in RedeemIds : execute_redeem(i)
    BY <1>3
  <2>2. /\ redeemRequests[i].status = "Pending"
        /\ m = n - burn_amount(redeemRequests[i])
        /\ \E y : /\ Revised(redeemRequests, p, i, y) /\ y.status = "Completed"
                  /\ burn_amount(y) = burn_amount(redeemRequests[i])
    BY <1>0, <2>1, ExecuteRedeemKeepsBooks
  <2>. QED BY <1>0, <2>2 DEF RedeemEffect
<1>4. CASE \E i \in RedeemIds, a \in Requesters, b \in BOOLEAN : cancel_redeem(a, i, b)
  <2>1. PICK i \in RedeemIds, a \in Requesters, b \in BOOLEAN : cancel_redeem(a, i, b)
    BY <1>4
  <2>2. /\ redeemRequests[i].status = "Pending"
        /\ \E st, y :
              /\ Revised(redeemRequests, p, i, y) /\ y.status = st
              /\ burn_amount(y) = burn_amount(redeemRequests[i])
              /\ \/ /\ st \in {"Reimbursed", "ReimbursedOwed"}
                    /\ m = n - burn_amount(redeemRequests[i])
                 \/ st \in {"Reimbursed", "Retried"} /\ m = n
    BY <1>0, <1>h, <2>1, CancelRedeemBooks
  <2>. QED BY <1>0, <2>2 DEF RedeemEffect
<1>5. CASE \E i \in RedeemIds, v \in Vaults : mint_tokens_for_reimbursed_redeem(v, i)
  <2>1. PICK i \in RedeemIds, v \in Vaults : mint_tokens_for_reimbursed_redeem(v, i)
    BY <1>5
  <2>2. /\ redeemRequests[i].status = "ReimbursedOwed"
        /\ m = n + burn_amount(redeemRequests[i])
        /\ \E y : /\ Revised(redeemRequests, p, i, y) /\ y.status = "Reimbursed"
                  /\ burn_amount(y) = burn_amount(redeemRequests[i])
    BY <1>0, <2>1, MintReimbursedBooks
  <2>. QED BY <1>0, <2>2 DEF RedeemEffect
<1>6. CASE \E v \in Vaults, x \in TokenAmounts : self_redeem(v, x)
  <2>1. p = redeemRequests /\ \E k \in Nat : m = n - k
    BY <1>0, <1>6, SelfRedeemBooks
  <2>. QED BY <1>0, <2>1 DEF RedeemEffect
<1>7. CASE \E i \in RedeemIds : redeem_expires(i)
  <2>1. PICK i \in RedeemIds : redeem_expires(i)
    BY <1>7
  <2>2. /\ m = n /\ redeemRequests[i].status = "Pending"
        /\ \E y : /\ Revised(redeemRequests, p, i, y) /\ y.status = "Pending"
                  /\ burn_amount(y) = burn_amount(redeemRequests[i])
    BY <1>0, <2>1, RedeemExpiresBooks
  <2>. QED BY <1>0, <2>2 DEF RedeemEffect
<1>. QED BY <1>1, <1>2, <1>3, <1>4, <1>5, <1>6, <1>7 DEF RedeemNext

LEMMA ReplaceNextEffect ==
    ASSUME BooksInv, ReplaceNext
    PROVE  ReplaceEffect(replaceRequests', issued_tokens(registry), issued_tokens(registry'))
<1>0. PICK p, n, m : p = replaceRequests' /\ n = issued_tokens(registry) /\ m = issued_tokens(registry')
  OBVIOUS
<1>1. CASE \E v \in Vaults, x \in TokenAmounts : request_replace(v, x)
  <2>1. m = n /\ p = replaceRequests
    BY <1>0, <1>1, RequestReplaceBooks DEF SameBooks, SameTokens
  <2>. QED BY <1>0, <2>1 DEF ReplaceEffect
<1>2. CASE \E v \in Vaults, x \in TokenAmounts : withdraw_replace(v, x)
  <2>1. m = n /\ p = replaceRequests
    BY <1>0, <1>2, WithdrawReplaceKeepsBooks DEF SameBooks, SameTokens
  <2>. QED BY <1>0, <2>1 DEF ReplaceEffect
<1>3. CASE \E old, new \in Vaults, x \in TokenAmounts, c \in CollateralAmounts :
              accept_replace(old, new, x, c)
  <2>1. m = n /\ \E y \in ReplaceRequest : Added(replaceRequests, p, y) /\ y.status = "Pending"
    BY <1>0, <1>3, AcceptReplaceBooks
  <2>. QED BY <1>0, <2>1 DEF ReplaceEffect
<1>4. CASE \E i \in ReplaceIds : execute_replace(i)
  <2>1. PICK i \in ReplaceIds : execute_replace(i)
    BY <1>4
  <2>2. /\ m = n /\ replaceRequests[i].status \in {"Pending", "Cancelled"}
        /\ \E y : Revised(replaceRequests, p, i, y) /\ y.status = "Completed"
    BY <1>0, <2>1, ExecuteReplaceBooks
  <2>. QED BY <1>0, <2>2 DEF ReplaceEffect
<1>5. CASE \E i \in ReplaceIds : cancel_replace(i)
  <2>1. PICK i \in ReplaceIds : cancel_replace(i)
    BY <1>5
  <2>2. /\ m = n /\ replaceRequests[i].status = "Pending"
        /\ \E y : Revised(replaceRequests, p, i, y) /\ y.status = "Cancelled"
    BY <1>0, <2>1, CancelReplaceBooks
  <2>. QED BY <1>0, <2>2 DEF ReplaceEffect
<1>6. CASE \E i \in ReplaceIds : replace_expires(i)
  <2>1. PICK i \in ReplaceIds : replace_expires(i)
    BY <1>6
  <2>2. /\ m = n /\ replaceRequests[i].status = "Pending"
        /\ \E y : Revised(replaceRequests, p, i, y) /\ y.status = "Pending"
    BY <1>0, <2>1, ReplaceExpiresBooks
  <2>. QED BY <1>0, <2>2 DEF ReplaceEffect
<1>. QED BY <1>1, <1>2, <1>3, <1>4, <1>5, <1>6 DEF ReplaceNext

-----------------------------------------------------------------------------
(* Minting                                                                 *)

(* The tokens in circulation are those that vaults answer for, and at      *)
(* least those that pending redeem requests are to be paid.                *)
LEMMA BackedBooks ==
    ASSUME NEW r \in Registry, NEW t \in Ledger, NEW R \in Seq(RedeemRequest), NEW I, NEW P,
           Books(r, t, I, R, P)
    PROVE  /\ Supply(t) = issued_tokens(r) /\ issued_tokens(r) \in Nat
           /\ RedeemPromises(R) \in Nat /\ RedeemPromises(R) <= issued_tokens(r)
<1>1. Supply(t) = issued_tokens(r) /\ LockTotal(t) = RedeemLockTotal(R)
  BY DEF Books
<1>2. issued_tokens(r) \in Nat
  BY BooksTyped
<1>3. LockTotal(t) \in Nat /\ LockTotal(t) <= Supply(t)
  BY LedgerTyped
<1>4. /\ RedeemPromises(R) \in Nat /\ RedeemLockTotal(R) \in Nat
      /\ RedeemPromises(R) <= RedeemLockTotal(R)
  BY RedeemClaimsTyped
<1>. QED BY <1>1, <1>2, <1>3, <1>4

LEMMA BackedSupply ==
    ASSUME BooksInv
    PROVE  /\ TotalIssuance = issued_tokens(registry)
           /\ issued_tokens(registry) \in Nat
           /\ RedeemPromises(redeemRequests) \in Nat
           /\ RedeemPromises(redeemRequests) <= issued_tokens(registry)
<1>1. BridgeInv /\ Books(registry, tokens, issueRequests, redeemRequests, replaceRequests)
  BY DEF BooksInv
<1>2. registry \in Registry /\ tokens \in Ledger /\ redeemRequests \in Seq(RedeemRequest)
  BY <1>1, StateTyped
<1>. QED BY <1>1, <1>2, BackedBooks DEF TotalIssuance

LEMMA BackedSupplyNext ==
    ASSUME BooksInv'
    PROVE  /\ TotalIssuance' = issued_tokens(registry')
           /\ issued_tokens(registry') \in Nat
           /\ RedeemPromises(redeemRequests') \in Nat
           /\ RedeemPromises(redeemRequests') <= issued_tokens(registry')
<1>1. Books(registry', tokens', issueRequests', redeemRequests', replaceRequests')
  BY DEF BooksInv, Books, Supply, issued_tokens, to_be_issued_tokens, Split
<1>2. /\ registry' \in Registry /\ tokens' \in Ledger
      /\ redeemRequests' \in Seq(RedeemRequest)
  BY DEF BooksInv, BridgeInv, RegistryInv, RegistryOK, RegistrySound, RedeemTypeOK
<1>. QED BY <1>1, <1>2, BackedBooks DEF TotalIssuance

LEMMA BurnTyped ==
    ASSUME BooksInv, NEW i \in RedeemIds
    PROVE  burn_amount(redeemRequests[i]) \in Nat /\ redeemRequests[i] \in RedeemRequest
<1>1. redeemRequests[i] \in RedeemRequest
  BY RedeemTyped DEF BooksInv
<1>. QED BY <1>1 DEF burn_amount, RedeemRequest

LEMMA RevisedCompleted ==
    ASSUME NEW q, NEW p, NEW i, NEW y, Revised(q, p, i, y), NEW st
    PROVE  /\ i \in DOMAIN q /\ p[i] = y
           /\ y.status = st => Completed(p, st) = Completed(q, st) \cup {i}
           /\ y.status # st => Completed(p, st) = Completed(q, st) \ {i}
<1>1. /\ i \in DOMAIN q /\ DOMAIN p = DOMAIN q /\ p[i] = y
      /\ \A j \in DOMAIN q : j # i => p[j] = q[j]
  BY DEF Revised
<1>2. ASSUME y.status = st PROVE Completed(p, st) = Completed(q, st) \cup {i}
  BY <1>1, <1>2 DEF Completed
<1>3. ASSUME y.status # st PROVE Completed(p, st) = Completed(q, st) \ {i}
  BY <1>1, <1>3 DEF Completed
<1>. QED BY <1>1, <1>2, <1>3

(* What explains a growth of the supply from n to m.                       *)
IssueMints(p, n, m) ==
    \E i \in IssueIds :
        /\ Completed(p, "Completed") = Completed(issueRequests, "Completed") \cup {i}
        /\ i \notin Completed(issueRequests, "Completed")
        /\ m - n = p[i].amount + p[i].fee

RedeemMints(p, n, m) ==
    \E i \in RedeemIds :
        /\ Completed(p, "ReimbursedOwed") = Completed(redeemRequests, "ReimbursedOwed") \ {i}
        /\ i \in Completed(redeemRequests, "ReimbursedOwed")
        /\ m - n = burn_amount(redeemRequests[i])

LEMMA IssueMint ==
    ASSUME NEW p, NEW n \in Nat, NEW m, IssueEffect(p, n, m), m > n
    PROVE  IssueMints(p, n, m)
<1>1. m # n
  OBVIOUS
<1>2. PICK i, y :
          /\ i \in IssueIds
          /\ Revised(issueRequests, p, i, y)
          /\ issueRequests[i].status \in {"Pending", "Cancelled"}
          /\ y.status = "Completed"
          /\ y.amount + y.fee \in Nat /\ m = n + (y.amount + y.fee)
  BY <1>1 DEF IssueEffect
<1>3. p[i] = y /\ Completed(p, "Completed") = Completed(issueRequests, "Completed") \cup {i}
  BY <1>2, RevisedCompleted
<1>4. i \notin Completed(issueRequests, "Completed")
  BY <1>2 DEF Completed
<1>5. PICK k : k = y.amount + y.fee
  OBVIOUS
<1>6. m - n = k
  BY <1>2, <1>5
<1>. QED BY <1>2, <1>3, <1>4, <1>5, <1>6 DEF IssueMints

LEMMA RedeemMint ==
    ASSUME BooksInv, NEW p, NEW n \in Nat, NEW m, RedeemEffect(p, n, m), m > n
    PROVE  RedeemMints(p, n, m)
<1>1. m # n /\ \A k \in Nat : m # n - k
  OBVIOUS
<1>2. PICK i, y :
          /\ i \in RedeemIds
          /\ Revised(redeemRequests, p, i, y)
          /\ redeemRequests[i].status = "ReimbursedOwed" /\ y.status = "Reimbursed"
          /\ m = n + burn_amount(redeemRequests[i])
  BY <1>1, BurnTyped DEF RedeemEffect
<1>3. /\ i \in DOMAIN redeemRequests
      /\ Completed(p, "ReimbursedOwed") = Completed(redeemRequests, "ReimbursedOwed") \ {i}
  BY <1>2, RevisedCompleted
<1>4. i \in Completed(redeemRequests, "ReimbursedOwed")
  BY <1>2, <1>3 DEF Completed
<1>5. PICK k : k = burn_amount(redeemRequests[i]) /\ k \in Nat
  BY <1>2, BurnTyped
<1>6. m - n = k
  BY <1>2, <1>5
<1>. QED BY <1>2, <1>3, <1>4, <1>5, <1>6 DEF RedeemMints

LEMMA MintStep ==
    ASSUME BooksInv, [Next]_vars, TotalIssuance' > TotalIssuance
    PROVE  \/ IssueMints(issueRequests', TotalIssuance, TotalIssuance')
           \/ RedeemMints(redeemRequests', TotalIssuance, TotalIssuance')
<1>0. BooksInv'
  BY BooksNext
<1>1. PICK n, m : n = issued_tokens(registry) /\ m = issued_tokens(registry')
  OBVIOUS
<1>2. n \in Nat /\ TotalIssuance = n
  BY <1>1, BackedSupply
<1>3. TotalIssuance' = m
  BY <1>0, <1>1, BackedSupplyNext
<1>4. m > n
  BY <1>2, <1>3
<1>5. CASE RegistryNext /\ UNCHANGED <<tokens, issueRequests, redeemRequests, replaceRequests>>
  <2>1. m = n
    BY <1>1, <1>5, RegistryNextBooks DEF BooksInv, BridgeInv, SameBooks, SameTokens
  <2>. QED BY <1>2, <1>4, <2>1
<1>6. CASE IssueNext /\ UNCHANGED <<redeemRequests, replaceRequests>>
  BY <1>1, <1>2, <1>3, <1>4, <1>6, IssueNextEffect, IssueMint
<1>7. CASE RedeemNext /\ UNCHANGED <<issueRequests, replaceRequests>>
  BY <1>1, <1>2, <1>3, <1>4, <1>7, RedeemNextEffect, RedeemMint
<1>8. CASE ReplaceNext /\ UNCHANGED <<tokens, issueRequests, redeemRequests>>
  <2>1. m = n
    BY <1>1, <1>8, ReplaceNextEffect DEF ReplaceEffect
  <2>. QED BY <1>2, <1>4, <2>1
<1>9. CASE UNCHANGED vars
  <2>1. m = n
    BY <1>1, <1>9 DEF vars
  <2>. QED BY <1>2, <1>4, <2>1
<1>. QED BY <1>5, <1>6, <1>7, <1>8, <1>9 DEF Next

(* Tokens are minted once per payment: supply grows only in a step that    *)
(* completes one issue request that was not completed, by its total        *)
(* (issue: _execute_issue), or that settles one reimbursed redeem request, *)
(* by the tokens burned for it (redeem: _mint_tokens_for_reimbursed_redeem) *)
THEOREM MintsMatch == Spec => MintsMatchRequests
<1>. DEFINE A == TotalIssuance' > TotalIssuance =>
          \/ \E i \in IssueIds :
                /\ Completed(issueRequests', "Completed")
                      = Completed(issueRequests, "Completed") \cup {i}
                /\ i \notin Completed(issueRequests, "Completed")
                /\ TotalIssuance' - TotalIssuance
                      = issueRequests'[i].amount + issueRequests'[i].fee
          \/ \E i \in RedeemIds :
                /\ Completed(redeemRequests', "ReimbursedOwed")
                      = Completed(redeemRequests, "ReimbursedOwed") \ {i}
                /\ i \in Completed(redeemRequests, "ReimbursedOwed")
                /\ TotalIssuance' - TotalIssuance = burn_amount(redeemRequests[i])
<1>1. BooksInv /\ [Next]_vars => A
  BY MintStep DEF IssueMints, RedeemMints
<1>2. BooksInv /\ [Next]_vars => [A]_vars
  BY <1>1
<1>3. [][Next]_vars /\ []BooksInv => [][A]_vars
  BY <1>2, PTL
<1>. QED BY <1>3, BooksInvariant, PTL DEF Spec, MintsMatchRequests

-----------------------------------------------------------------------------
(* What Custody sees of the request queues                                 *)

(* A queue that is seen through a view of each of its requests.            *)
Redemption(x) == [amount |-> burn_amount(x), status |-> x.status]
Redemptions(q) == [i \in DOMAIN q |-> Redemption(q[i])]

LEMMA ViewAppended ==
    ASSUME NEW S, NEW q \in Seq(S), NEW y \in S, NEW p, Added(q, p, y),
           NEW f, DOMAIN f = DOMAIN q, NEW g, DOMAIN g = DOMAIN p,
           g = [i \in DOMAIN g |-> g[i]], f = [i \in DOMAIN f |-> f[i]],
           \A i \in DOMAIN q : p[i] = q[i] => g[i] = f[i],
           NEW e, \A i \in DOMAIN p : p[i] = y => g[i] = e
    PROVE  g = Append(f, e)
<1>1. DOMAIN q = 1 .. Len(q) /\ Len(q) \in Nat
  BY LenProperties
<1>2. PICK n : n = Len(q) /\ n \in Nat
  BY <1>1
<1>3. DOMAIN p = 1 .. n + 1 /\ p[n + 1] = y /\ \A i \in 1 .. n : p[i] = q[i]
  <2>1. /\ p \in Seq(S) /\ Len(p) = Len(q) + 1
        /\ \A i \in 1 .. Len(q) : p[i] = q[i]
        /\ p[Len(q) + 1] = y
    BY AppendProperties DEF Added
  <2>. QED BY <1>2, <2>1, LenProperties
<1>4. PICK T : T = {f[i] : i \in 1 .. n} \cup {e}
  OBVIOUS
<1>5. f \in Seq(T) /\ Len(f) = n
  <2>1. f \in [1 .. n -> T]
    BY <1>1, <1>2, <1>4
  <2>2. f \in Seq(T)
    BY <1>2, <2>1, SeqDef
  <2>. QED BY <1>1, <1>2, <2>2, LenProperties
<1>6. PICK h : h = Append(f, e)
  OBVIOUS
<1>7. /\ h \in Seq(T) /\ Len(h) = n + 1
      /\ \A i \in 1 .. n : h[i] = f[i]
      /\ h[n + 1] = e
  BY <1>4, <1>5, <1>6, AppendProperties
<1>8. h \in [1 .. n + 1 -> T]
  BY <1>7, LenProperties
<1>9. \A i \in 1 .. n + 1 : g[i] = h[i]
  BY <1>1, <1>2, <1>3, <1>7
<1>10. g \in [1 .. n + 1 -> T]
  BY <1>3, <1>8, <1>9
<1>. QED BY <1>6, <1>8, <1>9, <1>10

LEMMA StatusAdded ==
    ASSUME NEW S, NEW q \in Seq(S), NEW y \in S, NEW p, Added(q, p, y)
    PROVE  Statuses(p) = Append(Statuses(q), y.status)
<1>1. PICK f, g : f = Statuses(q) /\ g = Statuses(p)
  OBVIOUS
<1>2. /\ DOMAIN f = DOMAIN q /\ DOMAIN g = DOMAIN p
      /\ g = [i \in DOMAIN g |-> g[i]] /\ f = [i \in DOMAIN f |-> f[i]]
  BY <1>1 DEF Statuses
<1>3. DOMAIN q \subseteq DOMAIN p
  <2>1. p \in Seq(S) /\ Len(p) = Len(q) + 1
    BY AppendProperties DEF Added
  <2>. QED BY <2>1, LenProperties
<1>4. \A i \in DOMAIN q : p[i] = q[i] => g[i] = f[i]
  BY <1>1, <1>3 DEF Statuses
<1>5. PICK e : e = y.status
  OBVIOUS
<1>6. \A i \in DOMAIN p : p[i] = y => g[i] = e
  BY <1>1, <1>5 DEF Statuses
<1>7. g = Append(f, e)
  BY <1>2, <1>4, <1>6, ViewAppended
<1>. QED BY <1>1, <1>5, <1>7

LEMMA RedemptionAdded ==
    ASSUME NEW S, NEW q \in Seq(S), NEW y \in S, NEW p, Added(q, p, y)
    PROVE  Redemptions(p) = Append(Redemptions(q), Redemption(y))
<1>1. PICK f, g : f = Redemptions(q) /\ g = Redemptions(p)
  OBVIOUS
<1>2. /\ DOMAIN f = DOMAIN q /\ DOMAIN g = DOMAIN p
      /\ g = [i \in DOMAIN g |-> g[i]] /\ f = [i \in DOMAIN f |-> f[i]]
  BY <1>1 DEF Redemptions
<1>3. DOMAIN q \subseteq DOMAIN p
  <2>1. p \in Seq(S) /\ Len(p) = Len(q) + 1
    BY AppendProperties DEF Added
  <2>. QED BY <2>1, LenProperties
<1>4. \A i \in DOMAIN q : p[i] = q[i] => g[i] = f[i]
  BY <1>1, <1>3 DEF Redemptions
<1>5. PICK e : e = Redemption(y)
  OBVIOUS
<1>6. \A i \in DOMAIN p : p[i] = y => g[i] = e
  BY <1>1, <1>5 DEF Redemptions
<1>7. g = Append(f, e)
  BY <1>2, <1>4, <1>6, ViewAppended
<1>. QED BY <1>1, <1>5, <1>7

LEMMA StatusRevised ==
    ASSUME NEW q, NEW i, NEW y, NEW p, Revised(q, p, i, y)
    PROVE  /\ i \in DOMAIN Statuses(q) /\ Statuses(q)[i] = q[i].status
           /\ Statuses(p) = [Statuses(q) EXCEPT ![i] = y.status]
           /\ q[i].status = y.status => Statuses(p) = Statuses(q)
<1>1. /\ i \in DOMAIN q /\ DOMAIN p = DOMAIN q /\ p[i] = y
      /\ \A j \in DOMAIN q : j # i => p[j] = q[j]
  BY DEF Revised
<1>. QED BY <1>1 DEF Statuses

LEMMA RedemptionRevised ==
    ASSUME NEW q, NEW i, NEW y, NEW p, Revised(q, p, i, y), burn_amount(y) = burn_amount(q[i])
    PROVE  /\ i \in DOMAIN Redemptions(q) /\ Redemptions(q)[i].status = q[i].status
           /\ Redemptions(q)[i].amount = burn_amount(q[i])
           /\ Redemptions(p) = [Redemptions(q) EXCEPT ![i].status = y.status]
           /\ q[i].status = y.status => Redemptions(p) = Redemptions(q)
<1>1. /\ i \in DOMAIN q /\ DOMAIN p = DOMAIN q /\ p[i] = y
      /\ \A j \in DOMAIN q : j # i => p[j] = q[j]
  BY DEF Revised
<1>2. /\ i \in DOMAIN Redemptions(q) /\ Redemptions(q)[i] = Redemption(q[i])
      /\ Redemptions(p)[i] = Redemption(y)
      /\ \A j \in DOMAIN q : j # i => Redemptions(p)[j] = Redemptions(q)[j]
      /\ DOMAIN Redemptions(p) = DOMAIN q /\ DOMAIN Redemptions(q) = DOMAIN q
      /\ Redemptions(q) = [j \in DOMAIN q |-> Redemptions(q)[j]]
      /\ Redemptions(p) = [j \in DOMAIN q |-> Redemptions(p)[j]]
  BY <1>1 DEF Redemptions
<1>3. /\ Redemption(q[i]).status = q[i].status /\ Redemption(q[i]).amount = burn_amount(q[i])
      /\ Redemption(y) = [Redemption(q[i]) EXCEPT !.status = y.status]
      /\ q[i].status = y.status => Redemption(y) = Redemption(q[i])
  BY DEF Redemption
<1>4. Redemptions(p) = [Redemptions(q) EXCEPT ![i].status = y.status]
  <2>1. PICK f, g, x, z, s : /\ f = Redemptions(q) /\ g = Redemptions(p) /\ s = y.status
                             /\ x = Redemption(q[i]) /\ z = Redemption(y)
    OBVIOUS
  <2>2. z = [x EXCEPT !.status = s]
    BY <1>3, <2>1
  <2>3. /\ i \in DOMAIN f /\ f[i] = x /\ g[i] = z /\ DOMAIN f = DOMAIN q
        /\ f = [j \in DOMAIN q |-> f[j]] /\ g = [j \in DOMAIN q |-> g[j]]
        /\ \A j \in DOMAIN q : j # i => g[j] = f[j]
    BY <1>2, <2>1
  <2>4. g = [f EXCEPT ![i] = z]
    BY <2>3
  <2>5. g = [f EXCEPT ![i].status = s]
    BY <2>2, <2>3, <2>4
  <2>. QED BY <2>1, <2>5
<1>. QED BY <1>1, <1>2, <1>3, <1>4

LEMMA PromisedAmount == C!Promised = RedeemPromises(redeemRequests)
<1>1. PICK f, g, P : /\ f = [i \in DOMAIN redeemRequests |-> Redemptions(redeemRequests)[i].amount]
                     /\ g = burn_amounts(redeemRequests)
                     /\ P = Pending(redeemRequests)
  OBVIOUS
<1>2. P \subseteq DOMAIN redeemRequests
  BY <1>1 DEF Pending
<1>3. \A i \in P : f[i] = g[i]
  BY <1>1, <1>2 DEF burn_amounts, Redemptions, Redemption
<1>4. Total(f, P) = Total(g, P)
  BY <1>3, TotalEqual
<1>5. C!Promised = Total(f, P)
  <2>1. \A h, S : C!Total(h, S) = Total(h, S)
    BY DEF C!Total, Total, C!Units, Units, C!Cardinality, Cardinality
  <2>2. C!Promised = C!Total(f, P)
    BY <1>1 DEF C!Promised, Redemptions, Redemption, RedeemIds, Pending
  <2>. QED BY <2>1, <2>2
<1>. QED BY <1>1, <1>4, <1>5 DEF RedeemPromises

-----------------------------------------------------------------------------
(* The steps of Custody                                                    *)

LEMMA IssueImplements ==
    ASSUME BooksInv, BooksInv', IssueNext, UNCHANGED <<redeemRequests, replaceRequests>>
    PROVE  C!Next \/ UNCHANGED C!vars
<1>1. PICK p, n, m : p = issueRequests' /\ n = issued_tokens(registry) /\ m = issued_tokens(registry')
  OBVIOUS
<1>2. IssueEffect(p, n, m)
  BY <1>1, IssueNextEffect
<1>3. TotalIssuance = n /\ n \in Nat
  BY <1>1, BackedSupply
<1>4. TotalIssuance' = m
  BY <1>1, BackedSupplyNext
<1>5. issueRequests \in Seq(IssueRequest)
  BY StateTyped DEF BooksInv
<1>6. CASE \E y \in IssueRequest : Added(issueRequests, p, y) /\ y.status = "Pending" /\ m = n
  <2>1. Statuses(p) = Append(Statuses(issueRequests), "Pending") /\ m = n
    BY <1>5, <1>6, StatusAdded
  <2>2. C!RequestIssue
    BY <1>1, <1>3, <1>4, <2>1 DEF C!RequestIssue, C!Hold
  <2>. QED BY <2>2 DEF C!Next, RedeemIds
<1>7. CASE \E i \in IssueIds : \E y :
              /\ Revised(issueRequests, p, i, y)
              /\ issueRequests[i].status = "Pending"
              /\ y.status \in {"Pending", "Cancelled"} /\ m = n
  <2>1. PICK i, y : /\ i \in IssueIds
                    /\ Revised(issueRequests, p, i, y)
                    /\ issueRequests[i].status = "Pending"
                    /\ y.status \in {"Pending", "Cancelled"} /\ m = n
    BY <1>7
  <2>2. /\ i \in DOMAIN Statuses(issueRequests) /\ Statuses(issueRequests)[i] = "Pending"
        /\ Statuses(p) = [Statuses(issueRequests) EXCEPT ![i] = y.status]
        /\ y.status = "Pending" => Statuses(p) = Statuses(issueRequests)
    BY <2>1, StatusRevised
  <2>3. CASE y.status = "Pending"
    BY <1>1, <1>3, <1>4, <2>1, <2>2, <2>3 DEF C!vars, RedeemIds
  <2>4. CASE y.status = "Cancelled"
    <3>1. C!CancelIssue(i)
      BY <1>1, <1>3, <1>4, <2>1, <2>2, <2>4 DEF C!CancelIssue, C!Hold
    <3>. QED BY <2>2, <3>1 DEF C!Next, RedeemIds
  <2>. QED BY <2>1, <2>3, <2>4
<1>8. CASE \E i \in IssueIds : \E y :
              /\ Revised(issueRequests, p, i, y)
              /\ issueRequests[i].status \in {"Pending", "Cancelled"}
              /\ y.status = "Completed"
              /\ y.amount + y.fee \in Nat /\ m = n + (y.amount + y.fee)
  <2>1. PICK i, y : /\ i \in IssueIds
                    /\ Revised(issueRequests, p, i, y)
                    /\ issueRequests[i].status \in {"Pending", "Cancelled"}
                    /\ y.status = "Completed"
                    /\ y.amount + y.fee \in Nat /\ m = n + (y.amount + y.fee)
    BY <1>8
  <2>2. /\ i \in DOMAIN Statuses(issueRequests)
        /\ Statuses(issueRequests)[i] \in {"Pending", "Cancelled"}
        /\ Statuses(p) = [Statuses(issueRequests) EXCEPT ![i] = "Completed"]
    BY <2>1, StatusRevised
  <2>3. m \in Nat /\ m >= n /\ n + (m - n) = m
    BY <1>3, <2>1
  <2>4. C!ExecuteIssue(i)
    BY <1>1, <1>3, <1>4, <2>2, <2>3 DEF C!ExecuteIssue, C!Mint
  <2>. QED BY <2>2, <2>4 DEF C!Next, RedeemIds
<1>. QED BY <1>2, <1>6, <1>7, <1>8 DEF IssueEffect

LEMMA ReplaceImplements ==
    ASSUME BooksInv, BooksInv', ReplaceNext, UNCHANGED <<tokens, issueRequests, redeemRequests>>
    PROVE  C!Next \/ UNCHANGED C!vars
<1>1. PICK p : p = replaceRequests'
  OBVIOUS
<1>2. ReplaceEffect(p, issued_tokens(registry), issued_tokens(registry'))
  BY <1>1, ReplaceNextEffect
<1>3. issued_tokens(registry') = issued_tokens(registry) /\ TotalIssuance' = TotalIssuance
  BY <1>2 DEF ReplaceEffect, TotalIssuance
<1>4. replaceRequests \in Seq(ReplaceRequest)
  BY StateTyped DEF BooksInv
<1>5. CASE p = replaceRequests
  BY <1>1, <1>3, <1>5 DEF C!vars, RedeemIds
<1>6. CASE \E y \in ReplaceRequest : Added(replaceRequests, p, y) /\ y.status = "Pending"
  <2>1. Statuses(p) = Append(Statuses(replaceRequests), "Pending")
    BY <1>4, <1>6, StatusAdded
  <2>2. C!AcceptReplace
    BY <1>1, <1>3, <2>1 DEF C!AcceptReplace, C!Hold
  <2>. QED BY <2>2 DEF C!Next, RedeemIds
<1>7. CASE \E i \in ReplaceIds : \E y :
             /\ Revised(replaceRequests, p, i, y)
             /\ \/ /\ replaceRequests[i].status = "Pending"
                   /\ y.status \in {"Pending", "Cancelled"}
                \/ /\ replaceRequests[i].status \in {"Pending", "Cancelled"}
                   /\ y.status = "Completed"
  <2>1. PICK i, y :
             /\ i \in ReplaceIds
             /\ Revised(replaceRequests, p, i, y)
             /\ \/ /\ replaceRequests[i].status = "Pending"
                   /\ y.status \in {"Pending", "Cancelled"}
                \/ /\ replaceRequests[i].status \in {"Pending", "Cancelled"}
                   /\ y.status = "Completed"
    BY <1>7
  <2>2. PICK a, b : a = replaceRequests[i].status /\ b = y.status
    OBVIOUS
  <2>3. /\ i \in DOMAIN Statuses(replaceRequests) /\ Statuses(replaceRequests)[i] = a
        /\ Statuses(p) = [Statuses(replaceRequests) EXCEPT ![i] = b]
        /\ a = b => Statuses(p) = Statuses(replaceRequests)
    BY <2>1, <2>2, StatusRevised
  <2>4. CASE a = b
    BY <1>1, <1>3, <2>3, <2>4 DEF C!vars, RedeemIds
  <2>5. CASE a # b
    <3>1. \/ a = "Pending" /\ b = "Cancelled"
          \/ a \in {"Pending", "Cancelled"} /\ b = "Completed"
      BY <2>1, <2>2, <2>5
    <3>2. C!EndReplace(i)
      BY <1>1, <1>3, <2>3, <3>1 DEF C!EndReplace, C!Hold
    <3>. QED BY <2>3, <3>2 DEF C!Next, RedeemIds
  <2>. QED BY <2>4, <2>5
<1>. QED BY <1>2, <1>5, <1>6, <1>7 DEF ReplaceEffect

LEMMA RedeemImplements ==
    ASSUME BooksInv, BooksInv', RedeemNext, UNCHANGED <<issueRequests, replaceRequests>>
    PROVE  C!Next \/ UNCHANGED C!vars
<1>1. PICK q, p, n, m : /\ q = redeemRequests /\ p = redeemRequests'
                        /\ n = issued_tokens(registry) /\ m = issued_tokens(registry')
  OBVIOUS
<1>2. RedeemEffect(p, n, m)
  BY <1>1, RedeemNextEffect
<1>3. /\ TotalIssuance = n /\ n \in Nat /\ C!Promised = RedeemPromises(q)
      /\ RedeemPromises(q) \in Nat /\ RedeemPromises(q) <= n
  BY <1>1, BackedSupply, PromisedAmount
<1>4. /\ TotalIssuance' = m /\ m \in Nat
      /\ RedeemPromises(p) \in Nat /\ RedeemPromises(p) <= m
  BY <1>1, BackedSupplyNext
<1>5. q \in Seq(RedeemRequest)
  BY <1>1, StateTyped DEF BooksInv
<1>6. CASE \E y \in RedeemRequest : Added(q, p, y) /\ y.status = "Pending" /\ m = n
  <2>1. PICK y \in RedeemRequest : Added(q, p, y) /\ y.status = "Pending" /\ m = n
    BY <1>6
  <2>2. PICK k : k = burn_amount(y) /\ k \in Nat
    BY DEF burn_amount, RedeemRequest
  <2>3. Redemptions(p) = Append(Redemptions(q), [amount |-> k, status |-> "Pending"])
    BY <1>5, <2>1, <2>2, RedemptionAdded DEF Redemption
  <2>4. RedeemPromises(p) = RedeemPromises(q) + k
    <3>1. p \in Seq(RedeemRequest) /\ \E j : Opens(q, p, j) /\ p[j] = y
      BY <1>5, <2>1, RequestAddedOpens
    <3>. QED BY <1>5, <2>2, <3>1, RedeemOpened
  <2>5. k \in 0 .. n - C!Promised
    BY <1>3, <1>4, <2>1, <2>2, <2>4
  <2>6. C!RequestRedeem
    BY <1>1, <1>3, <1>4, <2>1, <2>3, <2>5
       DEF C!RequestRedeem, C!Hold, Redemptions, Redemption, RedeemIds
  <2>. QED BY <2>6 DEF C!Next
<1>7. CASE p = q /\ \E k \in Nat : m = n - k
  <2>1. m <= n /\ n - m \in Nat /\ n - m <= n /\ n - (n - m) = m
    BY <1>3, <1>4, <1>7
  <2>2. C!Promised <= m
    BY <1>3, <1>4, <1>7
  <2>3. C!BurnFree
    BY <1>1, <1>3, <1>4, <2>1, <2>2 DEF C!BurnFree, C!Burn
  <2>. QED BY <1>1, <1>7, <2>3 DEF C!Next, RedeemIds
<1>8. ASSUME NEW i \in RedeemIds, NEW y, Revised(q, p, i, y),
             burn_amount(y) = burn_amount(q[i]),
             \/ /\ q[i].status = "Pending"
                /\ y.status \in {"Pending", "Retried", "Reimbursed"} /\ m = n
             \/ /\ q[i].status = "Pending"
                /\ y.status \in {"Completed", "Reimbursed", "ReimbursedOwed"}
                /\ m = n - burn_amount(q[i])
             \/ /\ q[i].status = "ReimbursedOwed" /\ y.status = "Reimbursed"
                /\ m = n + burn_amount(q[i])
      PROVE  C!Next \/ UNCHANGED C!vars
  <2>1. PICK f, g, a, b, k : /\ f = Redemptions(q) /\ g = Redemptions(p)
                             /\ a = q[i].status /\ b = y.status /\ k = burn_amount(q[i])
    OBVIOUS
  <2>2. /\ i \in DOMAIN f /\ f[i].status = a /\ f[i].amount = k
        /\ g = [f EXCEPT ![i].status = b] /\ (a = b => g = f)
    BY <1>8, <2>1, RedemptionRevised
  <2>3. k \in Nat
    BY <1>1, <2>1, BurnTyped
  <2>4. /\ f = [j \in RedeemIds |-> [amount |-> burn_amount(redeemRequests[j]),
                                     status |-> redeemRequests[j].status]]
        /\ g = [j \in RedeemIds |-> [amount |-> burn_amount(redeemRequests[j]),
                                     status |-> redeemRequests[j].status]]'
    BY <1>1, <2>1 DEF Redemptions, Redemption, RedeemIds
  <2>5. CASE a = "Pending" /\ b = "Pending" /\ m = n
    BY <1>1, <1>3, <1>4, <2>2, <2>4, <2>5 DEF C!vars
  <2>6. CASE a = "Pending" /\ b \in {"Retried", "Reimbursed"} /\ m = n
    <3>1. C!CancelRedeem(i)
      BY <1>1, <1>3, <1>4, <2>2, <2>4, <2>6 DEF C!CancelRedeem, C!SettleRedeem, C!Hold
    <3>. QED BY <2>2, <2>4, <3>1 DEF C!Next
  <2>7. CASE a = "Pending" /\ b \in {"Completed", "Reimbursed", "ReimbursedOwed"} /\ m = n - k
    <3>1. k <= n
      BY <1>3, <1>4, <2>3, <2>7
    <3>2. C!Burn(f[i].amount)
      BY <1>1, <1>3, <1>4, <2>2, <2>7, <3>1 DEF C!Burn
    <3>3. C!SettleRedeem(i, b)
      BY <2>2, <2>4, <2>7 DEF C!SettleRedeem
    <3>4. C!ExecuteRedeem(i) \/ C!ReimburseRedeem(i)
      BY <2>4, <2>7, <3>2, <3>3 DEF C!ExecuteRedeem, C!ReimburseRedeem
    <3>. QED BY <2>2, <2>4, <3>4 DEF C!Next
  <2>8. CASE a = "ReimbursedOwed" /\ b = "Reimbursed" /\ m = n + k
    <3>1. C!MintReimbursed(i)
      BY <1>1, <1>3, <1>4, <2>2, <2>4, <2>8 DEF C!MintReimbursed, C!Mint
    <3>. QED BY <2>2, <2>4, <3>1 DEF C!Next
  <2>. QED BY <1>8, <2>1, <2>5, <2>6, <2>7, <2>8
<1>. QED BY <1>1, <1>2, <1>6, <1>7, <1>8 DEF RedeemEffect

LEMMA InitImplements == Init => C!Init
<1>. SUFFICES ASSUME Init PROVE C!Init
  OBVIOUS
<1>1. registry = NewRegistry /\ issueRequests = << >> /\ redeemRequests = << >>
      /\ replaceRequests = << >>
  BY DEF Init, RegistryInit, IssueInit, RedeemInit, ReplaceInit, NewRegistry
<1>2. TotalIssuance = issued_tokens(registry)
  BY BooksInit, BackedSupply
<1>3. issued_tokens(registry) = 0
  BY <1>1, NewRegistryBooks
<1>. QED BY <1>1, <1>2, <1>3 DEF C!Init, Statuses, RedeemIds

LEMMA StepImplements == BooksInv /\ [Next]_vars => [C!Next]_(C!vars)
<1>. SUFFICES ASSUME BooksInv, [Next]_vars PROVE C!Next \/ UNCHANGED C!vars
  OBVIOUS
<1>0. BooksInv'
  BY BooksNext
<1>1. CASE RegistryNext /\ UNCHANGED <<tokens, issueRequests, redeemRequests, replaceRequests>>
  <2>1. issued_tokens(registry') = issued_tokens(registry)
    BY <1>1, RegistryNextBooks DEF BooksInv, BridgeInv, SameBooks, SameTokens
  <2>2. TotalIssuance' = TotalIssuance
    BY <1>1 DEF TotalIssuance
  <2>. QED BY <1>1, <2>1, <2>2 DEF C!vars, RedeemIds
<1>2. CASE IssueNext /\ UNCHANGED <<redeemRequests, replaceRequests>>
  BY <1>0, <1>2, IssueImplements
<1>3. CASE RedeemNext /\ UNCHANGED <<issueRequests, replaceRequests>>
  BY <1>0, <1>3, RedeemImplements
<1>4. CASE ReplaceNext /\ UNCHANGED <<tokens, issueRequests, redeemRequests>>
  BY <1>0, <1>4, ReplaceImplements
<1>5. CASE UNCHANGED vars
  BY <1>5 DEF vars, C!vars, TotalIssuance, RedeemIds
<1>. QED BY <1>1, <1>2, <1>3, <1>4, <1>5 DEF Next

(* The bridge implements Custody: with the vaults and the liquidation      *)
(* vault as one custodian, every extrinsic of the issue, redeem, replace   *)
(* and vault-registry pallets starts a request, moves one on, burns tokens *)
(* that are not promised to a redeemer, or is not seen at all; no request  *)
(* is paid twice and no pending redeem is given up.                        *)
THEOREM BridgeImplementsCustody == Spec => ImplementsCustody
<1>1. [][Next]_vars /\ []BooksInv => [][C!Next]_(C!vars)
  BY StepImplements, PTL
<1>. QED BY <1>1, InitImplements, BooksInvariant, PTL DEF Spec, ImplementsCustody, C!Spec
=============================================================================
