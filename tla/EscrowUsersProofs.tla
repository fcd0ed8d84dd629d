-------------------------- MODULE EscrowUsersProofs --------------------------
(***************************************************************************)
(* Democracy and collator selection on the votes of the escrow pallet:     *)
(* what they promise holds for any number of accounts, proposals and       *)
(* blocks.                                                                 *)
(***************************************************************************)
EXTENDS EscrowUsers, EscrowTheorems, SequenceTheorems

-----------------------------------------------------------------------------
(* The threshold of a referendum                                           *)

(* Division with a remainder.                                              *)
LEMMA Division ==
    ASSUME NEW x \in Nat, NEW y \in Nat \ {0}
    PROVE  /\ x \div y \in Nat /\ x % y \in Nat /\ x % y < y
           /\ x = (x \div y) * y + (x % y)
BY SMT

LEMMA ProductMonotone ==
    ASSUME NEW x \in Nat, NEW y \in Nat, NEW z \in Nat, x <= y
    PROVE  x * z <= y * z /\ x * z \in Nat /\ y * z \in Nat
BY SMT

LEMMA ProductStrict ==
    ASSUME NEW x \in Nat, NEW y \in Nat, NEW z \in Nat \ {0}, x < y
    PROVE  x * z < y * z
<1>1. (x + 1) * z <= y * z
  BY ProductMonotone
<1>2. (x + 1) * z = x * z + z /\ x * z \in Nat /\ y * z \in Nat
  BY SMT
<1>. QED BY <1>1, <1>2

(* Comparing quotients settles it when they differ, and remainders when    *)
(* they do not.                                                            *)
LEMMA CompareQuotients ==
    ASSUME NEW d1 \in Nat \ {0}, NEW d2 \in Nat \ {0}, NEW q1 \in Nat, NEW q2 \in Nat,
           NEW r1 \in Nat, NEW r2 \in Nat, r1 < d1, r2 < d2, q1 < q2
    PROVE  (q1 * d1 + r1) * d2 < (q2 * d2 + r2) * d1
<1>1. q1 * d1 + r1 < (q1 + 1) * d1
  BY SMT
<1>2. (q1 + 1) * d1 <= q2 * d1
  BY ProductMonotone
<1>3. q1 * d1 \in Nat /\ q2 * d1 \in Nat /\ q2 * d2 \in Nat /\ (q1 + 1) * d1 \in Nat
  BY SMT
<1>4. q1 * d1 + r1 < q2 * d1
  BY <1>1, <1>2, <1>3
<1>5. (q1 * d1 + r1) * d2 < (q2 * d1) * d2
  BY <1>3, <1>4, ProductStrict
<1>6. (q2 * d1) * d2 = (q2 * d2) * d1
  BY SMT
<1>7. (q2 * d2) * d1 <= (q2 * d2 + r2) * d1
  BY <1>3, ProductMonotone
<1>8. /\ (q1 * d1 + r1) * d2 \in Nat /\ (q2 * d2) * d1 \in Nat
      /\ (q2 * d2 + r2) * d1 \in Nat
  BY <1>3
<1>. QED BY <1>5, <1>6, <1>7, <1>8

LEMMA CompareRemainders ==
    ASSUME NEW d1 \in Nat \ {0}, NEW d2 \in Nat \ {0}, NEW q \in Nat,
           NEW r1 \in Nat, NEW r2 \in Nat
    PROVE  (q * d1 + r1) * d2 < (q * d2 + r2) * d1 <=> d2 * r1 < d1 * r2
<1>1. (q * d1 + r1) * d2 = q * d1 * d2 + r1 * d2
  BY SMT
<1>2. (q * d2 + r2) * d1 = q * d1 * d2 + r2 * d1
  BY SMT
<1>3. /\ q * d1 * d2 \in Nat /\ r1 * d2 \in Nat /\ r2 * d1 \in Nat
      /\ r1 * d2 = d2 * r1 /\ r2 * d1 = d1 * r2
  BY SMT
<1>. QED BY <1>1, <1>2, <1>3

Rationals == Nat \X (Nat \ {0}) \X Nat \X (Nat \ {0})

Smaller(q) == q[1] * q[4] < q[3] * q[2]

(* One step of the continued fractions, with f for the rest of them.       *)
Fractions(f, q) ==
    LET q1 == q[1] \div q[2]  r1 == q[1] % q[2]
        q2 == q[3] \div q[4]  r2 == q[3] % q[4]
    IN  IF q1 # q2 THEN q1 < q2
        ELSE r2 # 0 /\ (r1 = 0 \/ f[<<q[4], r2, q[2], r1>>])

(* If f compares the rest, one step more compares the whole.               *)
LEMMA FractionsStep ==
    ASSUME NEW q \in Rationals, NEW f,
           (q[1] % q[2] # 0 /\ q[3] % q[4] # 0) =>
               LET rest == <<q[4], q[3] % q[4], q[2], q[1] % q[2]>> IN f[rest] = Smaller(rest)
    PROVE  Fractions(f, q) = Smaller(q)
<1>1. PICK n1 \in Nat, d1 \in Nat \ {0}, n2 \in Nat, d2 \in Nat \ {0} : q = <<n1, d1, n2, d2>>
  BY DEF Rationals
<1>2. PICK q1, r1, q2, r2 : q1 = n1 \div d1 /\ r1 = n1 % d1 /\ q2 = n2 \div d2 /\ r2 = n2 % d2
  OBVIOUS
<1>3. /\ q1 \in Nat /\ r1 \in Nat /\ r1 < d1 /\ n1 = q1 * d1 + r1
      /\ q2 \in Nat /\ r2 \in Nat /\ r2 < d2 /\ n2 = q2 * d2 + r2
  BY <1>2, Division
<1>4. Smaller(q) = (n1 * d2 < n2 * d1)
  BY <1>1 DEF Smaller
<1>5. Fractions(f, q) = IF q1 # q2 THEN q1 < q2
                        ELSE r2 # 0 /\ (r1 = 0 \/ f[<<d2, r2, d1, r1>>])
  BY <1>1, <1>2 DEF Fractions
<1>6. r1 # 0 /\ r2 # 0 => f[<<d2, r2, d1, r1>>] = (d2 * r1 < d1 * r2)
  BY <1>1, <1>2 DEF Smaller
<1>7. CASE q1 < q2
  <2>1. n1 * d2 < n2 * d1
    BY <1>3, <1>7, CompareQuotients, Zenon
  <2>. QED BY <1>3, <1>4, <1>5, <1>7, <2>1
<1>8. CASE q2 < q1
  <2>1. n2 * d1 < n1 * d2
    BY <1>3, <1>8, CompareQuotients, Zenon
  <2>2. n2 * d1 \in Nat /\ n1 * d2 \in Nat
    OBVIOUS
  <2>. QED BY <1>3, <1>4, <1>5, <1>8, <2>1, <2>2
<1>9. CASE q1 = q2
  <2>1. n1 * d2 < n2 * d1 <=> d2 * r1 < d1 * r2
    BY <1>3, <1>9, CompareRemainders, Zenon
  <2>2. d2 * r1 \in Nat /\ d1 * r2 \in Nat
        /\ (r2 = 0 => d1 * r2 = 0) /\ (r1 = 0 => d2 * r1 = 0) /\ (r2 # 0 => d1 * r2 > 0)
    BY <1>3, SMT
  <2>3. CASE r2 = 0
    BY <1>4, <1>5, <1>9, <2>1, <2>2, <2>3
  <2>4. CASE r2 # 0 /\ r1 = 0
    BY <1>4, <1>5, <1>9, <2>1, <2>2, <2>4
  <2>5. CASE r2 # 0 /\ r1 # 0
    <3>1. CASE d2 * r1 < d1 * r2
      <4>1. f[<<d2, r2, d1, r1>>] = TRUE
        BY <1>6, <2>5, <3>1
      <4>2. Fractions(f, q) = TRUE
        BY <1>5, <1>9, <2>5, <4>1
      <4>. QED BY <1>4, <2>1, <3>1, <4>2
    <3>2. CASE ~(d2 * r1 < d1 * r2)
      <4>0. (d2 * r1 < d1 * r2) = FALSE /\ (n1 * d2 < n2 * d1) = FALSE
        BY <2>1, <3>2
      <4>1. f[<<d2, r2, d1, r1>>] = FALSE
        BY <1>6, <2>5, <4>0, Zenon
      <4>2. Fractions(f, q) = FALSE
        BY <1>5, <1>9, <2>5, <4>1
      <4>. QED BY <1>4, <4>0, <4>2, Zenon
    <3>. QED BY <3>1, <3>2
  <2>. QED BY <2>3, <2>4, <2>5
<1>. QED BY <1>3, <1>7, <1>8, <1>9

(* A comparison of fractions is a function that such steps define, and it  *)
(* is the one that compares them: by induction on the denominators, which  *)
(* a step makes smaller.                                                   *)
LEMMA FractionsUnique ==
    ASSUME NEW f, \A q \in Rationals : f[q] = Fractions(f, q)
    PROVE  \A q \in Rationals : f[q] = Smaller(q)
<1>. DEFINE S == {n \in Nat : \A q \in Rationals : q[2] + q[4] <= n => f[q] = Smaller(q)}
<1>1. 0 \in S
  <2>1. ASSUME NEW q \in Rationals PROVE ~(q[2] + q[4] <= 0)
    BY DEF Rationals
  <2>. QED BY <2>1
<1>2. ASSUME NEW n \in Nat, n \in S PROVE n + 1 \in S
  <2>1. SUFFICES ASSUME NEW q \in Rationals, q[2] + q[4] <= n + 1
                 PROVE  f[q] = Smaller(q)
    OBVIOUS
  <2>2. /\ q[1] \in Nat /\ q[2] \in Nat \ {0} /\ q[3] \in Nat /\ q[4] \in Nat \ {0}
    BY DEF Rationals
  <2>3. PICK r1, r2 : r1 = q[1] % q[2] /\ r2 = q[3] % q[4]
    OBVIOUS
  <2>4. r1 \in Nat /\ r1 < q[2] /\ r2 \in Nat /\ r2 < q[4]
    BY <2>2, <2>3, Division
  <2>5. ASSUME r1 # 0, r2 # 0
        PROVE  f[<<q[4], r2, q[2], r1>>] = Smaller(<<q[4], r2, q[2], r1>>)
    <3>1. PICK p : p = <<q[4], r2, q[2], r1>>
      OBVIOUS
    <3>2. p \in Rationals /\ p[2] = r2 /\ p[4] = r1
      BY <2>2, <2>4, <2>5, <3>1 DEF Rationals
    <3>3. p[2] + p[4] <= n
      BY <2>1, <2>2, <2>4, <3>2
    <3>. QED BY <1>2, <3>1, <3>2, <3>3
  <2>6. Fractions(f, q) = Smaller(q)
    BY <2>3, <2>5, FractionsStep, Zenon
  <2>. QED BY <2>6
<1>. HIDE DEF S
<1>3. Nat \subseteq S
  BY <1>1, <1>2, NatSetInduction
<1>4. ASSUME NEW q \in Rationals PROVE f[q] = Smaller(q)
  <2>1. q[2] + q[4] \in Nat /\ q[2] + q[4] <= q[2] + q[4]
    BY DEF Rationals
  <2>. QED BY <1>3, <2>1 DEF S
<1>. QED BY <1>4

(* The comparison by continued fractions (sp_arithmetic, as vote_threshold *)
(* uses it) is that of the cross products, for all fractions.              *)
LEMMA ComparesRationals ==
    ASSUME NEW n1 \in Nat, NEW d1 \in Nat \ {0}, NEW n2 \in Nat, NEW d2 \in Nat \ {0}
    PROVE  compare_rationals(n1, d1, n2, d2) = (n1 * d2 < n2 * d1)
<1>. DEFINE IsFractions(f) == f = [q \in Rationals |-> Fractions(f, q)]
            less == CHOOSE f : IsFractions(f)
            g == [q \in Rationals |-> Smaller(q)]
<1>1. compare_rationals(n1, d1, n2, d2) = less[<<n1, d1, n2, d2>>]
  BY DEF compare_rationals, Rationals, Fractions
<1>2. ASSUME NEW q \in Rationals PROVE g[q] = Fractions(g, q)
  <2>1. ASSUME q[1] % q[2] # 0, q[3] % q[4] # 0
        PROVE  <<q[4], q[3] % q[4], q[2], q[1] % q[2]>> \in Rationals
    <3>1. /\ q[1] \in Nat /\ q[2] \in Nat \ {0} /\ q[3] \in Nat /\ q[4] \in Nat \ {0}
      BY DEF Rationals
    <3>2. q[1] % q[2] \in Nat /\ q[3] % q[4] \in Nat
      BY <3>1, Division
    <3>. QED BY <2>1, <3>1, <3>2 DEF Rationals
  <2>2. \A p \in Rationals : g[p] = Smaller(p)
    OBVIOUS
  <2>. HIDE DEF g
  <2>3. Fractions(g, q) = Smaller(q)
    BY <2>1, <2>2, FractionsStep, Zenon
  <2>. QED BY <2>2, <2>3
<1>3. IsFractions(g)
  <2>1. g = [q \in Rationals |-> g[q]]
    OBVIOUS
  <2>. HIDE DEF g
  <2>. QED BY <1>2, <2>1
<1>. HIDE DEF g
<1>4. IsFractions(less)
  <2>. HIDE DEF IsFractions
  <2>. QED BY <1>3, Zenon
<1>. HIDE DEF less
<1>5. \A q \in Rationals : less[q] = Fractions(less, q)
  BY <1>4
<1>6. less[<<n1, d1, n2, d2>>] = Smaller(<<n1, d1, n2, d2>>)
  <2>1. <<n1, d1, n2, d2>> \in Rationals
    BY DEF Rationals
  <2>. QED BY <1>5, <2>1, FractionsUnique, Zenon
<1>. QED BY <1>1, <1>6 DEF Smaller

(* The integer square root exists, and a larger number has no smaller one. *)
LEMMA RootExists ==
    ASSUME NEW n \in Nat
    PROVE  LET r == integer_sqrt(n) IN r \in 0 .. n /\ r * r <= n /\ (r + 1) * (r + 1) > n
<1>. DEFINE T == {r \in Nat : (r + 1) * (r + 1) > n}
<1>1. (n + 1) * (n + 1) > n
  BY SMT
<1>2. PICK r \in T : \A y \in T : r <= y
  BY <1>1, LeastNat
<1>3. r * r <= n
  <2>1. CASE r = 0
    BY <2>1
  <2>2. CASE r # 0
    <3>1. r - 1 \in Nat /\ ~(r <= r - 1)
      BY <2>2
    <3>2. ~(((r - 1) + 1) * ((r - 1) + 1) > n)
      BY <1>2, <3>1
    <3>3. (r - 1) + 1 = r /\ r * r \in Nat
      OBVIOUS
    <3>. QED BY <3>2, <3>3
  <2>. QED BY <2>1, <2>2
<1>4. r <= n
  BY <1>1, <1>2
<1>5. r \in 0 .. n /\ r * r <= n /\ (r + 1) * (r + 1) > n
  BY <1>2, <1>3, <1>4
<1>. QED BY <1>5 DEF integer_sqrt

LEMMA RootMonotone ==
    ASSUME NEW n \in Nat, NEW m \in Nat, n <= m
    PROVE  integer_sqrt(n) <= integer_sqrt(m)
<1>1. PICK r, s : r = integer_sqrt(n) /\ s = integer_sqrt(m)
  OBVIOUS
<1>2. r \in Nat /\ s \in Nat /\ r * r <= n /\ (s + 1) * (s + 1) > m
  BY <1>1, RootExists
<1>3. SUFFICES ASSUME s + 1 <= r PROVE FALSE
  BY <1>1, <1>2
<1>4. (s + 1) * (s + 1) <= r * (s + 1) /\ (s + 1) * r <= r * r
  BY <1>2, <1>3, ProductMonotone
<1>5. /\ r * (s + 1) = (s + 1) * r
      /\ (s + 1) * (s + 1) \in Nat /\ r * (s + 1) \in Nat /\ r * r \in Nat
  BY <1>2, SMT
<1>. QED BY <1>2, <1>4, <1>5

(* SuperMajorityApprove: whatever is left of the electorate, approval      *)
(* takes more ayes than nays.                                              *)
LEMMA ApprovedByMajority ==
    ASSUME NEW tally \in [ayes : Nat, nays : Nat, turnout : Nat], NEW electorate \in Nat,
           approved(tally, electorate)
    PROVE  tally.ayes > tally.nays
<1>1. PICK v, e, m : /\ v = integer_sqrt(tally.turnout) /\ e = integer_sqrt(m)
                     /\ m = max(electorate, tally.turnout)
  OBVIOUS
<1>2. m \in Nat /\ tally.turnout \in Nat /\ tally.turnout <= m
  BY <1>1 DEF max
<1>3. v \in Nat /\ e \in Nat /\ v <= e
  BY <1>1, <1>2, RootExists, RootMonotone
<1>4. v # 0 /\ e # 0 /\ compare_rationals(tally.nays, v, tally.ayes, e)
  BY <1>1 DEF approved
<1>5. tally.nays * e < tally.ayes * v
  <2>1. compare_rationals(tally.nays, v, tally.ayes, e) = (tally.nays * e < tally.ayes * v)
    BY <1>3, <1>4, ComparesRationals
  <2>. QED BY <1>4, <2>1, Zenon
<1>6. SUFFICES ASSUME tally.ayes <= tally.nays PROVE FALSE
  OBVIOUS
<1>7. tally.ayes * v <= tally.nays * v /\ v * tally.nays <= e * tally.nays
  BY <1>3, <1>6, ProductMonotone
<1>8. /\ tally.nays * v = v * tally.nays /\ tally.nays * e = e * tally.nays
      /\ tally.nays * v \in Nat /\ tally.nays * e \in Nat /\ tally.ayes * v \in Nat
  BY <1>3, SMT
<1>. QED BY <1>5, <1>7, <1>8

-----------------------------------------------------------------------------
(* The escrow of the first block                                           *)

(* Every account has locked its amount, and nothing is reserved.           *)
LEMMA LockedEscrowTyped ==
    ASSUME NEW amount \in [Accounts -> LockAmounts]
    PROVE  /\ LockedEscrow(amount) \in EscrowType
           /\ \A a \in Accounts : LockedEscrow(amount).reserved[a] = 0
<1>1. PICK end, line :
          /\ end = round_height(MaxPeriod)
          /\ line = [a \in Accounts |-> Point(amount[a], 0, end, MaxPeriod)]
  OBVIOUS
<1>2. MaxPeriod \in Nat /\ MaxHeight \in Nat /\ end \in Nat /\ IsFiniteSet(Accounts)
  BY <1>1, EscrowAssumption, EscrowUsersAssumption, RoundedNat
<1>3. \A a \in Accounts : amount[a] \in Nat
  BY DemocracyAssumption
<1>4. line \in [Accounts -> PointType]
  BY <1>1, <1>2, <1>3, PointTyped
<1>5. PICK b, s : b = [a \in Accounts |-> line[a].bias] /\ s = [a \in Accounts |-> line[a].slope]
  OBVIOUS
<1>6. Total(b, Accounts) \in Nat /\ Total(s, Accounts) \in Nat
  <2>1. \A a \in Accounts : b[a] \in Nat /\ s[a] \in Nat
    BY <1>4, <1>5 DEF PointType
  <2>. QED BY <1>2, <2>1, TotalNat
<1>7. PICK point : point = [bias |-> Total(b, Accounts), slope |-> Total(s, Accounts), ts |-> 0]
  OBVIOUS
<1>8. point \in PointType
  BY <1>6, <1>7 DEF PointType
<1>9. PICK locked : locked = [a \in Accounts |-> [amount |-> amount[a], end |-> end]]
  OBVIOUS
<1>10. locked \in [Accounts -> LockType]
  BY <1>2, <1>3, <1>9 DEF LockType
<1>11. LockedEscrow(amount) =
           [NewEscrow EXCEPT !.locked = locked, !.user = line, !.point = point]
  BY <1>1, <1>5, <1>7, <1>9 DEF LockedEscrow
<1>12. NewEscrow \in EscrowType /\ \A a \in Accounts : NewEscrow.reserved[a] = 0
  BY DEF NewEscrow, EscrowType, NoLock, NoPoint, LockType, PointType, Limits
<1>. HIDE DEF NewEscrow
<1>. QED BY <1>4, <1>8, <1>10, <1>11, <1>12 DEF EscrowType

-----------------------------------------------------------------------------
(* Queues: proposals and candidates are appended, and removed in two ways  *)

LEMMA AppendExtends ==
    ASSUME NEW S, NEW s \in Seq(S), NEW x \in S
    PROVE  Append(s, x) \in Seq(S) /\ Len(Append(s, x)) = Len(s) + 1 /\ Extends(s, Append(s, x), x)
<1>1. /\ Append(s, x) \in Seq(S) /\ Len(Append(s, x)) = Len(s) + 1
      /\ \A i \in 1 .. Len(s) : Append(s, x)[i] = s[i]
      /\ Append(s, x)[Len(s) + 1] = x
  BY AppendProperties
<1>2. Len(s) \in Nat /\ DOMAIN s = 1 .. Len(s) /\ DOMAIN Append(s, x) = 1 .. (Len(s) + 1)
  BY <1>1, LenProperties
<1>. QED BY <1>1, <1>2 DEF Extends

LEMMA SeqListing ==
    ASSUME NEW S, NEW s \in Seq(S)
    PROVE  Listing(s) /\ Len(s) \in Nat /\ DOMAIN s = 1 .. Len(s) /\ \A k \in DOMAIN s : s[k] \in S
BY LenProperties, ElementOfSeq DEF Listing

(* The elements after i move up.                                           *)
LEMMA RemoveAtDropped ==
    ASSUME NEW S, NEW s \in Seq(S), NEW i \in DOMAIN s
    PROVE  LET t == SubSeq(s, 1, i - 1) \o SubSeq(s, i + 1, Len(s)) IN
           t \in Seq(S) /\ Len(t) = Len(s) - 1 /\ Dropped(s, t, i)
<1>1. PICK n \in Nat : n = Len(s) /\ DOMAIN s = 1 .. n /\ i \in 1 .. n /\ \A k \in 1 .. n : s[k] \in S
  BY SeqListing
<1>2. PICK p, q, t : p = SubSeq(s, 1, i - 1) /\ q = SubSeq(s, i + 1, n) /\ t = p \o q
  OBVIOUS
<1>3. /\ p \in Seq(S) /\ Len(p) = i - 1
      /\ \A k \in 1 .. i - 1 : p[k] = s[k]
  BY <1>1, <1>2, SubSeqProperties
<1>4. /\ q \in Seq(S) /\ Len(q) = n - i
      /\ \A k \in 1 .. n - i : q[k] = s[i + k]
  <2>1. PICK m : m = i + 1
    OBVIOUS
  <2>2. m \in Int /\ n \in Int /\ \A k \in m .. n : s[k] \in S
    BY <1>1, <2>1
  <2>3. /\ q \in Seq(S) /\ Len(q) = IF m <= n THEN n - m + 1 ELSE 0
        /\ \A k \in 1 .. n - m + 1 : q[k] = s[m + k - 1]
    BY <1>2, <2>1, <2>2, SubSeqProperties
  <2>4. n - m + 1 = n - i /\ \A k \in 1 .. n - i : m + k - 1 = i + k
    BY <1>1, <2>1
  <2>. QED BY <1>1, <2>1, <2>3, <2>4
<1>5. /\ t \in Seq(S) /\ Len(t) = n - 1
      /\ \A k \in 1 .. n - 1 : t[k] = IF k <= i - 1 THEN p[k] ELSE q[k - (i - 1)]
  <2>1. /\ t \in Seq(S) /\ Len(t) = Len(p) + Len(q)
        /\ \A k \in 1 .. Len(p) + Len(q) : t[k] = IF k <= Len(p) THEN p[k] ELSE q[k - Len(p)]
    <3>1. p \in Seq(S) /\ q \in Seq(S)
      BY <1>3, <1>4
    <3>. QED BY <1>2, <3>1, ConcatProperties, Zenon
  <2>2. Len(p) + Len(q) = n - 1
    <3>1. PICK x, y : x = Len(p) /\ y = Len(q)
      OBVIOUS
    <3>2. x = i - 1 /\ y = n - i /\ i \in Int /\ n \in Int
      BY <1>1, <1>3, <1>4, <3>1
    <3>3. x + y = n - 1
      BY <3>2
    <3>. QED BY <3>1, <3>3
  <2>. QED BY <1>3, <2>1, <2>2
<1>. DEFINE h == [k \in 1 .. n - 1 |-> IF k < i THEN k ELSE k + 1]
<1>6. \A k \in 1 .. n - 1 : t[k] = s[h[k]]
  <2>1. SUFFICES ASSUME NEW k \in 1 .. n - 1 PROVE t[k] = s[h[k]]
    OBVIOUS
  <2>2. CASE k < i
    BY <1>1, <1>3, <1>5, <2>2
  <2>3. CASE ~(k < i)
    <3>1. k - (i - 1) \in 1 .. n - i /\ i + (k - (i - 1)) = k + 1
      BY <1>1, <2>3
    <3>2. t[k] = q[k - (i - 1)]
      <4>1. ~(k <= i - 1)
        BY <1>1, <2>3
      <4>. QED BY <1>5, <4>1
    <3>3. t[k] = s[k + 1]
      BY <1>4, <3>1, <3>2
    <3>. QED BY <2>3, <3>3
  <2>. QED BY <2>2, <2>3
<1>7. DOMAIN t = 1 .. n - 1 /\ Listing(t) /\ Listing(s)
  BY <1>1, <1>5, SeqListing
<1>8. h \in Bijection(DOMAIN t, DOMAIN s \ {i})
  <2>1. h \in [1 .. n - 1 -> (1 .. n) \ {i}]
    BY <1>1
  <2>2. \A x, y \in 1 .. n - 1 : h[x] = h[y] => x = y
    BY <1>1
  <2>3. ASSUME NEW y \in (1 .. n) \ {i} PROVE \E x \in 1 .. n - 1 : h[x] = y
    <3>1. CASE y < i
      <4>1. y \in 1 .. n - 1 /\ h[y] = y
        BY <1>1, <3>1
      <4>. QED BY <4>1
    <3>2. CASE ~(y < i)
      <4>1. y - 1 \in 1 .. n - 1 /\ h[y - 1] = y
        BY <1>1, <2>3, <3>2
      <4>. QED BY <4>1
    <3>. QED BY <3>1, <3>2
  <2>. HIDE DEF h
  <2>4. h \in Bijection(1 .. n - 1, (1 .. n) \ {i})
    BY <2>1, <2>2, <2>3 DEF Bijection, Injection, IsInjective, Surjection
  <2>. QED BY <1>1, <1>7, <2>4
<1>. HIDE DEF h
<1>9. Dropped(s, t, i)
  BY <1>6, <1>7, <1>8 DEF Dropped
<1>. QED BY <1>1, <1>2, <1>5, <1>9

(* The last element takes the place of the one that goes.                  *)
LEMMA SwapRemoveDropped ==
    ASSUME NEW S, NEW s \in Seq(S), NEW i \in DOMAIN s
    PROVE  swap_remove(s, i) \in Seq(S) /\ Dropped(s, swap_remove(s, i), i)
<1>1. PICK n \in Nat : n = Len(s) /\ DOMAIN s = 1 .. n /\ i \in 1 .. n /\ \A k \in 1 .. n : s[k] \in S
  BY SeqListing
<1>2. PICK t : t = swap_remove(s, i)
  OBVIOUS
<1>3. t = [k \in 1 .. n - 1 |-> IF k = i THEN s[n] ELSE s[k]]
  BY <1>1, <1>2 DEF swap_remove
<1>4. n - 1 \in Nat /\ \A k \in 1 .. n - 1 : t[k] \in S
  BY <1>1, <1>3
<1>5. t \in Seq(S) /\ DOMAIN t = 1 .. n - 1
  BY <1>3, <1>4, SeqDef
<1>. DEFINE h == [k \in 1 .. n - 1 |-> IF k = i THEN n ELSE k]
<1>6. \A k \in 1 .. n - 1 : t[k] = s[h[k]]
  BY <1>1, <1>3
<1>7. Listing(t) /\ Listing(s)
  BY <1>5, SeqListing
<1>8. h \in Bijection(1 .. n - 1, (1 .. n) \ {i})
  <2>1. h \in [1 .. n - 1 -> (1 .. n) \ {i}]
    BY <1>1
  <2>2. \A x, y \in 1 .. n - 1 : h[x] = h[y] => x = y
    BY <1>1
  <2>3. ASSUME NEW y \in (1 .. n) \ {i} PROVE \E x \in 1 .. n - 1 : h[x] = y
    <3>1. CASE y # n
      <4>1. y \in 1 .. n - 1 /\ h[y] = y
        BY <1>1, <2>3, <3>1
      <4>. QED BY <4>1
    <3>2. CASE y = n
      <4>1. i \in 1 .. n - 1 /\ h[i] = y
        BY <1>1, <2>3, <3>2
      <4>. QED BY <4>1
    <3>. QED BY <3>1, <3>2
  <2>. HIDE DEF h
  <2>. QED BY <2>1, <2>2, <2>3 DEF Bijection, Injection, IsInjective, Surjection
<1>. HIDE DEF h
<1>9. Dropped(s, t, i)
  BY <1>1, <1>5, <1>6, <1>7, <1>8 DEF Dropped
<1>. QED BY <1>2, <1>5, <1>9

(* What is left is what there was, without element i.                      *)
Kept(s, t, i) ==
    /\ \A k \in DOMAIN t : \E j \in DOMAIN s \ {i} : t[k] = s[j]
    /\ \A j \in DOMAIN s \ {i} : \E k \in DOMAIN t : t[k] = s[j]
    /\ \A k, l \in DOMAIN t : k # l =>
           \E x, y \in DOMAIN s \ {i} : x # y /\ t[k] = s[x] /\ t[l] = s[y]

LEMMA DroppedElements ==
    ASSUME NEW s, NEW t, NEW i, Dropped(s, t, i)
    PROVE  Kept(s, t, i)
<1>1. PICK h \in Bijection(DOMAIN t, DOMAIN s \ {i}) : \A k \in DOMAIN t : t[k] = s[h[k]]
  BY DEF Dropped
<1>2. \A k \in DOMAIN t : h[k] \in DOMAIN s \ {i}
  BY <1>1 DEF Bijection, Injection
<1>3. \A k, l \in DOMAIN t : h[k] = h[l] => k = l
  BY <1>1 DEF Bijection, Injection, IsInjective
<1>4. \A j \in DOMAIN s \ {i} : \E k \in DOMAIN t : h[k] = j
  BY <1>1 DEF Bijection, Surjection
<1>. QED BY <1>1, <1>2, <1>3, <1>4 DEF Kept

-----------------------------------------------------------------------------
(* Deposits of proposals                                                   *)

PropType == [index : Nat, call : Proposals, proposer : Accounts]
DepositType == [whos : Seq(Accounts), amount : Nat]

IsMap(f) == f = [i \in DOMAIN f |-> f[i]]

DepositsTyped(d) ==
    IsMap(d) /\ IsFiniteSet(DOMAIN d) /\ \A i \in DOMAIN d : d[i] \in DepositType

LEMMA TimesCounts ==
    ASSUME NEW whos \in Seq(Accounts), NEW a
    PROVE  times(whos, a) = Count(whos, {a}) /\ times(whos, a) \in Nat
<1>1. times(whos, a) = Count(whos, {a})
  BY DEF times, Count
<1>2. Listing(whos)
  BY SeqListing
<1>3. Count(whos, {a}) \in Nat
  BY <1>2, CountNat, Zenon
<1>. QED BY <1>1, <1>3

LEMMA TimesAppend ==
    ASSUME NEW whos \in Seq(Accounts), NEW who \in Accounts, NEW a
    PROVE  /\ Append(whos, who) \in Seq(Accounts)
           /\ times(Append(whos, who), a) = times(whos, a) + (IF a = who THEN 1 ELSE 0)
<1>1. PICK t : t = Append(whos, who)
  OBVIOUS
<1>2. t \in Seq(Accounts) /\ Extends(whos, t, who)
  BY <1>1, AppendExtends
<1>3. Count(t, {a}) = Count(whos, {a}) + (IF who \in {a} THEN 1 ELSE 0)
  BY <1>2, CountExtended
<1>. QED BY <1>1, <1>2, <1>3, TimesCounts

LEMMA TimesOne ==
    ASSUME NEW who \in Accounts, NEW a
    PROVE  <<who>> \in Seq(Accounts) /\ times(<<who>>, a) = IF a = who THEN 1 ELSE 0
<1>1. <<>> \in Seq(Accounts) /\ Append(<<>>, who) = <<who>>
  BY EmptySeq
<1>2. times(<<>>, a) = 0
  <2>1. {k \in DOMAIN <<>> : <<>>[k] = a} = {}
    OBVIOUS
  <2>. QED BY <2>1, FS_EmptySet DEF times
<1>3. PICK t : t = Append(<<>>, who)
  OBVIOUS
<1>4. t \in Seq(Accounts) /\ times(t, a) = times(<<>>, a) + (IF a = who THEN 1 ELSE 0)
  BY <1>1, <1>3, TimesAppend
<1>5. t = <<who>>
  BY <1>1, <1>3
<1>. QED BY <1>2, <1>4, <1>5

(* What one deposit holds of the votes of a.                               *)
held(x, a) == x.amount * times(x.whos, a)

LEMMA HeldNat ==
    ASSUME NEW x \in DepositType, NEW a
    PROVE  held(x, a) \in Nat
<1>1. x.amount \in Nat /\ times(x.whos, a) \in Nat
  BY TimesCounts DEF DepositType
<1>. QED BY <1>1, ProductNat DEF held

holdings(d, a) == [i \in DOMAIN d |-> held(d[i], a)]

LEMMA DepositedTotal ==
    ASSUME NEW d, NEW a
    PROVE  deposited(d, a) = Total(holdings(d, a), DOMAIN d)
BY DEF deposited, holdings, held

LEMMA DepositedNat ==
    ASSUME NEW d, DepositsTyped(d), NEW a
    PROVE  deposited(d, a) \in Nat
<1>1. \A i \in DOMAIN d : holdings(d, a)[i] \in Nat
  BY HeldNat DEF DepositsTyped, holdings
<1>2. IsFiniteSet(DOMAIN d)
  BY DEF DepositsTyped
<1>. HIDE DEF holdings
<1>. QED BY <1>1, <1>2, DepositedTotal, TotalNat

(* A proposal's deposits go.                                               *)
LEMMA DepositedWithout ==
    ASSUME NEW d, DepositsTyped(d), NEW x \in DOMAIN d, NEW a
    PROVE  /\ DepositsTyped(without(d, x))
           /\ deposited(d, a) = deposited(without(d, x), a) + held(d[x], a)
<1>1. PICK e : e = without(d, x)
  OBVIOUS
<1>2. e = [i \in DOMAIN d \ {x} |-> d[i]]
  BY <1>1 DEF without
<1>3. DOMAIN e = DOMAIN d \ {x} /\ \A i \in DOMAIN e : e[i] = d[i]
  BY <1>2
<1>4. DepositsTyped(e)
  <2>1. IsFiniteSet(DOMAIN e)
    BY <1>3, FS_RemoveElement DEF DepositsTyped
  <2>2. IsMap(e)
    BY <1>2, <1>3 DEF IsMap
  <2>. QED BY <1>3, <2>1, <2>2 DEF DepositsTyped
<1>5. \A i \in DOMAIN d : held(d[i], a) \in Nat
  BY HeldNat DEF DepositsTyped
<1>6. PICK f, g, D : f = holdings(d, a) /\ g = holdings(e, a) /\ D = DOMAIN d
  OBVIOUS
<1>7. f[x] = held(d[x], a) /\ \A y \in D \ {x} : f[y] \in Nat /\ g[y] = f[y]
  BY <1>3, <1>5, <1>6 DEF holdings
<1>8. IsFiniteSet(D) /\ x \in D /\ f[x] \in Nat
  BY <1>5, <1>6, <1>7 DEF DepositsTyped
<1>9. Total(g, D \ {x}) = Total(f, D) - f[x]
  BY <1>7, <1>8, TotalRemove
<1>10. deposited(e, a) = deposited(d, a) - held(d[x], a)
  BY <1>3, <1>6, <1>7, <1>9, DepositedTotal
<1>11. deposited(d, a) \in Nat /\ held(d[x], a) \in Nat
  BY <1>5, DepositedNat
<1>12. deposited(d, a) = deposited(e, a) + held(d[x], a)
  BY <1>10, <1>11
<1>. QED BY <1>1, <1>4, <1>12

(* A proposal comes with a deposit.                                        *)
LEMMA DepositedWith ==
    ASSUME NEW d, DepositsTyped(d), NEW x, x \notin DOMAIN d, NEW v \in DepositType, NEW a
    PROVE  /\ DepositsTyped(with(d, x, v))
           /\ deposited(with(d, x, v), a) = deposited(d, a) + held(v, a)
<1>1. PICK e : e = with(d, x, v)
  OBVIOUS
<1>2. e = [y \in DOMAIN d \cup {x} |-> IF y = x THEN v ELSE d[y]]
  BY <1>1 DEF with
<1>3. DOMAIN e = DOMAIN d \cup {x} /\ e[x] = v /\ \A i \in DOMAIN d : e[i] = d[i]
  BY <1>2
<1>4. DepositsTyped(e)
  <2>1. IsFiniteSet(DOMAIN e)
    BY <1>3, FS_AddElement DEF DepositsTyped
  <2>2. IsMap(e)
    BY <1>2, <1>3 DEF IsMap
  <2>. QED BY <1>3, <2>1, <2>2 DEF DepositsTyped
<1>5. held(v, a) \in Nat /\ \A i \in DOMAIN d : held(d[i], a) \in Nat
  BY HeldNat DEF DepositsTyped
<1>6. PICK f, g, D : f = holdings(d, a) /\ g = holdings(e, a) /\ D = DOMAIN d
  OBVIOUS
<1>7. g[x] = held(v, a) /\ \A y \in D : f[y] \in Nat /\ g[y] = f[y]
  BY <1>3, <1>5, <1>6 DEF holdings
<1>8. IsFiniteSet(D) /\ x \notin D /\ g[x] \in Nat
  BY <1>5, <1>6, <1>7 DEF DepositsTyped
<1>9. Total(g, D \cup {x}) = Total(f, D) + g[x]
  BY <1>7, <1>8, TotalInsert
<1>10. deposited(e, a) = deposited(d, a) + held(v, a)
  BY <1>3, <1>6, <1>7, <1>9, DepositedTotal
<1>. QED BY <1>1, <1>4, <1>10

(* Someone seconds a proposal.                                             *)
seconded(d, x, who) == [d EXCEPT ![x].whos = Append(@, who)]

LEMMA DepositedSecond ==
    ASSUME NEW d, DepositsTyped(d), NEW x \in DOMAIN d, NEW who \in Accounts, NEW a,
           NEW e, e = seconded(d, x, who)
    PROVE  /\ DepositsTyped(e) /\ DOMAIN e = DOMAIN d
           /\ deposited(e, a) = deposited(d, a) + (IF a = who THEN d[x].amount ELSE 0)
<1>1. e = [d EXCEPT ![x].whos = Append(@, who)]
  BY DEF seconded
<1>2. PICK v : v = [d[x] EXCEPT !.whos = Append(@, who)]
  OBVIOUS
<1>3. d[x] \in DepositType /\ d[x].whos \in Seq(Accounts) /\ d[x].amount \in Nat
  BY DEF DepositsTyped, DepositType
<1>4. v \in DepositType /\ v.amount = d[x].amount /\ v.whos = Append(d[x].whos, who)
  BY <1>2, <1>3, TimesAppend DEF DepositType
<1>5. DOMAIN e = DOMAIN d /\ e[x] = v /\ \A y \in DOMAIN d : y # x => e[y] = d[y]
  BY <1>1, <1>2
<1>6. DepositsTyped(e)
  <2>1. IsMap(e)
    BY <1>1 DEF DepositsTyped, IsMap
  <2>. QED BY <1>4, <1>5, <2>1 DEF DepositsTyped
<1>7. held(v, a) = held(d[x], a) + (IF a = who THEN d[x].amount ELSE 0)
  <2>1. PICK m, n, k : m = d[x].amount /\ n = times(d[x].whos, a) /\ k = times(v.whos, a)
    OBVIOUS
  <2>2. m \in Nat /\ n \in Nat /\ k = n + (IF a = who THEN 1 ELSE 0)
    <3>1. n \in Nat
      BY <1>3, <2>1, TimesCounts
    <3>2. times(Append(d[x].whos, who), a) = times(d[x].whos, a) + (IF a = who THEN 1 ELSE 0)
      BY <1>3, TimesAppend
    <3>. QED BY <1>3, <1>4, <2>1, <3>1, <3>2
  <2>3. m * (n + 1) = m * n + m /\ m * n \in Nat
    BY <2>2
  <2>4. m * k = m * n + (IF a = who THEN m ELSE 0)
    BY <2>2, <2>3
  <2>. QED BY <1>4, <2>1, <2>4 DEF held
<1>8. \A i \in DOMAIN d : held(d[i], a) \in Nat /\ held(v, a) \in Nat
  BY <1>4, HeldNat DEF DepositsTyped
<1>9. PICK f, g, D : f = holdings(d, a) /\ g = holdings(e, a) /\ D = DOMAIN d
  OBVIOUS
<1>10. /\ f[x] = held(d[x], a) /\ g[x] = held(v, a) /\ g[x] \in Nat
       /\ \A y \in D : f[y] \in Nat /\ (y # x => g[y] = f[y])
  BY <1>5, <1>8, <1>9 DEF holdings
<1>11. IsFiniteSet(D) /\ x \in D
  BY <1>9 DEF DepositsTyped
<1>12. Total(g, D) = Total(f, D) - f[x] + g[x]
  BY <1>10, <1>11, TotalChange
<1>13. deposited(e, a) = deposited(d, a) - held(d[x], a) + held(v, a)
  BY <1>5, <1>9, <1>10, <1>12, DepositedTotal
<1>14. deposited(d, a) \in Nat /\ held(d[x], a) \in Nat /\ held(v, a) \in Nat /\ d[x].amount \in Nat
  BY <1>3, <1>8, DepositedNat
<1>15. deposited(e, a) = deposited(d, a) + (IF a = who THEN d[x].amount ELSE 0)
  BY <1>7, <1>13, <1>14
<1>. QED BY <1>1, <1>5, <1>6, <1>15

(* Depositors get the amount back once for each of their deposits.         *)
LEMMA UnreserveAllTyped ==
    ASSUME NEW e \in EscrowType, NEW deposit \in DepositType
    PROVE  /\ unreserve_all(e, deposit) \in EscrowType
           /\ \A a \in Accounts : unreserve_all(e, deposit).reserved[a]
                                  = saturating_sub(e.reserved[a], held(deposit, a))
<1>1. PICK whos, m, N : whos = deposit.whos /\ m = deposit.amount /\ N = Len(whos)
  OBVIOUS
<1>2. /\ m \in Nat /\ N \in Nat /\ DOMAIN whos = 1 .. N
      /\ \A k \in 1 .. N : whos[k] \in Accounts
  <2>1. whos \in Seq(Accounts) /\ m \in Nat
    BY <1>1 DEF DepositType
  <2>. QED BY <1>1, <2>1, SeqListing
<1>. DEFINE among(k, a) == {j \in 1 .. k : whos[j] = a}
            body(k, s) == unreserve(s, whos[k], m)
            IsStep(f) == f = [k \in 0 .. N |-> IF k = 0 THEN e ELSE body(k, f[k - 1])]
            step == CHOOSE f : IsStep(f)
            After(k) == {s \in EscrowType : \A a \in Accounts :
                            s.reserved[a] = saturating_sub(e.reserved[a], m * Cardinality(among(k, a)))}
<1>3. unreserve_all(e, deposit) = step[N]
  BY <1>1 DEF unreserve_all
<1>4. \A a \in Accounts : e.reserved[a] \in Nat
  BY DEF EscrowType
<1>5. \A k \in 0 .. N, a \in Accounts : IsFiniteSet(among(k, a)) /\ Cardinality(among(k, a)) \in Nat
  <2>1. SUFFICES ASSUME NEW k \in 0 .. N, NEW a \in Accounts
                 PROVE  IsFiniteSet(among(k, a)) /\ Cardinality(among(k, a)) \in Nat
    OBVIOUS
  <2>2. IsFiniteSet(1 .. k) /\ among(k, a) \subseteq 1 .. k
    BY FS_Interval
  <2>. HIDE DEF among
  <2>3. IsFiniteSet(among(k, a))
    BY <2>2, FS_Subset
  <2>. QED BY <2>3, FS_CardinalityType
<1>6. ASSUME NEW k \in 1 .. N, NEW s \in After(k - 1)
      PROVE  body(k, s) \in After(k)
  <2>1. PICK x : x = body(k, s)
    OBVIOUS
  <2>2. s \in EscrowType /\ whos[k] \in Accounts
    BY <1>2, <1>6
  <2>3. /\ x \in EscrowType
        /\ \A a \in Accounts : x.reserved[a] = IF a = whos[k] THEN saturating_sub(s.reserved[a], m)
                                               ELSE s.reserved[a]
    BY <1>2, <2>1, <2>2, UnreserveTyped, SMTT(60)
  <2>4. ASSUME NEW a \in Accounts
        PROVE  x.reserved[a] = saturating_sub(e.reserved[a], m * Cardinality(among(k, a)))
    <3>1. PICK A, B : A = among(k - 1, a) /\ B = among(k, a)
      OBVIOUS
    <3>2. B = IF whos[k] = a THEN A \cup {k} ELSE A
      BY <1>2, <3>1
    <3>3. IsFiniteSet(A) /\ k \notin A /\ Cardinality(A) \in Nat
      <4>1. k - 1 \in 0 .. N /\ k \notin 1 .. (k - 1)
        BY <1>2
      <4>. QED BY <1>5, <3>1, <4>1
    <3>4. Cardinality(B) = Cardinality(A) + (IF whos[k] = a THEN 1 ELSE 0)
      BY <3>2, <3>3, OneMore
    <3>5. PICK p, q, r, c : /\ p = e.reserved[a] /\ q = s.reserved[a] /\ r = x.reserved[a]
                            /\ c = Cardinality(A)
      OBVIOUS
    <3>6. p \in Nat /\ c \in Nat /\ q = saturating_sub(p, m * c)
      BY <1>4, <1>6, <3>1, <3>3, <3>5
    <3>7. m * c \in Nat /\ m * (c + 1) = m * c + m
      BY <1>2, <3>6
    <3>8. r = IF a = whos[k] THEN saturating_sub(q, m) ELSE q
      BY <2>3, <3>5
    <3>9. CASE a = whos[k]
      <4>1. r = saturating_sub(p, m * c + m)
        BY <1>2, <3>6, <3>7, <3>8, <3>9 DEF saturating_sub
      <4>2. Cardinality(B) = c + 1
        BY <3>4, <3>5, <3>9
      <4>. QED BY <3>1, <3>5, <3>7, <4>1, <4>2
    <3>10. CASE a # whos[k]
      <4>1. Cardinality(B) = c
        BY <3>4, <3>5, <3>6, <3>10
      <4>. QED BY <3>1, <3>5, <3>6, <3>8, <3>10, <4>1
    <3>. QED BY <3>9, <3>10
  <2>. QED BY <2>1, <2>3, <2>4
<1>7. e \in After(0)
  <2>1. ASSUME NEW a \in Accounts
        PROVE  e.reserved[a] = saturating_sub(e.reserved[a], m * Cardinality(among(0, a)))
    <3>1. among(0, a) = {}
      OBVIOUS
    <3>2. m * Cardinality(among(0, a)) = 0
      BY <1>2, <3>1, FS_EmptySet
    <3>. QED BY <1>4, <3>2 DEF saturating_sub
  <2>. QED BY <2>1
<1>8. \A a \in Accounts : m * Cardinality(among(N, a)) = held(deposit, a)
  BY <1>1, <1>2 DEF held, times
<1>. DEFINE U == UNION {After(k) : k \in 0 .. N}
            F == [p \in (1 .. N) \X U |-> body(p[1], p[2])]
            T == [k \in 0 .. N |-> After(k)]
<1>. HIDE DEF After, body
<1>9. ASSUME NEW k \in 1 .. N, NEW s \in After(k - 1)
      PROVE  F[<<k, s>>] = body(k, s) /\ F[<<k, s>>] \in After(k)
  <2>1. k - 1 \in 0 .. N
    BY <1>2
  <2>2. <<k, s>> \in (1 .. N) \X U
    BY <2>1
  <2>. HIDE DEF U
  <2>3. F[<<k, s>>] = body(k, s)
    BY <2>2
  <2>. QED BY <1>6, <2>3
<1>. HIDE DEF F
<1>10. e \in T[0] /\ \A k \in 1 .. N : \A s \in T[k - 1] : F[<<k, s>>] \in T[k]
  <2>1. 0 \in 0 .. N /\ \A k \in 1 .. N : k \in 0 .. N /\ k - 1 \in 0 .. N
    BY <1>2
  <2>. QED BY <1>7, <1>9, <2>1
<1>11. PICK g : Recursion(g, e, F, N)
  BY <1>2, RecursionExists
<1>12. \A k \in 0 .. N : g[k] \in After(k)
  <2>1. \A k \in 0 .. N : g[k] \in T[k]
    BY <1>2, <1>10, <1>11, RecursionInvariant, Zenon
  <2>. QED BY <2>1
<1>13. IsStep(g)
  <2>1. \A k \in 0 .. N : k # 0 => k \in 1 .. N /\ k - 1 \in 0 .. N
    BY <1>2
  <2>2. \A k \in 0 .. N : k # 0 => F[<<k, g[k - 1]>>] = body(k, g[k - 1])
    BY <1>9, <1>12, <2>1
  <2>. QED BY <1>11, <2>2, Zenon DEF Recursion
<1>14. IsStep(step)
  <2>. HIDE DEF IsStep
  <2>. QED BY <1>13, Zenon
<1>. HIDE DEF step
<1>15. step[N] \in After(N)
  <2>. DEFINE S == {n \in Nat : n <= N => step[n] \in After(n)}
  <2>1. 0 \in S
    BY <1>2, <1>7, <1>14
  <2>2. ASSUME NEW n \in Nat, n \in S PROVE n + 1 \in S
    <3>1. SUFFICES ASSUME n + 1 <= N PROVE step[n + 1] \in After(n + 1)
      OBVIOUS
    <3>2. n + 1 \in 1 .. N /\ n + 1 \in 0 .. N /\ (n + 1) - 1 = n /\ n + 1 # 0 /\ n <= N
      BY <1>2, <3>1
    <3>3. step[n + 1] = body(n + 1, step[n])
      BY <1>14, <3>2
    <3>4. step[n] \in After(n)
      BY <2>2, <3>2
    <3>. QED BY <1>6, <3>2, <3>3, <3>4
  <2>. HIDE DEF S
  <2>3. Nat \subseteq S
    BY <2>1, <2>2, NatSetInduction
  <2>. QED BY <1>2, <2>3 DEF S
<1>. QED BY <1>3, <1>8, <1>15 DEF After

-----------------------------------------------------------------------------
(* The inductive invariant, in four parts that the actions change apart    *)

PropsTyped(p) ==
    /\ p = [count |-> p.count, public |-> p.public, deposit |-> p.deposit]
    /\ p.count \in Nat /\ p.public \in Seq(PropType) /\ DepositsTyped(p.deposit)
    /\ \A i \in DOMAIN p.deposit : i \in Nat /\ i < p.count
    /\ \A x \in DOMAIN p.public : p.public[x].index \in DOMAIN p.deposit
    /\ \A x, y \in DOMAIN p.public : x # y => p.public[x].index # p.public[y].index

CandidateType == [who : Accounts, deposit : Nat]
CollatorsType ==
    [invulnerables : SUBSET Accounts, candidates : Seq(CandidateType),
     last_authored : [Accounts -> Nat], desired : Nat, bond : Nat, pot : Nat]

(* No account is a candidate twice.                                        *)
CollatorsTyped(c) ==
    /\ c \in CollatorsType
    /\ \A i, j \in DOMAIN c.candidates : c.candidates[i].who = c.candidates[j].who => i = j

Reserved(e, c, d) == \A a \in Accounts : e.reserved[a] = bonded(c, a) + deposited(d, a)

(* Votes: what is reserved is reserved for proposals and candidates.       *)
Money(e, p, c) ==
    e \in EscrowType /\ PropsTyped(p) /\ CollatorsTyped(c) /\ Reserved(e, c, p.deposit)

TallyType == [ayes : Nat, nays : Nat, turnout : Nat]
OngoingType == [state : {"ongoing"}, end : Nat, proposal : Proposals, delay : Nat, tally : TallyType]
ClosedType == [state : {"none"}] \cup [state : {"finished"}, end : Nat, approved : BOOLEAN]
RefType == OngoingType \cup ClosedType

VoteType == [aye : BOOLEAN, balance : Nat]
VotesTyped(v, D) ==
    /\ v = [a \in Accounts |-> v[a]]
    /\ \A a \in Accounts : /\ IsMap(v[a]) /\ DOMAIN v[a] \subseteq D
                           /\ \A i \in DOMAIN v[a] : v[a][i] \in VoteType

share(v, a, i, side) ==
    IF i \in DOMAIN v[a] /\ v[a][i].aye = side THEN v[a][i].balance ELSE 0
shares(v, i, side) == [a \in Accounts |-> share(v, a, i, side)]
castOf(v, i, side) == Total(shares(v, i, side), Accounts)

castAyes(v, i) == castOf(v, i, TRUE)
castNays(v, i) == castOf(v, i, FALSE)

Tallied(t, v, i) ==
    /\ t.ayes = castAyes(v, i) /\ t.nays = castNays(v, i)
    /\ t.turnout = castAyes(v, i) + castNays(v, i)

Mature(r, h) == r.end \in (h + 1) .. (h + VotingPeriod)

(* Referenda: the open ones count their votes and end later.               *)
Polls(rs, v, h) ==
    /\ rs \in Seq(RefType) /\ VotesTyped(v, DOMAIN rs)
    /\ \A i \in DOMAIN rs : Ongoing(rs[i]) => Tallied(rs[i].tally, v, i) /\ Mature(rs[i], h)

Calling(p) == {x \in PropType : x.call = p}
Asking(p) == {r \in RefType : Ongoing(r) /\ r.proposal = p}
Tasks(ag, p) == {task \in ag : task.call = p}

(* Preimages: each user has a hold.                                        *)
Holds(pre, public, rs, ag) ==
    /\ pre \in [Proposals -> Nat] /\ IsFiniteSet(ag)
    /\ \A p \in Proposals :
          pre[p] >= Count(public, Calling(p)) + Count(rs, Asking(p)) + Cardinality(Tasks(ag, p))

(* Launches come at multiples of the period, each after the last one.      *)
Launches(next, last) ==
    /\ last \in Int /\ next > last
    /\ \E m \in Nat : next = m * LaunchPeriod

Clock(h, n, t, next, last, tr) ==
    /\ h \in 0 .. MaxHeight /\ n \in 0 .. MaxCalls /\ t \in Nat /\ tr \in 0 .. Treasury
    /\ Launches(next, last)

IInv ==
    /\ Clock(height, calls, time, next_launch, last_launch, treasury)
    /\ Money(escrow, props, collators)
    /\ Polls(refs, votes, height)
    /\ Holds(preimages, props.public, refs, agenda)

-----------------------------------------------------------------------------
(* Collators and their bonds                                               *)

LEMMA TotalOne ==
    ASSUME NEW f, NEW x, f[x] \in Nat
    PROVE  Total(f, {x}) = f[x]
<1>1. Total(f, {} \cup {x}) = Total(f, {}) + f[x]
  BY FS_EmptySet, TotalInsert
<1>2. {} \cup {x} = {x}
  OBVIOUS
<1>. QED BY <1>1, <1>2, TotalEmpty

(* A candidate's bond is the deposit of its one candidacy.                 *)
LEMMA BondedOne ==
    ASSUME NEW c, CollatorsTyped(c), NEW i \in DOMAIN c.candidates
    PROVE  /\ c.candidates[i].who \in Accounts
           /\ positions(c, c.candidates[i].who) = {i}
           /\ bonded(c, c.candidates[i].who) = c.candidates[i].deposit
           /\ c.candidates[i].deposit \in Nat
<1>1. PICK q : q = c.candidates
  OBVIOUS
<1>2. q \in Seq(CandidateType)
  BY <1>1 DEF CollatorsTyped, CollatorsType
<1>3. q[i] \in CandidateType
  BY <1>1, <1>2, SeqListing
<1>4. positions(c, q[i].who) = {i}
  BY <1>1 DEF positions, CollatorsTyped
<1>5. PICK f : f = [j \in DOMAIN q |-> q[j].deposit]
  OBVIOUS
<1>6. f[i] = q[i].deposit /\ f[i] \in Nat /\ q[i].who \in Accounts
  BY <1>1, <1>3, <1>5 DEF CandidateType
<1>7. Total(f, {i}) = f[i]
  BY <1>6, TotalOne
<1>. QED BY <1>1, <1>4, <1>5, <1>6, <1>7 DEF bonded

LEMMA BondedNone ==
    ASSUME NEW c, NEW a, positions(c, a) = {}
    PROVE  bonded(c, a) = 0
BY TotalEmpty DEF bonded

LEMMA BondedSame ==
    ASSUME NEW c, NEW d, c.candidates = d.candidates
    PROVE  \A a : bonded(c, a) = bonded(d, a) /\ positions(c, a) = positions(d, a)
BY DEF bonded, positions

LEMMA BondedNat ==
    ASSUME NEW c, CollatorsTyped(c), NEW a
    PROVE  bonded(c, a) \in Nat
<1>1. CASE positions(c, a) = {}
  BY <1>1, BondedNone
<1>2. CASE positions(c, a) # {}
  <2>1. PICK i \in DOMAIN c.candidates : c.candidates[i].who = a
    BY <1>2 DEF positions
  <2>. QED BY <2>1, BondedOne
<1>. QED BY <1>1, <1>2

(* Only the candidates matter to bonds.                                    *)
LEMMA CollatorsChanged ==
    ASSUME NEW e, NEW p, NEW c, Money(e, p, c), NEW d \in CollatorsType, d.candidates = c.candidates
    PROVE  Money(e, p, d)
<1>1. CollatorsTyped(d)
  BY DEF Money, CollatorsTyped
<1>2. \A a : bonded(d, a) = bonded(c, a)
  BY BondedSame
<1>. QED BY <1>1, <1>2 DEF Money, Reserved

(* A candidate goes, and its bond with it.                                 *)
LEMMA RemoveCandidate ==
    ASSUME NEW c, CollatorsTyped(c), NEW e \in EscrowType, NEW x, NEW who \in Accounts,
           \A a \in Accounts : x[a] \in Nat /\ e.reserved[a] = bonded(c, a) + x[a],
           NEW r \in try_remove_candidate(c, e, who)
    PROVE  /\ r = [coll |-> r.coll, escrow |-> r.escrow]
           /\ CollatorsTyped(r.coll) /\ r.escrow \in EscrowType
           /\ \A a \in Accounts : r.escrow.reserved[a] = bonded(r.coll, a) + x[a]
           /\ Len(r.coll.candidates) = Len(c.candidates) - 1
           /\ \A b \in Accounts : b # who /\ positions(c, b) # {} => positions(r.coll, b) # {}
<1>1. PICK s : s = c.candidates
  OBVIOUS
<1>2. s \in Seq(CandidateType) /\ Len(s) \in Nat /\ DOMAIN s = 1 .. Len(s)
  <2>1. s \in Seq(CandidateType)
    BY <1>1 DEF CollatorsTyped, CollatorsType
  <2>. QED BY <2>1, SeqListing
<1>3. PICK i \in positions(c, who) :
          r = [coll |-> [c EXCEPT !.candidates = SubSeq(@, 1, i - 1) \o SubSeq(@, i + 1, Len(@)),
                                  !.last_authored[who] = 0],
               escrow |-> unreserve(e, who, c.candidates[i].deposit)]
  BY DEF try_remove_candidate
<1>4. i \in DOMAIN s /\ s[i].who = who
  BY <1>1 DEF positions
<1>5. PICK t : t = SubSeq(s, 1, i - 1) \o SubSeq(s, i + 1, Len(s))
  OBVIOUS
<1>6. t \in Seq(CandidateType) /\ Len(t) = Len(s) - 1 /\ Dropped(s, t, i)
  BY <1>2, <1>4, <1>5, RemoveAtDropped
<1>7. PICK la : la = [c.last_authored EXCEPT ![who] = 0]
  OBVIOUS
<1>8. PICK d : d = [c EXCEPT !.candidates = t, !.last_authored = la]
  OBVIOUS
<1>9. PICK f : f = unreserve(e, who, s[i].deposit)
  OBVIOUS
<1>10. r = [coll |-> d, escrow |-> f]
  BY <1>1, <1>3, <1>5, <1>7, <1>8, <1>9
<1>11. la \in [Accounts -> Nat]
  BY <1>7 DEF CollatorsTyped, CollatorsType
<1>12. d \in CollatorsType /\ d.candidates = t
  BY <1>6, <1>8, <1>11 DEF CollatorsTyped, CollatorsType
<1>13. /\ \A k \in DOMAIN t : \E j \in DOMAIN s \ {i} : t[k] = s[j]
       /\ \A j \in DOMAIN s \ {i} : \E k \in DOMAIN t : t[k] = s[j]
       /\ \A k, l \in DOMAIN t : k # l =>
              \E y, z \in DOMAIN s \ {i} : y # z /\ t[k] = s[y] /\ t[l] = s[z]
  <2>1. Kept(s, t, i)
    BY <1>6, DroppedElements
  <2>. QED BY <2>1 DEF Kept
<1>14. \A j, k \in DOMAIN s : s[j].who = s[k].who => j = k
  BY <1>1 DEF CollatorsTyped
<1>15. CollatorsTyped(d)
  <2>1. \A k, l \in DOMAIN t : t[k].who = t[l].who => k = l
    BY <1>13, <1>14
  <2>. QED BY <1>12, <2>1 DEF CollatorsTyped
<1>16. s[i].deposit \in Nat /\ bonded(c, who) = s[i].deposit
  BY <1>1, <1>4, BondedOne
<1>17. /\ f \in EscrowType
       /\ \A a \in Accounts : f.reserved[a] = IF a = who THEN saturating_sub(e.reserved[a], s[i].deposit)
                                              ELSE e.reserved[a]
  BY <1>9, <1>16, UnreserveTyped
<1>18. positions(d, who) = {}
  <2>1. \A k \in DOMAIN t : t[k].who # who
    BY <1>4, <1>13, <1>14
  <2>. QED BY <1>12, <2>1 DEF positions
<1>19. ASSUME NEW a \in Accounts, a # who
       PROVE  bonded(d, a) = bonded(c, a) /\ (positions(c, a) # {} => positions(d, a) # {})
  <2>1. CASE positions(c, a) = {}
    <3>1. \A j \in DOMAIN s : s[j].who # a
      BY <1>1, <2>1 DEF positions
    <3>2. \A k \in DOMAIN t : t[k].who # a
      BY <1>13, <3>1
    <3>3. positions(d, a) = {}
      BY <1>12, <3>2 DEF positions
    <3>. QED BY <2>1, <3>3, BondedNone
  <2>2. CASE positions(c, a) # {}
    <3>1. PICK j \in DOMAIN s : s[j].who = a
      BY <1>1, <2>2 DEF positions
    <3>2. j # i
      BY <1>4, <1>19, <3>1
    <3>3. PICK k \in DOMAIN t : t[k] = s[j]
      BY <1>13, <3>1, <3>2
    <3>4. bonded(c, a) = s[j].deposit
      BY <1>1, <3>1, BondedOne
    <3>5. bonded(d, a) = t[k].deposit
      BY <1>12, <1>15, <3>1, <3>3, BondedOne
    <3>6. k \in positions(d, a)
      BY <1>12, <3>1, <3>3 DEF positions
    <3>. QED BY <3>3, <3>4, <3>5, <3>6
  <2>. QED BY <2>1, <2>2
<1>20. ASSUME NEW a \in Accounts PROVE f.reserved[a] = bonded(d, a) + x[a]
  <2>1. CASE a = who
    <3>1. f.reserved[a] = saturating_sub(s[i].deposit + x[a], s[i].deposit)
      BY <1>16, <1>17, <2>1
    <3>2. f.reserved[a] = x[a] /\ x[a] \in Nat
      BY <1>16, <3>1 DEF saturating_sub
    <3>3. bonded(d, a) = 0
      BY <1>18, <2>1, BondedNone
    <3>. QED BY <3>2, <3>3
  <2>2. CASE a # who
    BY <1>17, <1>19, <2>2
  <2>. QED BY <2>1, <2>2
<1>. QED BY <1>1, <1>6, <1>10, <1>12, <1>15, <1>17, <1>19, <1>20

(* A bond is reserved with the candidacy.                                  *)
LEMMA RegisterMoney ==
    ASSUME NEW e, NEW p, NEW c, Money(e, p, c), NEW who \in Accounts, NEW now \in Nat,
           NEW r \in register_as_candidate(c, e, who, now)
    PROVE  Money(r.escrow, p, r.coll) /\ Len(r.coll.candidates) >= Len(c.candidates)
<1>1. PICK s : s = c.candidates
  OBVIOUS
<1>2. /\ e \in EscrowType /\ CollatorsTyped(c) /\ c \in CollatorsType /\ c.bond \in Nat
      /\ s \in Seq(CandidateType) /\ c.last_authored \in [Accounts -> Nat] /\ PropsTyped(p)
  BY <1>1 DEF Money, CollatorsTyped, CollatorsType
<1>3. positions(c, who) = {}
  BY DEF register_as_candidate
<1>4. PICK f \in reserve(e, who, c.bond, now) :
          r = [coll |-> [c EXCEPT !.candidates = Append(@, [who |-> who, deposit |-> c.bond]),
                                  !.last_authored[who] = now + KickThreshold],
               escrow |-> f]
  BY DEF register_as_candidate
<1>5. PICK la, v, t, d :
          /\ la = [c.last_authored EXCEPT ![who] = now + KickThreshold]
          /\ v = [who |-> who, deposit |-> c.bond]
          /\ t = Append(s, v)
          /\ d = [c EXCEPT !.candidates = t, !.last_authored = la]
  OBVIOUS
<1>6. r.coll = d /\ r.escrow = f
  BY <1>1, <1>4, <1>5
<1>7. v \in CandidateType /\ v.who = who /\ v.deposit = c.bond
  BY <1>2, <1>5 DEF CandidateType
<1>8. t \in Seq(CandidateType) /\ Len(t) = Len(s) + 1 /\ Extends(s, t, v)
  BY <1>2, <1>5, <1>7, AppendExtends
<1>9. PICK n \in Nat : n = Len(s) /\ DOMAIN s = 1 .. n /\ DOMAIN t = 1 .. (n + 1) /\ t[n + 1] = v
                       /\ \A k \in 1 .. n : t[k] = s[k]
  <2>1. Len(s) \in Nat /\ DOMAIN s = 1 .. Len(s)
    BY <1>2, SeqListing
  <2>2. PICK n \in Nat : DOMAIN s = 1 .. n /\ DOMAIN t = 1 .. (n + 1) /\ t[n + 1] = v
                         /\ \A k \in 1 .. n : t[k] = s[k]
    BY <1>8 DEF Extends
  <2>3. n = Len(s)
    BY <1>2, <2>1, <2>2, LenProperties
  <2>. QED BY <2>2, <2>3
<1>10. la \in [Accounts -> Nat]
  BY <1>2, <1>5, CollatorAssumption
<1>11. d \in CollatorsType /\ d.candidates = t
  BY <1>2, <1>5, <1>8, <1>10 DEF CollatorsType
<1>12. /\ \A j \in 1 .. n : s[j].who # who
       /\ \A j, k \in 1 .. n : s[j].who = s[k].who => j = k
  BY <1>1, <1>2, <1>3, <1>9 DEF positions, CollatorsTyped
<1>13. CollatorsTyped(d)
  <2>1. ASSUME NEW j \in 1 .. (n + 1), NEW k \in 1 .. (n + 1), t[j].who = t[k].who PROVE j = k
    <3>1. \A y \in 1 .. (n + 1) : y \in 1 .. n \/ y = n + 1
      BY <1>9
    <3>. QED BY <1>7, <1>9, <1>12, <2>1, <3>1
  <2>. QED BY <1>9, <1>11, <2>1 DEF CollatorsTyped
<1>14. /\ f \in EscrowType
       /\ \A a \in Accounts : f.reserved[a] = e.reserved[a] + (IF a = who THEN c.bond ELSE 0)
  BY <1>2, <1>4, ReserveTyped
<1>15. ASSUME NEW a \in Accounts
       PROVE  bonded(d, a) = bonded(c, a) + (IF a = who THEN c.bond ELSE 0)
  <2>1. CASE a = who
    <3>1. bonded(d, a) = c.bond
      <4>1. n + 1 \in DOMAIN d.candidates /\ d.candidates[n + 1] = v
        BY <1>9, <1>11
      <4>. QED BY <1>7, <1>13, <2>1, <4>1, BondedOne
    <3>2. bonded(c, a) = 0
      BY <1>3, <2>1, BondedNone
    <3>. QED BY <1>2, <2>1, <3>1, <3>2
  <2>2. CASE a # who
    <3>1. bonded(c, a) \in Nat
      BY <1>2, BondedNat
    <3>2. CASE positions(c, a) = {}
      <4>1. \A j \in 1 .. n : s[j].who # a
        BY <1>1, <1>9, <3>2 DEF positions
      <4>2. \A k \in DOMAIN t : t[k].who # a
        <5>1. \A y \in 1 .. (n + 1) : y \in 1 .. n \/ y = n + 1
          BY <1>9
        <5>. QED BY <1>7, <1>9, <2>2, <4>1, <5>1
      <4>3. positions(d, a) = {}
        BY <1>11, <4>2 DEF positions
      <4>. QED BY <2>2, <3>2, <4>3, BondedNone
    <3>3. CASE positions(c, a) # {}
      <4>1. PICK j \in DOMAIN s : s[j].who = a
        BY <1>1, <3>3 DEF positions
      <4>2. j \in DOMAIN t /\ t[j] = s[j]
        BY <1>9
      <4>3. bonded(c, a) = s[j].deposit
        BY <1>1, <1>2, <4>1, BondedOne
      <4>4. bonded(d, a) = s[j].deposit
        BY <1>11, <1>13, <4>1, <4>2, BondedOne
      <4>. QED BY <2>2, <3>1, <4>3, <4>4
    <3>. QED BY <3>2, <3>3
  <2>. QED BY <2>1, <2>2
<1>16. Reserved(f, d, p.deposit)
  <2>1. ASSUME NEW a \in Accounts
        PROVE  f.reserved[a] = bonded(d, a) + deposited(p.deposit, a)
    <3>1. PICK x, y, z : x = bonded(c, a) /\ y = deposited(p.deposit, a) /\ z = IF a = who THEN c.bond ELSE 0
      OBVIOUS
    <3>2. x \in Nat /\ z \in Nat
      BY <1>2, <3>1, BondedNat
    <3>3. y \in Nat
      BY <1>2, <3>1, DepositedNat DEF PropsTyped
    <3>4. f.reserved[a] = x + y + z /\ bonded(d, a) = x + z
      BY <1>14, <1>15, <3>1 DEF Money, Reserved
    <3>. QED BY <3>1, <3>2, <3>3, <3>4
  <2>. QED BY <2>1 DEF Reserved
<1>17. Len(t) >= Len(s)
  BY <1>8, <1>9
<1>. QED BY <1>1, <1>2, <1>6, <1>11, <1>13, <1>14, <1>16, <1>17 DEF Money

(* However many candidates a session kicks, their bonds go with them and   *)
(* MinCandidates remain.                                                   *)
LEMMA KickMoney ==
    ASSUME NEW e, NEW p, NEW c, Money(e, p, c), NEW now \in Nat
    PROVE  LET s == kick_stale_candidates(c, e, now) IN
           /\ Money(s.escrow, p, s.coll)
           /\ Len(s.coll.candidates) >= min(Len(c.candidates), MinCandidates)
<1>1. PICK before, N : before = c.candidates /\ N = Len(before)
  OBVIOUS
<1>2. /\ e \in EscrowType /\ CollatorsTyped(c) /\ c \in CollatorsType /\ PropsTyped(p)
      /\ before \in Seq(CandidateType) /\ MinCandidates \in Nat
  BY <1>1, CollatorAssumption DEF Money, CollatorsTyped, CollatorsType
<1>3. N \in Nat /\ DOMAIN before = 1 .. N /\ \A k \in 1 .. N : before[k].who \in Accounts
  <2>1. N \in Nat /\ DOMAIN before = 1 .. N /\ \A k \in 1 .. N : before[k] \in CandidateType
    BY <1>1, <1>2, SeqListing
  <2>. QED BY <2>1 DEF CandidateType
<1>4. PICK x : x = [a \in Accounts |-> deposited(p.deposit, a)]
  OBVIOUS
<1>5. \A a \in Accounts : x[a] \in Nat /\ x[a] = deposited(p.deposit, a)
  BY <1>2, <1>4, DepositedNat DEF PropsTyped
<1>. DEFINE Good(s, k) == \/ is_good_collator(s.coll, s.escrow, before[k].who, now)
                          \/ ~has_surplus(s.coll, before)
            body(k, s) == IF Good(s, k) THEN s
                          ELSE CHOOSE r \in try_remove_candidate(s.coll, s.escrow, before[k].who) : TRUE
            IsKicked(f) == f = [k \in 0 .. N |-> IF k = 0 THEN [coll |-> c, escrow |-> e]
                                                 ELSE body(k, f[k - 1])]
            kicked == CHOOSE f : IsKicked(f)
            After(k) == {s \in [coll : CollatorsType, escrow : EscrowType] :
                /\ CollatorsTyped(s.coll)
                /\ \A a \in Accounts : s.escrow.reserved[a] = bonded(s.coll, a) + x[a]
                /\ Len(s.coll.candidates) \in Nat
                /\ Len(s.coll.candidates) >= min(N, MinCandidates)
                /\ \A j \in (k + 1) .. N : positions(s.coll, before[j].who) # {}}
<1>6. kick_stale_candidates(c, e, now) = kicked[N]
  BY <1>1 DEF kick_stale_candidates
<1>7. [coll |-> c, escrow |-> e] \in After(0)
  <2>1. \A a \in Accounts : e.reserved[a] = bonded(c, a) + x[a]
    BY <1>5 DEF Money, Reserved
  <2>2. \A j \in 1 .. N : positions(c, before[j].who) # {}
    BY <1>1, <1>3 DEF positions
  <2>3. N >= min(N, MinCandidates)
    BY <1>2, <1>3 DEF min
  <2>. QED BY <1>1, <1>2, <1>3, <2>1, <2>2, <2>3
<1>8. ASSUME NEW k \in 1 .. N, NEW s \in After(k - 1)
      PROVE  body(k, s) \in After(k)
  <2>1. /\ s \in [coll : CollatorsType, escrow : EscrowType]
        /\ CollatorsTyped(s.coll)
        /\ \A a \in Accounts : s.escrow.reserved[a] = bonded(s.coll, a) + x[a]
        /\ Len(s.coll.candidates) \in Nat
        /\ Len(s.coll.candidates) >= min(N, MinCandidates)
        /\ \A j \in k .. N : positions(s.coll, before[j].who) # {}
    BY <1>3, <1>8
  <2>2. \A j \in (k + 1) .. N : j \in k .. N /\ j # k
    BY <1>3
  <2>3. CASE Good(s, k)
    <3>1. body(k, s) = s
      BY <2>3
    <3>2. \A j \in (k + 1) .. N : positions(s.coll, before[j].who) # {}
      BY <2>1, <2>2
    <3>. QED BY <2>1, <3>1, <3>2
  <2>4. CASE ~Good(s, k)
    <3>1. PICK r : r = body(k, s)
      OBVIOUS
    <3>2. PICK who : who = before[k].who
      OBVIOUS
    <3>3. who \in Accounts /\ positions(s.coll, who) # {}
      BY <1>3, <2>1, <3>2
    <3>4. try_remove_candidate(s.coll, s.escrow, who) # {}
      BY <3>3 DEF try_remove_candidate
    <3>5. r \in try_remove_candidate(s.coll, s.escrow, who)
      BY <2>4, <3>1, <3>2, <3>4
    <3>6. s.coll \in CollatorsType /\ s.escrow \in EscrowType
      BY <2>1
    <3>7. /\ r = [coll |-> r.coll, escrow |-> r.escrow]
          /\ CollatorsTyped(r.coll) /\ r.escrow \in EscrowType
          /\ \A a \in Accounts : r.escrow.reserved[a] = bonded(r.coll, a) + x[a]
          /\ Len(r.coll.candidates) = Len(s.coll.candidates) - 1
          /\ \A b \in Accounts : b # who /\ positions(s.coll, b) # {} => positions(r.coll, b) # {}
      <4>. HIDE DEF Good, body, IsKicked, kicked, After
      <4>1. CollatorsTyped(s.coll) /\ s.escrow \in EscrowType /\ who \in Accounts
        BY <2>1, <3>3, <3>6
      <4>2. \A a \in Accounts : x[a] \in Nat /\ s.escrow.reserved[a] = bonded(s.coll, a) + x[a]
        BY <1>5, <2>1
      <4>. QED BY <4>1, <4>2, <3>5, RemoveCandidate, SMTT(30)
    <3>8. Len(s.coll.candidates) > MinCandidates
      BY <2>4 DEF has_surplus
    <3>9. Len(r.coll.candidates) \in Nat /\ Len(r.coll.candidates) >= min(N, MinCandidates)
      BY <1>2, <1>3, <2>1, <3>7, <3>8 DEF min
    <3>10. ASSUME NEW j \in (k + 1) .. N PROVE positions(r.coll, before[j].who) # {}
      <4>1. j \in DOMAIN before /\ k \in DOMAIN before /\ j # k
        BY <1>3, <2>2
      <4>2. before[j].who # who
        BY <1>1, <1>2, <3>2, <4>1 DEF CollatorsTyped
      <4>3. positions(s.coll, before[j].who) # {}
        BY <2>1, <2>2
      <4>4. before[j].who \in Accounts
        BY <1>3, <4>1
      <4>. QED BY <3>7, <4>2, <4>3, <4>4
    <3>11. r \in [coll : CollatorsType, escrow : EscrowType]
      <4>1. r.coll \in CollatorsType
        BY <3>7 DEF CollatorsTyped
      <4>. QED BY <3>7, <4>1
    <3>12. r \in After(k)
      BY <3>7, <3>9, <3>10, <3>11
    <3>. QED BY <3>1, <3>12
  <2>. QED BY <2>3, <2>4
<1>9. PICK start : start = [coll |-> c, escrow |-> e]
  OBVIOUS
<1>. DEFINE U == UNION {After(k) : k \in 0 .. N}
            F == [q \in (1 .. N) \X U |-> body(q[1], q[2])]
            T == [k \in 0 .. N |-> After(k)]
<1>10. IsKicked(kicked) <=> kicked = [k \in 0 .. N |-> IF k = 0 THEN start ELSE body(k, kicked[k - 1])]
  BY <1>9
<1>. HIDE DEF After, body
<1>11. ASSUME NEW k \in 1 .. N, NEW s \in After(k - 1)
       PROVE  F[<<k, s>>] = body(k, s) /\ F[<<k, s>>] \in After(k)
  <2>1. k - 1 \in 0 .. N
    BY <1>3
  <2>2. <<k, s>> \in (1 .. N) \X U
    BY <2>1
  <2>. HIDE DEF U
  <2>3. F[<<k, s>>] = body(k, s)
    BY <2>2
  <2>. QED BY <1>8, <2>3
<1>. HIDE DEF F
<1>12. start \in T[0] /\ \A k \in 1 .. N : \A s \in T[k - 1] : F[<<k, s>>] \in T[k]
  <2>1. 0 \in 0 .. N /\ \A k \in 1 .. N : k \in 0 .. N /\ k - 1 \in 0 .. N
    BY <1>3
  <2>. QED BY <1>7, <1>9, <1>11, <2>1
<1>13. PICK g : Recursion(g, start, F, N)
  BY <1>3, RecursionExists
<1>14. \A k \in 0 .. N : g[k] \in After(k)
  <2>1. \A k \in 0 .. N : g[k] \in T[k]
    BY <1>3, <1>12, <1>13, RecursionInvariant, Zenon
  <2>. QED BY <2>1
<1>15. IsKicked(g)
  <2>1. \A k \in 0 .. N : k # 0 => k \in 1 .. N /\ k - 1 \in 0 .. N
    BY <1>3
  <2>2. \A k \in 0 .. N : k # 0 => F[<<k, g[k - 1]>>] = body(k, g[k - 1])
    BY <1>11, <1>14, <2>1
  <2>. QED BY <1>9, <1>13, <2>2, Zenon DEF Recursion
<1>16. IsKicked(kicked)
  <2>. HIDE DEF IsKicked
  <2>. QED BY <1>15, Zenon
<1>. HIDE DEF kicked
<1>17. kicked[N] \in After(N)
  <2>. DEFINE S == {n \in Nat : n <= N => kicked[n] \in After(n)}
  <2>1. 0 \in S
    BY <1>3, <1>7, <1>16
  <2>2. ASSUME NEW n \in Nat, n \in S PROVE n + 1 \in S
    <3>1. SUFFICES ASSUME n + 1 <= N PROVE kicked[n + 1] \in After(n + 1)
      OBVIOUS
    <3>2. n + 1 \in 1 .. N /\ n + 1 \in 0 .. N /\ (n + 1) - 1 = n /\ n + 1 # 0 /\ n <= N
      BY <1>3, <3>1
    <3>3. kicked[n + 1] = body(n + 1, kicked[n])
      BY <1>16, <3>2
    <3>4. kicked[n] \in After(n)
      BY <2>2, <3>2
    <3>. QED BY <1>8, <3>2, <3>3, <3>4
  <2>. HIDE DEF S
  <2>3. Nat \subseteq S
    BY <2>1, <2>2, NatSetInduction
  <2>. QED BY <1>3, <2>3 DEF S
<1>18. PICK z : z = kick_stale_candidates(c, e, now)
  OBVIOUS
<1>19. z \in After(N)
  BY <1>6, <1>17, <1>18
<1>20. /\ z.escrow \in EscrowType /\ CollatorsTyped(z.coll)
       /\ \A a \in Accounts : z.escrow.reserved[a] = bonded(z.coll, a) + x[a]
       /\ Len(z.coll.candidates) >= min(N, MinCandidates)
  BY <1>19 DEF After
<1>21. Money(z.escrow, p, z.coll)
  BY <1>2, <1>5, <1>20 DEF Money, Reserved
<1>. QED BY <1>1, <1>18, <1>20, <1>21

LEMMA NoteAuthorMoney ==
    ASSUME NEW e, NEW p, NEW c, Money(e, p, c), NEW author \in Accounts, NEW now \in Nat
    PROVE  Money(e, p, note_author(c, author, now)) /\ note_author(c, author, now).candidates = c.candidates
<1>1. c \in CollatorsType /\ c.pot \in Nat /\ c.last_authored \in [Accounts -> Nat]
  BY DEF Money, CollatorsTyped, CollatorsType
<1>2. PICK la, s, pot : /\ la = [c.last_authored EXCEPT ![author] = now]
                        /\ s = saturating_sub(c.pot, ExistentialDeposit)
                        /\ pot = c.pot - (s \div 2)
  OBVIOUS
<1>3. ExistentialDeposit \in Nat
  BY CollatorAssumption
<1>4. s \in Nat /\ s <= c.pot
  BY <1>1, <1>2, <1>3 DEF saturating_sub
<1>5. la \in [Accounts -> Nat] /\ pot \in Nat
  BY <1>1, <1>2, <1>4
<1>6. PICK d : d = [c EXCEPT !.pot = pot, !.last_authored = la]
  OBVIOUS
<1>7. note_author(c, author, now) = d
  BY <1>2, <1>6 DEF note_author
<1>8. d \in CollatorsType /\ d.candidates = c.candidates
  BY <1>1, <1>5, <1>6 DEF CollatorsType
<1>. QED BY <1>7, <1>8, CollatorsChanged

LEMMA LeaveMoney ==
    ASSUME NEW e, NEW p, NEW c, Money(e, p, c), NEW who \in Accounts, NEW r \in leave_intent(c, e, who)
    PROVE  /\ Money(r.escrow, p, r.coll)
           /\ Len(r.coll.candidates) >= min(Len(c.candidates), MinCandidates)
<1>1. /\ e \in EscrowType /\ CollatorsTyped(c) /\ PropsTyped(p) /\ MinCandidates \in Nat
      /\ c.candidates \in Seq(CandidateType)
  BY CollatorAssumption DEF Money, CollatorsTyped, CollatorsType
<1>2. PICK x : x = [a \in Accounts |-> deposited(p.deposit, a)]
  OBVIOUS
<1>3. \A a \in Accounts : x[a] \in Nat /\ x[a] = deposited(p.deposit, a)
  BY <1>1, <1>2, DepositedNat DEF PropsTyped
<1>4. \A a \in Accounts : e.reserved[a] = bonded(c, a) + x[a]
  BY <1>3 DEF Money, Reserved
<1>5. r \in try_remove_candidate(c, e, who) /\ Len(c.candidates) > MinCandidates
  BY DEF leave_intent
<1>6. /\ CollatorsTyped(r.coll) /\ r.escrow \in EscrowType
      /\ \A a \in Accounts : r.escrow.reserved[a] = bonded(r.coll, a) + x[a]
      /\ Len(r.coll.candidates) = Len(c.candidates) - 1
  BY <1>1, <1>3, <1>4, <1>5, RemoveCandidate
<1>7. Money(r.escrow, p, r.coll)
  BY <1>1, <1>3, <1>6 DEF Money, Reserved
<1>8. Len(c.candidates) \in Nat
  BY <1>1, SeqListing
<1>9. Len(r.coll.candidates) >= min(Len(c.candidates), MinCandidates)
  BY <1>1, <1>5, <1>6, <1>8 DEF min
<1>. QED BY <1>7, <1>9

-----------------------------------------------------------------------------
(* Proposals and what is reserved for them                                 *)

LEMMA PropsRecord ==
    ASSUME NEW n, NEW s, NEW d, NEW q, q = [count |-> n, public |-> s, deposit |-> d]
    PROVE  q.count = n /\ q.public = s /\ q.deposit = d
OBVIOUS

LEMMA EscrowChanged ==
    ASSUME NEW e, NEW p, NEW c, Money(e, p, c), NEW f \in EscrowType, f.reserved = e.reserved
    PROVE  Money(f, p, c)
BY DEF Money, Reserved

LEMMA ProposeMoney ==
    ASSUME NEW e, NEW p, NEW c, Money(e, p, c), NEW who \in Accounts, NEW proposal \in Proposals,
           NEW value \in Nat, NEW now, NEW f \in reserve(e, who, value, now),
           NEW q, q = [count |-> p.count + 1,
                       public |-> Append(p.public,
                                         [index |-> p.count, call |-> proposal, proposer |-> who]),
                       deposit |-> with(p.deposit, p.count, [whos |-> <<who>>, amount |-> value])]
    PROVE  /\ Money(f, q, c)
           /\ Extends(p.public, q.public, [index |-> p.count, call |-> proposal, proposer |-> who])
<1>1. /\ e \in EscrowType /\ CollatorsTyped(c)
      /\ p.count \in Nat /\ p.public \in Seq(PropType) /\ DepositsTyped(p.deposit)
      /\ \A i \in DOMAIN p.deposit : i \in Nat /\ i < p.count
      /\ \A x \in DOMAIN p.public : p.public[x].index \in DOMAIN p.deposit
      /\ \A x, y \in DOMAIN p.public : x # y => p.public[x].index # p.public[y].index
  BY DEF Money, PropsTyped
<1>2. PICK prop, v, n : /\ prop = [index |-> p.count, call |-> proposal, proposer |-> who]
                        /\ v = [whos |-> <<who>>, amount |-> value]
                        /\ n = p.count
  OBVIOUS
<1>3. PICK s, t, d, g : s = p.public /\ t = Append(s, prop) /\ d = p.deposit /\ g = with(d, n, v)
  OBVIOUS
<1>4. q = [count |-> n + 1, public |-> t, deposit |-> g] /\ q.count = n + 1 /\ q.public = t /\ q.deposit = g
  BY <1>2, <1>3
<1>5. prop \in PropType /\ prop.index = n
  BY <1>1, <1>2 DEF PropType
<1>6. t \in Seq(PropType) /\ Extends(s, t, prop)
  BY <1>1, <1>3, <1>5, AppendExtends
<1>7. <<who>> \in Seq(Accounts) /\ \A a : times(<<who>>, a) = IF a = who THEN 1 ELSE 0
  BY TimesOne
<1>8. v \in DepositType /\ v.amount = value /\ v.whos = <<who>>
  BY <1>2, <1>7 DEF DepositType
<1>9. n \notin DOMAIN d
  BY <1>1, <1>2, <1>3
<1>10. DepositsTyped(g) /\ \A a : deposited(g, a) = deposited(d, a) + held(v, a)
  BY <1>1, <1>3, <1>8, <1>9, DepositedWith
<1>11. \A a : held(v, a) = IF a = who THEN value ELSE 0
  <2>1. value * 1 = value /\ value * 0 = 0
    OBVIOUS
  <2>. QED BY <1>7, <1>8, <2>1 DEF held
<1>12. DOMAIN g = DOMAIN d \cup {n}
  BY <1>3 DEF with
<1>13. PICK m \in Nat : /\ DOMAIN s = 1 .. m /\ DOMAIN t = 1 .. (m + 1) /\ t[m + 1] = prop
                        /\ \A k \in 1 .. m : t[k] = s[k]
  BY <1>6 DEF Extends
<1>14. \A k \in 1 .. (m + 1) : k \in 1 .. m \/ k = m + 1
  OBVIOUS
<1>15. PropsTyped(q)
  <2>1. \A i \in DOMAIN g : i \in Nat /\ i < n + 1
    BY <1>1, <1>2, <1>3, <1>12
  <2>2. \A x \in DOMAIN t : t[x].index \in DOMAIN g
    BY <1>1, <1>3, <1>5, <1>12, <1>13, <1>14
  <2>3. \A x \in DOMAIN s : s[x].index \in DOMAIN d /\ s[x].index # n
    BY <1>1, <1>3, <1>9
  <2>4. ASSUME NEW x \in DOMAIN t, NEW y \in DOMAIN t, x # y PROVE t[x].index # t[y].index
    BY <1>1, <1>3, <1>5, <1>13, <1>14, <2>3, <2>4
  <2>5. /\ q = [count |-> q.count, public |-> q.public, deposit |-> q.deposit]
        /\ q.count \in Nat /\ q.public \in Seq(PropType) /\ DepositsTyped(q.deposit)
    BY <1>1, <1>2, <1>4, <1>6, <1>10
  <2>. QED BY <1>4, <2>1, <2>2, <2>4, <2>5, Zenon DEF PropsTyped
<1>16. f \in EscrowType /\ \A a \in Accounts : f.reserved[a] = e.reserved[a] + (IF a = who THEN value ELSE 0)
  BY <1>1, ReserveTyped
<1>17. Reserved(f, c, g)
  <2>1. ASSUME NEW a \in Accounts PROVE f.reserved[a] = bonded(c, a) + deposited(g, a)
    <3>1. PICK x, y, z : x = bonded(c, a) /\ y = deposited(d, a) /\ z = IF a = who THEN value ELSE 0
      OBVIOUS
    <3>2. x \in Nat /\ y \in Nat /\ z \in Nat
      BY <1>1, <1>3, <3>1, BondedNat, DepositedNat
    <3>3. f.reserved[a] = x + y + z /\ deposited(g, a) = y + z
      BY <1>3, <1>10, <1>11, <1>16, <3>1 DEF Money, Reserved
    <3>. QED BY <3>1, <3>2, <3>3
  <2>. QED BY <2>1 DEF Reserved
<1>. QED BY <1>1, <1>2, <1>3, <1>4, <1>6, <1>15, <1>16, <1>17 DEF Money

propsSeconded(p, index, who) == [p EXCEPT !.deposit[index].whos = Append(@, who)]

LEMMA SecondMoney ==
    ASSUME NEW e, NEW p, NEW c, Money(e, p, c), NEW who \in Accounts, NEW index \in DOMAIN p.deposit,
           NEW now, NEW f \in reserve(e, who, p.deposit[index].amount, now),
           NEW q, q = propsSeconded(p, index, who)
    PROVE  Money(f, q, c) /\ q.public = p.public
<1>1. /\ e \in EscrowType /\ CollatorsTyped(c) /\ PropsTyped(p)
      /\ p = [count |-> p.count, public |-> p.public, deposit |-> p.deposit]
      /\ DepositsTyped(p.deposit)
  BY DEF Money, PropsTyped
<1>2. PICK d, g, m : d = p.deposit /\ g = seconded(d, index, who) /\ m = d[index].amount
  OBVIOUS
<1>3. q = [count |-> p.count, public |-> p.public, deposit |-> g]
  BY <1>1, <1>2 DEF seconded, propsSeconded
<1>4. q.count = p.count /\ q.public = p.public /\ q.deposit = g
  BY <1>3
<1>5. m \in Nat
  BY <1>1, <1>2 DEF DepositsTyped, DepositType
<1>6. /\ DepositsTyped(g) /\ DOMAIN g = DOMAIN d
      /\ \A a : deposited(g, a) = deposited(d, a) + (IF a = who THEN m ELSE 0)
  <2>1. DepositsTyped(d) /\ index \in DOMAIN d
    BY <1>1, <1>2
  <2>2. ASSUME NEW a
        PROVE  /\ DepositsTyped(g) /\ DOMAIN g = DOMAIN d
               /\ deposited(g, a) = deposited(d, a) + (IF a = who THEN m ELSE 0)
    <3>1. g = seconded(d, index, who)
      BY <1>2
    <3>2. deposited(g, a) = deposited(d, a) + (IF a = who THEN d[index].amount ELSE 0)
      BY <2>1, <3>1, DepositedSecond
    <3>3. DepositsTyped(g) /\ DOMAIN g = DOMAIN d
      BY <2>1, <3>1, DepositedSecond
    <3>. QED BY <1>2, <3>2, <3>3
  <2>. QED BY <2>2
<1>7. PropsTyped(q)
  BY <1>1, <1>2, <1>3, <1>4, <1>6 DEF PropsTyped
<1>8. f \in EscrowType /\ \A a \in Accounts : f.reserved[a] = e.reserved[a] + (IF a = who THEN m ELSE 0)
  BY <1>1, <1>2, <1>5, ReserveTyped
<1>9. Reserved(f, c, g)
  <2>1. ASSUME NEW a \in Accounts PROVE f.reserved[a] = bonded(c, a) + deposited(g, a)
    <3>1. PICK x, y, z : x = bonded(c, a) /\ y = deposited(d, a) /\ z = IF a = who THEN m ELSE 0
      OBVIOUS
    <3>2. x \in Nat /\ y \in Nat /\ z \in Nat
      BY <1>1, <1>2, <1>5, <3>1, BondedNat, DepositedNat
    <3>3. f.reserved[a] = x + y + z /\ deposited(g, a) = y + z
      BY <1>2, <1>6, <1>8, <3>1 DEF Money, Reserved
    <3>. QED BY <3>1, <3>2, <3>3
  <2>. QED BY <2>1 DEF Reserved
<1>. QED BY <1>1, <1>4, <1>7, <1>8, <1>9 DEF Money

LEMMA ClearMoney ==
    ASSUME NEW e, NEW p, NEW c, Money(e, p, c), NEW q, q = [p EXCEPT !.public = <<>>]
    PROVE  Money(e, q, c) /\ q.public = <<>>
<1>1. PropsTyped(p) /\ p = [count |-> p.count, public |-> p.public, deposit |-> p.deposit]
  BY DEF Money, PropsTyped
<1>2. q = [count |-> p.count, public |-> <<>>, deposit |-> p.deposit]
  BY <1>1
<1>3. q.count = p.count /\ q.public = <<>> /\ q.deposit = p.deposit
  BY <1>2
<1>4. <<>> \in Seq(PropType) /\ DOMAIN <<>> = {}
  BY EmptySeq
<1>5. PropsTyped(q)
  BY <1>1, <1>2, <1>3, <1>4 DEF PropsTyped
<1>. QED BY <1>3, <1>5 DEF Money

(* A proposal leaves the queue and its depositors have their deposits back.*)
dropped(p, t, index) == [p EXCEPT !.public = t, !.deposit = without(@, index)]

LEMMA DropProposalMoney ==
    ASSUME NEW e, NEW p, NEW c, Money(e, p, c), NEW i \in DOMAIN p.public,
           NEW index, index = p.public[i].index,
           NEW t \in Seq(PropType), Dropped(p.public, t, i),
           NEW q, q = dropped(p, t, index)
    PROVE  Money(unreserve_all(e, p.deposit[index]), q, c) /\ q.public = t
<1>1. /\ e \in EscrowType /\ CollatorsTyped(c) /\ DepositsTyped(p.deposit)
      /\ p = [count |-> p.count, public |-> p.public, deposit |-> p.deposit]
      /\ p.count \in Nat
      /\ \A j \in DOMAIN p.deposit : j \in Nat /\ j < p.count
      /\ \A x \in DOMAIN p.public : p.public[x].index \in DOMAIN p.deposit
      /\ \A x, y \in DOMAIN p.public : x # y => p.public[x].index # p.public[y].index
  BY DEF Money, PropsTyped
<1>2. PICK s, d, g, v, f : /\ s = p.public /\ d = p.deposit /\ g = without(d, index) /\ v = d[index]
                           /\ f = unreserve_all(e, v)
  OBVIOUS
<1>3. q = [count |-> p.count, public |-> t, deposit |-> g]
  BY <1>1, <1>2 DEF dropped
<1>4. q.count = p.count /\ q.public = t /\ q.deposit = g
  BY <1>3, PropsRecord
<1>5. index \in DOMAIN d /\ v \in DepositType
  BY <1>1, <1>2 DEF DepositsTyped
<1>6. DepositsTyped(g) /\ \A a : deposited(d, a) = deposited(g, a) + held(v, a)
  BY <1>1, <1>2, <1>5, DepositedWithout
<1>7. DOMAIN g = DOMAIN d \ {index}
  BY <1>2 DEF without
<1>8. Kept(s, t, i)
  BY <1>2, DroppedElements
<1>9. PropsTyped(q)
  <2>1. ASSUME NEW x \in DOMAIN t PROVE t[x].index \in DOMAIN g
    <3>1. PICK j \in DOMAIN s \ {i} : t[x] = s[j]
      BY <1>8 DEF Kept
    <3>2. s[j].index \in DOMAIN d /\ s[j].index # index
      BY <1>1, <1>2, <3>1
    <3>. QED BY <1>7, <3>1, <3>2
  <2>2. ASSUME NEW x \in DOMAIN t, NEW y \in DOMAIN t, x # y PROVE t[x].index # t[y].index
    <3>1. PICK j \in DOMAIN s \ {i}, k \in DOMAIN s \ {i} : j # k /\ t[x] = s[j] /\ t[y] = s[k]
      BY <1>8, <2>2 DEF Kept
    <3>. QED BY <1>1, <1>2, <3>1
  <2>. QED BY <1>1, <1>2, <1>3, <1>4, <1>6, <1>7, <2>1, <2>2 DEF PropsTyped
<1>10. f \in EscrowType /\ \A a \in Accounts : f.reserved[a] = saturating_sub(e.reserved[a], held(v, a))
  BY <1>1, <1>2, <1>5, UnreserveAllTyped
<1>11. Reserved(f, c, g)
  <2>1. ASSUME NEW a \in Accounts PROVE f.reserved[a] = bonded(c, a) + deposited(g, a)
    <3>1. PICK x, y, z : x = bonded(c, a) /\ y = deposited(g, a) /\ z = held(v, a)
      OBVIOUS
    <3>2. x \in Nat /\ y \in Nat /\ z \in Nat
      BY <1>1, <1>5, <1>6, <3>1, BondedNat, DepositedNat, HeldNat, SMTT(60)
    <3>3. f.reserved[a] = saturating_sub(x + (y + z), z)
      BY <1>2, <1>6, <1>10, <3>1 DEF Money, Reserved
    <3>4. saturating_sub(x + (y + z), z) = x + y
      BY <3>2 DEF saturating_sub
    <3>. QED BY <3>1, <3>3, <3>4
  <2>. QED BY <2>1 DEF Reserved
<1>. QED BY <1>1, <1>2, <1>4, <1>9, <1>10, <1>11 DEF Money

-----------------------------------------------------------------------------
(* Launching referenda                                                     *)

NewRef(end, proposal, delay) ==
    [state |-> "ongoing", end |-> end, proposal |-> proposal, delay |-> delay, tally |-> NoTally]

LEMMA NewRefTyped ==
    ASSUME NEW end \in Nat, NEW proposal \in Proposals, NEW delay \in Nat
    PROVE  LET r == NewRef(end, proposal, delay) IN
           /\ r \in OngoingType /\ r \in RefType /\ Ongoing(r) /\ r.end = end /\ r.tally = NoTally
           /\ \A p : r \in Asking(p) <=> proposal = p
BY DEF NewRef, OngoingType, TallyType, NoTally, RefType, Ongoing, Asking

(* A proposal turns into a referendum: its depositors are paid back, and   *)
(* its hold is the referendum's.                                           *)
Launched(start, st, c, now) ==
    /\ st = [props |-> st.props, escrow |-> st.escrow, refs |-> st.refs]
    /\ Money(st.escrow, st.props, c) /\ st.refs \in Seq(RefType)
    /\ DOMAIN start.refs \subseteq DOMAIN st.refs
    /\ \A i \in DOMAIN start.refs : st.refs[i] = start.refs[i]
    /\ \A i \in DOMAIN st.refs \ DOMAIN start.refs :
          /\ st.refs[i] \in OngoingType /\ st.refs[i].tally = NoTally
          /\ Mature(st.refs[i], now)
    /\ \A p \in Proposals : Count(st.props.public, Calling(p)) + Count(st.refs, Asking(p))
                            = Count(start.props.public, Calling(p)) + Count(start.refs, Asking(p))

LEMMA TableLaunches ==
    ASSUME NEW start, NEW st, NEW c, NEW now \in Nat, Launched(start, st, c, now),
           NEW i \in DOMAIN st.props.public, NEW period \in 1 .. VotingPeriod, NEW delay \in Nat
    PROVE  Launched(start, table(st, i, now + period, delay), c, now)
<1>1. PICK p, e, rs, public : p = st.props /\ e = st.escrow /\ rs = st.refs /\ public = p.public
  OBVIOUS
<1>2. /\ Money(e, p, c) /\ rs \in Seq(RefType) /\ public \in Seq(PropType) /\ i \in DOMAIN public
      /\ VotingPeriod \in Nat
  BY <1>1, DemocracyAssumption DEF Launched, Money, PropsTyped
<1>3. PICK prop, t, q, f, end, r, rt :
          /\ prop = public[i] /\ t = swap_remove(public, i) /\ q = dropped(p, t, prop.index)
          /\ f = unreserve_all(e, p.deposit[prop.index])
          /\ end = now + period
          /\ r = NewRef(end, prop.call, delay)
          /\ rt = Append(rs, r)
  OBVIOUS
<1>4. PICK new : new = table(st, i, now + period, delay)
  OBVIOUS
<1>5. new = [props |-> q, escrow |-> f, refs |-> rt]
  BY <1>1, <1>3, <1>4 DEF table, dropped, inject_referendum, NewRef
<1>6. new.props = q /\ new.escrow = f /\ new.refs = rt
  BY <1>5
<1>7. prop \in PropType /\ prop.call \in Proposals
  <2>1. prop \in PropType
    BY <1>2, <1>3, SeqListing
  <2>. QED BY <2>1 DEF PropType
<1>8. t \in Seq(PropType) /\ Dropped(public, t, i)
  BY <1>2, <1>3, SwapRemoveDropped
<1>9. Money(f, q, c) /\ q.public = t
  <2>1. PICK index : index = prop.index
    OBVIOUS
  <2>2. i \in DOMAIN p.public /\ index = p.public[i].index /\ Dropped(p.public, t, i)
    BY <1>1, <1>2, <1>3, <1>8, <2>1
  <2>3. q = dropped(p, t, index) /\ f = unreserve_all(e, p.deposit[index])
    BY <1>3, <2>1
  <2>4. Money(unreserve_all(e, p.deposit[index]), q, c) /\ q.public = t
    BY <1>2, <1>8, <2>2, <2>3, DropProposalMoney
  <2>. QED BY <2>3, <2>4
<1>10. end \in Nat /\ end \in (now + 1) .. (now + VotingPeriod)
  BY <1>2, <1>3
<1>11. /\ r \in OngoingType /\ r \in RefType /\ Ongoing(r) /\ r.end = end /\ r.tally = NoTally
       /\ \A x : r \in Asking(x) <=> prop.call = x
  BY <1>3, <1>7, <1>10, NewRefTyped
<1>12. rt \in Seq(RefType) /\ Extends(rs, rt, r)
  BY <1>2, <1>3, <1>11, AppendExtends
<1>13. PICK n \in Nat : /\ DOMAIN rs = 1 .. n /\ DOMAIN rt = 1 .. (n + 1) /\ rt[n + 1] = r
                        /\ \A k \in 1 .. n : rt[k] = rs[k]
  BY <1>12 DEF Extends
<1>14. /\ DOMAIN start.refs \subseteq 1 .. n
       /\ \A k \in DOMAIN start.refs : rs[k] = start.refs[k]
       /\ \A k \in (1 .. n) \ DOMAIN start.refs :
             rs[k] \in OngoingType /\ rs[k].tally = NoTally /\ Mature(rs[k], now)
  BY <1>1, <1>13 DEF Launched
<1>15. Mature(r, now)
  BY <1>10, <1>11 DEF Mature
<1>16. \A k \in 1 .. (n + 1) : k \in 1 .. n \/ k = n + 1
  OBVIOUS
<1>17. /\ DOMAIN start.refs \subseteq DOMAIN rt
       /\ \A k \in DOMAIN start.refs : rt[k] = start.refs[k]
       /\ \A k \in DOMAIN rt \ DOMAIN start.refs :
             rt[k] \in OngoingType /\ rt[k].tally = NoTally /\ Mature(rt[k], now)
  BY <1>11, <1>13, <1>14, <1>15, <1>16
<1>18. ASSUME NEW x \in Proposals
       PROVE  Count(t, Calling(x)) + Count(rt, Asking(x))
              = Count(start.props.public, Calling(x)) + Count(start.refs, Asking(x))
  <2>1. Count(rt, Asking(x)) = Count(rs, Asking(x)) + (IF prop.call = x THEN 1 ELSE 0)
    <3>1. Count(rt, Asking(x)) = Count(rs, Asking(x)) + (IF r \in Asking(x) THEN 1 ELSE 0)
      BY <1>12, CountExtended
    <3>. QED BY <1>11, <3>1
  <2>2. Count(public, Calling(x)) = Count(t, Calling(x)) + (IF prop.call = x THEN 1 ELSE 0)
    <3>1. Count(public, Calling(x)) = Count(t, Calling(x)) + (IF public[i] \in Calling(x) THEN 1 ELSE 0)
      BY <1>8, CountDropped
    <3>2. public[i] \in Calling(x) <=> prop.call = x
      BY <1>3, <1>7 DEF Calling
    <3>. QED BY <3>1, <3>2
  <2>3. Listing(rs) /\ Listing(t)
    BY <1>2, <1>8, SeqListing
  <2>4. Count(rs, Asking(x)) \in Nat /\ Count(t, Calling(x)) \in Nat
    BY <2>3, CountNat
  <2>5. Count(public, Calling(x)) + Count(rs, Asking(x))
        = Count(start.props.public, Calling(x)) + Count(start.refs, Asking(x))
    BY <1>1 DEF Launched
  <2>. QED BY <2>1, <2>2, <2>4, <2>5
<1>. QED BY <1>4, <1>5, <1>6, <1>9, <1>12, <1>17, <1>18 DEF Launched

(* Of finitely many numbers there is a largest one, the last of equals.    *)
LEMMA BestExists ==
    ASSUME NEW b, NEW n \in Nat \ {0}, \A k \in 1 .. n : b[k] \in Nat
    PROVE  \E i \in 1 .. n : \A j \in 1 .. n : b[i] > b[j] \/ (b[i] = b[j] /\ i >= j)
<1>. DEFINE Best(m, i) == \A j \in 1 .. m : b[i] > b[j] \/ (b[i] = b[j] /\ i >= j)
            S == {m \in Nat : m < n => \E i \in 1 .. (m + 1) : Best(m + 1, i)}
<1>1. 0 \in S
  <2>1. Best(1, 1)
    OBVIOUS
  <2>. QED BY <2>1
<1>2. ASSUME NEW m \in Nat, m \in S PROVE m + 1 \in S
  <2>1. SUFFICES ASSUME m + 1 < n PROVE \E i \in 1 .. (m + 2) : Best(m + 2, i)
    OBVIOUS
  <2>2. PICK i \in 1 .. (m + 1) : Best(m + 1, i)
    BY <1>2, <2>1
  <2>3. \A j \in 1 .. (m + 2) : b[j] \in Nat /\ (j \in 1 .. (m + 1) \/ j = m + 2)
    BY <2>1
  <2>4. i \in 1 .. (m + 2) /\ m + 2 \in 1 .. (m + 2)
    OBVIOUS
  <2>5. CASE b[i] > b[m + 2]
    <3>1. Best(m + 2, i)
      BY <2>2, <2>3, <2>5
    <3>. QED BY <2>4, <3>1
  <2>6. CASE ~(b[i] > b[m + 2])
    <3>1. Best(m + 2, m + 2)
      BY <2>2, <2>3, <2>4, <2>6
    <3>. QED BY <2>4, <3>1
  <2>. QED BY <2>5, <2>6
<1>. HIDE DEF S
<1>3. Nat \subseteq S
  BY <1>1, <1>2, NatSetInduction
<1>4. PICK m \in Nat : n = m + 1
  <2>1. n - 1 \in Nat /\ n = (n - 1) + 1
    OBVIOUS
  <2>. QED BY <2>1
<1>. QED BY <1>3, <1>4 DEF S

LEMMA LaunchLaunches ==
    ASSUME NEW start, NEW st, NEW c, NEW now \in Nat, Launched(start, st, c, now)
    PROVE  Launched(start, launch_public(st, now), c, now)
<1>1. PICK queue : queue = st.props.public
  OBVIOUS
<1>2. PropsTyped(st.props) /\ queue \in Seq(PropType) /\ DepositsTyped(st.props.deposit)
  BY <1>1 DEF Launched, Money, PropsTyped
<1>3. CASE queue = <<>>
  BY <1>1, <1>3 DEF launch_public
<1>4. CASE queue # <<>>
  <2>. DEFINE b == [i \in DOMAIN queue |-> backing_for(st.props, queue[i].index)]
              IsBest(i) == \A j \in DOMAIN queue : b[i] > b[j] \/ (b[i] = b[j] /\ i >= j)
              best == CHOOSE i \in DOMAIN queue : IsBest(i)
  <2>1. PICK n \in Nat : n = Len(queue) /\ DOMAIN queue = 1 .. n
    BY <1>2, SeqListing
  <2>2. n # 0
    BY <1>2, <1>4, <2>1, EmptySeq
  <2>3. \A i \in DOMAIN queue : b[i] \in Nat
    <3>1. SUFFICES ASSUME NEW i \in DOMAIN queue PROVE backing_for(st.props, queue[i].index) \in Nat
      OBVIOUS
    <3>2. PICK x : x = queue[i].index
      OBVIOUS
    <3>3. CASE x \in DOMAIN st.props.deposit
      <4>1. st.props.deposit[x] \in DepositType
        BY <1>2, <3>3 DEF DepositsTyped
      <4>2. st.props.deposit[x].amount \in Nat /\ Len(st.props.deposit[x].whos) \in Nat
        BY <4>1, SeqListing DEF DepositType
      <4>. QED BY <3>2, <3>3, <4>2, ProductNat DEF backing_for
    <3>4. CASE x \notin DOMAIN st.props.deposit
      BY <3>2, <3>4 DEF backing_for
    <3>. QED BY <3>3, <3>4
  <2>4. launch_public(st, now) = table(st, best, now + VotingPeriod, EnactmentPeriod)
    <3>1. best = CHOOSE i \in DOMAIN queue : \A j \in DOMAIN queue :
                    LET bi == backing_for(st.props, queue[i].index)
                        bj == backing_for(st.props, queue[j].index)
                    IN  bi > bj \/ (bi = bj /\ i >= j)
      <4>1. \A i \in DOMAIN queue : IsBest(i) <=>
                \A j \in DOMAIN queue :
                    LET bi == backing_for(st.props, queue[i].index)
                        bj == backing_for(st.props, queue[j].index)
                    IN  bi > bj \/ (bi = bj /\ i >= j)
        OBVIOUS
      <4>. HIDE DEF IsBest
      <4>. QED BY <4>1
    <3>. HIDE DEF best
    <3>. QED BY <1>1, <1>4, <3>1 DEF launch_public
  <2>. HIDE DEF b
  <2>5. \E i \in DOMAIN queue : IsBest(i)
    BY <2>1, <2>2, <2>3, BestExists
  <2>6. best \in DOMAIN queue
    BY <2>5
  <2>. HIDE DEF best
  <2>7. VotingPeriod \in 1 .. VotingPeriod /\ EnactmentPeriod \in Nat
    BY DemocracyAssumption
  <2>. QED BY <1>1, <2>4, <2>6, <2>7, TableLaunches
<1>. QED BY <1>3, <1>4

-----------------------------------------------------------------------------
(* Votes and tallies                                                       *)

(* What a vote adds to one side.                                           *)
weight(x, side) == IF x.aye = side THEN x.balance ELSE 0
ayesOf(x) == weight(x, TRUE)
naysOf(x) == weight(x, FALSE)

LEMMA WeightNat ==
    ASSUME NEW x \in VoteType
    PROVE  /\ ayesOf(x) \in Nat /\ naysOf(x) \in Nat
           /\ ayesOf(x) + naysOf(x) = x.balance
           /\ ayesOf(x) = (IF x.aye THEN x.balance ELSE 0)
           /\ naysOf(x) = (IF x.aye THEN 0 ELSE x.balance)
<1>1. x.aye \in BOOLEAN /\ x.balance \in Nat
  BY DEF VoteType
<1>2. CASE x.aye = TRUE
  <2>1. ayesOf(x) = x.balance /\ naysOf(x) = 0
    BY <1>2, Zenon DEF ayesOf, naysOf, weight
  <2>2. (IF x.aye THEN x.balance ELSE 0) = x.balance /\ (IF x.aye THEN 0 ELSE x.balance) = 0
    BY <1>2, Zenon
  <2>. QED BY <1>1, <2>1, <2>2
<1>3. CASE x.aye = FALSE
  <2>1. ayesOf(x) = 0 /\ naysOf(x) = x.balance
    BY <1>3, Zenon DEF ayesOf, naysOf, weight
  <2>2. (IF x.aye THEN x.balance ELSE 0) = 0 /\ (IF x.aye THEN 0 ELSE x.balance) = x.balance
    BY <1>3, Zenon
  <2>. QED BY <1>1, <2>1, <2>2
<1>. QED BY <1>1, <1>2, <1>3, Zenon

LEMMA TallyAdded ==
    ASSUME NEW t, NEW x \in VoteType, t.ayes \in Int, t.nays \in Int, t.turnout \in Int,
           NEW u \in tally_add(t, x)
    PROVE  /\ u = [ayes |-> u.ayes, nays |-> u.nays, turnout |-> u.turnout]
           /\ u.ayes = t.ayes + ayesOf(x) /\ u.nays = t.nays + naysOf(x)
           /\ u.turnout = t.turnout + ayesOf(x) + naysOf(x)
<1>1. PICK y, n, b : /\ y = (IF x.aye THEN 1 * x.balance ELSE 0)
                     /\ n = (IF x.aye THEN 0 ELSE 1 * x.balance)
                     /\ b = 1 * x.balance
  OBVIOUS
<1>2. x.balance \in Nat /\ 1 * x.balance = x.balance
  BY DEF VoteType
<1>3. y = ayesOf(x) /\ n = naysOf(x) /\ b = ayesOf(x) + naysOf(x)
  BY <1>1, <1>2, WeightNat, Zenon
<1>4. u = [ayes |-> t.ayes + y, nays |-> t.nays + n, turnout |-> t.turnout + b]
  BY <1>1, Zenon DEF tally_add, tally_change
<1>5. u.ayes = t.ayes + y /\ u.nays = t.nays + n /\ u.turnout = t.turnout + b
  BY <1>4
<1>6. ayesOf(x) \in Nat /\ naysOf(x) \in Nat
  BY WeightNat
<1>. QED BY <1>3, <1>4, <1>5, <1>6

LEMMA TallyRemoved ==
    ASSUME NEW t, NEW x \in VoteType, t.ayes \in Int, t.nays \in Int, t.turnout \in Int,
           NEW u \in tally_remove(t, x)
    PROVE  /\ u \in TallyType
           /\ u.ayes = t.ayes - ayesOf(x) /\ u.nays = t.nays - naysOf(x)
           /\ u.turnout = t.turnout - ayesOf(x) - naysOf(x)
<1>1. PICK y, n, b : /\ y = (IF x.aye THEN (-1) * x.balance ELSE 0)
                     /\ n = (IF x.aye THEN 0 ELSE (-1) * x.balance)
                     /\ b = (-1) * x.balance
  OBVIOUS
<1>2. x.balance \in Nat /\ x.aye \in BOOLEAN
  BY DEF VoteType
<1>3. y = 0 - ayesOf(x) /\ n = 0 - naysOf(x) /\ b = 0 - ayesOf(x) - naysOf(x)
  <2>0. PICK m \in Nat : m = x.balance
    BY <1>2
  <2>1. b = 0 - m
    BY <1>1, <2>0
  <2>2. CASE x.aye = TRUE
    <3>1. y = b /\ n = 0 /\ ayesOf(x) = m /\ naysOf(x) = 0
      BY <1>1, <2>0, <2>2, Zenon DEF ayesOf, naysOf, weight
    <3>. QED BY <2>0, <2>1, <3>1
  <2>3. CASE x.aye = FALSE
    <3>1. y = 0 /\ n = b /\ ayesOf(x) = 0 /\ naysOf(x) = m
      BY <1>1, <2>0, <2>3, Zenon DEF ayesOf, naysOf, weight
    <3>. QED BY <2>0, <2>1, <3>1
  <2>. QED BY <1>2, <2>2, <2>3, Zenon
<1>4. PICK w : w = [ayes |-> t.ayes + y, nays |-> t.nays + n, turnout |-> t.turnout + b]
  OBVIOUS
<1>5. tally_change(t, x, -1) = w
  BY <1>1, <1>4, Zenon DEF tally_change
<1>6. u = w /\ w.ayes >= 0 /\ w.nays >= 0 /\ w.turnout >= 0
  BY <1>5 DEF tally_remove, Try
<1>7. w.ayes = t.ayes + y /\ w.nays = t.nays + n /\ w.turnout = t.turnout + b
  BY <1>4
<1>8. ayesOf(x) \in Nat /\ naysOf(x) \in Nat
  BY WeightNat
<1>9. /\ w.ayes = t.ayes - ayesOf(x) /\ w.nays = t.nays - naysOf(x)
      /\ w.turnout = t.turnout - ayesOf(x) - naysOf(x)
  BY <1>3, <1>7, <1>8
<1>10. w.ayes \in Nat /\ w.nays \in Nat /\ w.turnout \in Nat
  BY <1>6, <1>8, <1>9
<1>11. w \in TallyType
  BY <1>4, <1>7, <1>10 DEF TallyType
<1>. QED BY <1>6, <1>9, <1>11

LEMMA ShareWeight ==
    ASSUME NEW v, NEW a, NEW i, NEW side
    PROVE  share(v, a, i, side) = IF i \in DOMAIN v[a] THEN weight(v[a][i], side) ELSE 0
<1>1. CASE i \in DOMAIN v[a]
  BY <1>1, Zenon DEF share, weight
<1>2. CASE i \notin DOMAIN v[a]
  BY <1>2, Zenon DEF share
<1>. QED BY <1>1, <1>2

LEMMA CastNat ==
    ASSUME NEW v, NEW D, VotesTyped(v, D), NEW i, NEW side \in {TRUE, FALSE}
    PROVE  /\ \A a \in Accounts : share(v, a, i, side) \in Nat
           /\ castOf(v, i, side) \in Nat
<1>1. ASSUME NEW a \in Accounts PROVE share(v, a, i, side) \in Nat
  <2>1. CASE i \in DOMAIN v[a]
    <3>1. v[a][i].balance \in Nat
      BY <2>1 DEF VotesTyped, VoteType
    <3>2. share(v, a, i, side) = v[a][i].balance \/ share(v, a, i, side) = 0
      BY Zenon DEF share
    <3>. QED BY <3>1, <3>2
  <2>2. CASE i \notin DOMAIN v[a]
    BY <2>2, ShareWeight
  <2>. QED BY <2>1, <2>2
<1>2. \A a \in Accounts : shares(v, i, side)[a] \in Nat
  BY <1>1, Zenon DEF shares
<1>3. IsFiniteSet(Accounts)
  BY EscrowUsersAssumption
<1>4. castOf(v, i, side) \in Nat
  BY <1>2, <1>3, TotalNat, Zenon DEF castOf
<1>. QED BY <1>1, <1>4

(* Nobody votes in a referendum that is not there.                         *)
LEMMA CastNone ==
    ASSUME NEW v, NEW D, VotesTyped(v, D), NEW i, i \notin D, NEW side
    PROVE  castOf(v, i, side) = 0
<1>1. \A a \in Accounts : i \notin DOMAIN v[a]
  BY DEF VotesTyped
<1>2. \A a \in Accounts : shares(v, i, side)[a] = 0
  BY <1>1, Zenon DEF shares, share
<1>. QED BY <1>2, TotalZero, Zenon DEF castOf

(* One account's votes change.                                             *)
LEMMA CastChanged ==
    ASSUME NEW v, NEW D, VotesTyped(v, D), NEW w, VotesTyped(w, D), NEW who \in Accounts,
           \A a \in Accounts : a # who => w[a] = v[a],
           NEW i, NEW side \in {TRUE, FALSE}
    PROVE  castOf(w, i, side) = castOf(v, i, side) - share(v, who, i, side) + share(w, who, i, side)
<1>1. PICK f, g : f = shares(v, i, side) /\ g = shares(w, i, side)
  OBVIOUS
<1>2. \A a \in Accounts : f[a] = share(v, a, i, side) /\ g[a] = share(w, a, i, side)
  BY <1>1, Zenon DEF shares
<1>3. \A a \in Accounts : f[a] \in Nat /\ g[a] \in Nat
  BY <1>2, CastNat
<1>4. \A a \in Accounts : a # who => g[a] = f[a]
  BY <1>2, Zenon DEF share
<1>5. IsFiniteSet(Accounts)
  BY EscrowUsersAssumption
<1>6. Total(g, Accounts) = Total(f, Accounts) - f[who] + g[who]
  BY <1>3, <1>4, <1>5, TotalChange
<1>. QED BY <1>1, <1>2, <1>6, Zenon DEF castOf

shareAyes(v, a, i) == share(v, a, i, TRUE)
shareNays(v, a, i) == share(v, a, i, FALSE)

LEMMA Shares ==
    ASSUME NEW v, NEW a, NEW i
    PROVE  /\ shareAyes(v, a, i) = (IF i \in DOMAIN v[a] THEN ayesOf(v[a][i]) ELSE 0)
           /\ shareNays(v, a, i) = (IF i \in DOMAIN v[a] THEN naysOf(v[a][i]) ELSE 0)
BY ShareWeight, Zenon DEF shareAyes, shareNays, ayesOf, naysOf

LEMMA CastsNat ==
    ASSUME NEW v, NEW D, VotesTyped(v, D), NEW i
    PROVE  /\ castAyes(v, i) \in Nat /\ castNays(v, i) \in Nat
           /\ \A a \in Accounts : shareAyes(v, a, i) \in Nat /\ shareNays(v, a, i) \in Nat
<1>1. castAyes(v, i) \in Nat /\ \A a \in Accounts : shareAyes(v, a, i) \in Nat
  BY CastNat, Zenon DEF castAyes, shareAyes
<1>2. castNays(v, i) \in Nat /\ \A a \in Accounts : shareNays(v, a, i) \in Nat
  BY CastNat, Zenon DEF castNays, shareNays
<1>. QED BY <1>1, <1>2

LEMMA CastsChanged ==
    ASSUME NEW v, NEW D, VotesTyped(v, D), NEW w, VotesTyped(w, D), NEW who \in Accounts,
           \A a \in Accounts : a # who => w[a] = v[a], NEW i
    PROVE  /\ castAyes(w, i) = castAyes(v, i) - shareAyes(v, who, i) + shareAyes(w, who, i)
           /\ castNays(w, i) = castNays(v, i) - shareNays(v, who, i) + shareNays(w, who, i)
<1>1. castAyes(w, i) = castAyes(v, i) - shareAyes(v, who, i) + shareAyes(w, who, i)
  BY CastChanged, Zenon DEF castAyes, shareAyes
<1>2. castNays(w, i) = castNays(v, i) - shareNays(v, who, i) + shareNays(w, who, i)
  BY CastChanged, Zenon DEF castNays, shareNays
<1>. QED BY <1>1, <1>2

LEMMA OngoingTyped ==
    ASSUME NEW r \in RefType, Ongoing(r)
    PROVE  /\ r \in OngoingType /\ r.tally \in TallyType /\ r.end \in Nat /\ r.delay \in Nat
           /\ r.proposal \in Proposals /\ r.tally.ayes \in Nat /\ r.tally.nays \in Nat
           /\ r.tally.turnout \in Nat
BY DEF RefType, OngoingType, ClosedType, Ongoing, TallyType

retallied(r, t) == [r EXCEPT !.tally = t]
rescheduled(r, end) == [r EXCEPT !.end = end]
replaced(rs, i, x) == [rs EXCEPT ![i] = x]

LEMMA Retallied ==
    ASSUME NEW r \in OngoingType, NEW t \in TallyType
    PROVE  LET q == retallied(r, t) IN
           /\ q \in RefType /\ Ongoing(q) /\ q.end = r.end /\ q.proposal = r.proposal /\ q.tally = t
BY DEF retallied, OngoingType, RefType, Ongoing

LEMMA Rescheduled ==
    ASSUME NEW r \in OngoingType, NEW end \in Nat
    PROVE  LET q == rescheduled(r, end) IN
           /\ q \in RefType /\ Ongoing(q) /\ q.end = end /\ q.proposal = r.proposal /\ q.tally = r.tally
BY DEF rescheduled, OngoingType, RefType, Ongoing

LEMMA Replaced ==
    ASSUME NEW rs \in Seq(RefType), NEW i \in DOMAIN rs, NEW x \in RefType,
           NEW rt, rt = replaced(rs, i, x)
    PROVE  /\ rt \in Seq(RefType) /\ DOMAIN rt = DOMAIN rs /\ rt[i] = x
           /\ \A k \in DOMAIN rs : k # i => rt[k] = rs[k]
<1>1. PICK n \in Nat : n = Len(rs) /\ DOMAIN rs = 1 .. n /\ \A k \in 1 .. n : rs[k] \in RefType
  BY SeqListing
<1>2. /\ DOMAIN rt = 1 .. n /\ rt[i] = x /\ \A k \in 1 .. n : k # i => rt[k] = rs[k]
  BY <1>1 DEF replaced
<1>3. rt = [k \in 1 .. n |-> rt[k]]
  <2>1. rs = [k \in 1 .. n |-> rs[k]]
    BY <1>1
  <2>. QED BY <1>1, <2>1 DEF replaced
<1>4. \A k \in 1 .. n : rt[k] \in RefType
  BY <1>1, <1>2
<1>5. rt \in Seq(RefType)
  BY <1>1, <1>3, <1>4, SeqDef
<1>. QED BY <1>1, <1>2, <1>5

(* One referendum, and the votes in it, change.                            *)
LEMMA PollsReplaced ==
    ASSUME NEW rs, NEW v, NEW h, Polls(rs, v, h), NEW i \in DOMAIN rs, NEW x \in RefType,
           NEW rt, rt = replaced(rs, i, x), NEW w, VotesTyped(w, DOMAIN rs),
           \A j \in DOMAIN rs : j # i => /\ castAyes(w, j) = castAyes(v, j)
                                         /\ castNays(w, j) = castNays(v, j),
           Ongoing(x) => Tallied(x.tally, w, i) /\ Mature(x, h)
    PROVE  Polls(rt, w, h)
<1>1. rs \in Seq(RefType)
  BY DEF Polls
<1>2. /\ rt \in Seq(RefType) /\ DOMAIN rt = DOMAIN rs /\ rt[i] = x
      /\ \A k \in DOMAIN rs : k # i => rt[k] = rs[k]
  BY <1>1, Replaced
<1>3. ASSUME NEW j \in DOMAIN rs, Ongoing(rt[j]) PROVE Tallied(rt[j].tally, w, j) /\ Mature(rt[j], h)
  <2>1. CASE j = i
    BY <1>2, <1>3, <2>1
  <2>2. CASE j # i
    <3>1. rt[j] = rs[j] /\ Tallied(rs[j].tally, v, j) /\ Mature(rs[j], h)
      BY <1>2, <1>3, <2>2 DEF Polls
    <3>2. Tallied(rs[j].tally, w, j)
      BY <2>2, <3>1 DEF Tallied
    <3>. QED BY <3>1, <3>2
  <2>. QED BY <2>1, <2>2
<1>. QED BY <1>2, <1>3 DEF Polls

votesChanged(v, who, m) == [v EXCEPT ![who] = m]

(* An account's votes: what it has on i is m, the rest stays.              *)
LEMMA VotesChanged ==
    ASSUME NEW v, NEW D, VotesTyped(v, D), NEW who \in Accounts, NEW m, IsMap(m),
           DOMAIN m \subseteq D, \A j \in DOMAIN m : m[j] \in VoteType,
           NEW w, w = votesChanged(v, who, m)
    PROVE  VotesTyped(w, D) /\ w[who] = m /\ \A a \in Accounts : a # who => w[a] = v[a]
<1>1. v = [a \in Accounts |-> v[a]]
  BY DEF VotesTyped
<1>2. w = [a \in Accounts |-> IF a = who THEN m ELSE v[a]]
  BY <1>1 DEF votesChanged
<1>3. w = [a \in Accounts |-> w[a]] /\ \A a \in Accounts : w[a] = IF a = who THEN m ELSE v[a]
  BY <1>2
<1>. QED BY <1>3 DEF VotesTyped

LEMMA WithoutMap ==
    ASSUME NEW m, NEW i
    PROVE  /\ IsMap(without(m, i)) /\ DOMAIN without(m, i) = DOMAIN m \ {i}
           /\ \A j \in DOMAIN m : j # i => without(m, i)[j] = m[j]
BY DEF without, IsMap

LEMMA SharesKept ==
    ASSUME NEW v, NEW w, NEW a, NEW j, j \in DOMAIN w[a] <=> j \in DOMAIN v[a],
           j \in DOMAIN v[a] => w[a][j] = v[a][j]
    PROVE  shareAyes(w, a, j) = shareAyes(v, a, j) /\ shareNays(w, a, j) = shareNays(v, a, j)
BY Shares

(* A vote replaces what the account had in the tally.                      *)
LEMMA PollsVote ==
    ASSUME NEW rs, NEW v, NEW h, Polls(rs, v, h), NEW who \in Accounts, NEW i \in DOMAIN rs,
           Ongoing(rs[i]), NEW x \in VoteType,
           NEW rest \in (IF i \in DOMAIN v[who] THEN tally_remove(rs[i].tally, v[who][i])
                         ELSE {rs[i].tally}),
           NEW t \in tally_add(rest, x)
    PROVE  /\ t \in TallyType
           /\ Polls(replaced(rs, i, retallied(rs[i], t)), votesChanged(v, who, with(v[who], i, x)), h)
<1>1. PICK D, m, r, t0 : D = DOMAIN rs /\ m = with(v[who], i, x) /\ r = rs[i] /\ t0 = r.tally
  OBVIOUS
<1>2. PICK w : w = votesChanged(v, who, m)
  OBVIOUS
<1>3. rs \in Seq(RefType) /\ VotesTyped(v, D)
  BY <1>1 DEF Polls
<1>4. r \in RefType
  BY <1>1, <1>3, SeqListing
<1>5. r \in OngoingType /\ t0 \in TallyType /\ t0.ayes \in Nat /\ t0.nays \in Nat /\ t0.turnout \in Nat
  BY <1>1, <1>4, OngoingTyped
<1>6. Tallied(t0, v, i) /\ Mature(r, h)
  BY <1>1 DEF Polls
<1>7. IsMap(v[who]) /\ DOMAIN v[who] \subseteq D /\ \A j \in DOMAIN v[who] : v[who][j] \in VoteType
  BY <1>3 DEF VotesTyped
<1>8. /\ IsMap(m) /\ DOMAIN m = DOMAIN v[who] \cup {i} /\ m[i] = x
      /\ \A j \in DOMAIN v[who] : j # i => m[j] = v[who][j]
  <2>1. PICK u : u = v[who]
    OBVIOUS
  <2>2. m = with(u, i, x)
    BY <1>1, <2>1
  <2>3. /\ IsMap(with(u, i, x)) /\ DOMAIN with(u, i, x) = DOMAIN u \cup {i}
        /\ with(u, i, x)[i] = x /\ \A j \in DOMAIN u : j # i => with(u, i, x)[j] = u[j]
    BY Zenon DEF with, IsMap
  <2>. QED BY <2>1, <2>2, <2>3
<1>9. DOMAIN m \subseteq D /\ \A j \in DOMAIN m : m[j] \in VoteType
  BY <1>1, <1>7, <1>8
<1>10. VotesTyped(w, D) /\ w[who] = m /\ \A a \in Accounts : a # who => w[a] = v[a]
  BY <1>2, <1>3, <1>8, <1>9, VotesChanged
<1>11. \A j : /\ castAyes(w, j) = castAyes(v, j) - shareAyes(v, who, j) + shareAyes(w, who, j)
              /\ castNays(w, j) = castNays(v, j) - shareNays(v, who, j) + shareNays(w, who, j)
  BY <1>3, <1>10, CastsChanged
<1>12. \A j : /\ castAyes(v, j) \in Nat /\ castNays(v, j) \in Nat
              /\ shareAyes(v, who, j) \in Nat /\ shareNays(v, who, j) \in Nat
  BY <1>3, CastsNat
<1>13. \A j \in D : j # i => castAyes(w, j) = castAyes(v, j) /\ castNays(w, j) = castNays(v, j)
  <2>1. SUFFICES ASSUME NEW j \in D, j # i
                 PROVE  castAyes(w, j) = castAyes(v, j) /\ castNays(w, j) = castNays(v, j)
    OBVIOUS
  <2>2. shareAyes(w, who, j) = shareAyes(v, who, j) /\ shareNays(w, who, j) = shareNays(v, who, j)
    BY <1>8, <1>10, <2>1, SharesKept
  <2>. QED BY <1>11, <1>12, <2>2
<1>14. shareAyes(w, who, i) = ayesOf(x) /\ shareNays(w, who, i) = naysOf(x)
  BY <1>8, <1>10, Shares
<1>15. /\ rest.ayes = t0.ayes - shareAyes(v, who, i) /\ rest.nays = t0.nays - shareNays(v, who, i)
       /\ rest.turnout = t0.turnout - shareAyes(v, who, i) - shareNays(v, who, i)
       /\ rest.ayes \in Nat /\ rest.nays \in Nat /\ rest.turnout \in Nat
  <2>1. CASE i \in DOMAIN v[who]
    <3>1. rest \in tally_remove(t0, v[who][i]) /\ v[who][i] \in VoteType
      BY <1>1, <1>7, <2>1
    <3>2. t0.ayes \in Int /\ t0.nays \in Int /\ t0.turnout \in Int
      BY <1>5
    <3>3. /\ rest \in TallyType
          /\ rest.ayes = t0.ayes - ayesOf(v[who][i]) /\ rest.nays = t0.nays - naysOf(v[who][i])
          /\ rest.turnout = t0.turnout - ayesOf(v[who][i]) - naysOf(v[who][i])
      BY <3>1, <3>2, TallyRemoved
    <3>4. shareAyes(v, who, i) = ayesOf(v[who][i]) /\ shareNays(v, who, i) = naysOf(v[who][i])
      BY <2>1, Shares
    <3>5. rest.ayes \in Nat /\ rest.nays \in Nat /\ rest.turnout \in Nat
      BY <3>3 DEF TallyType
    <3>. QED BY <3>3, <3>4, <3>5
  <2>2. CASE i \notin DOMAIN v[who]
    <3>1. rest = t0
      BY <1>1, <2>2
    <3>2. shareAyes(v, who, i) = 0 /\ shareNays(v, who, i) = 0
      BY <2>2, Shares
    <3>. QED BY <1>5, <3>1, <3>2
  <2>. QED BY <2>1, <2>2
<1>16. /\ t = [ayes |-> t.ayes, nays |-> t.nays, turnout |-> t.turnout]
       /\ t.ayes = rest.ayes + ayesOf(x) /\ t.nays = rest.nays + naysOf(x)
       /\ t.turnout = rest.turnout + ayesOf(x) + naysOf(x)
  <2>1. rest.ayes \in Int /\ rest.nays \in Int /\ rest.turnout \in Int
    BY <1>15
  <2>. QED BY <2>1, TallyAdded
<1>17. ayesOf(x) \in Nat /\ naysOf(x) \in Nat
  BY WeightNat
<1>18. t.ayes \in Nat /\ t.nays \in Nat /\ t.turnout \in Nat
  BY <1>15, <1>16, <1>17
<1>19. t \in TallyType
  BY <1>16, <1>18 DEF TallyType
<1>20. Tallied(t, w, i)
  <2>1. /\ castAyes(w, i) = castAyes(v, i) - shareAyes(v, who, i) + ayesOf(x)
        /\ castNays(w, i) = castNays(v, i) - shareNays(v, who, i) + naysOf(x)
    BY <1>11, <1>14
  <2>2. t0.ayes = castAyes(v, i) /\ t0.nays = castNays(v, i)
        /\ t0.turnout = castAyes(v, i) + castNays(v, i)
    BY <1>6 DEF Tallied
  <2>3. t.ayes = castAyes(w, i) /\ t.nays = castNays(w, i)
    BY <1>15, <1>16, <2>1, <2>2
  <2>4. t.turnout = castAyes(w, i) + castNays(w, i)
    BY <1>12, <1>15, <1>16, <1>17, <2>1, <2>2
  <2>. QED BY <2>3, <2>4 DEF Tallied
<1>21. PICK q : q = retallied(r, t)
  OBVIOUS
<1>22. q \in RefType /\ Ongoing(q) /\ q.end = r.end /\ q.tally = t
  BY <1>5, <1>19, <1>21, Retallied
<1>23. Mature(q, h)
  BY <1>6, <1>22 DEF Mature
<1>24. Polls(replaced(rs, i, q), w, h)
  BY <1>1, <1>10, <1>13, <1>20, <1>22, <1>23, PollsReplaced
<1>. QED BY <1>1, <1>2, <1>19, <1>21, <1>24

(* A vote is withdrawn from an open referendum.                            *)
LEMMA PollsUnvote ==
    ASSUME NEW rs, NEW v, NEW h, Polls(rs, v, h), NEW who \in Accounts, NEW i \in DOMAIN rs,
           Ongoing(rs[i]), i \in DOMAIN v[who],
           NEW t \in tally_remove(rs[i].tally, v[who][i])
    PROVE  /\ t \in TallyType
           /\ Polls(replaced(rs, i, retallied(rs[i], t)), votesChanged(v, who, without(v[who], i)), h)
<1>1. PICK D, m, r, t0 : D = DOMAIN rs /\ m = without(v[who], i) /\ r = rs[i] /\ t0 = r.tally
  OBVIOUS
<1>2. PICK w : w = votesChanged(v, who, m)
  OBVIOUS
<1>3. rs \in Seq(RefType) /\ VotesTyped(v, D)
  BY <1>1 DEF Polls
<1>4. r \in RefType
  BY <1>1, <1>3, SeqListing
<1>5. r \in OngoingType /\ t0.ayes \in Nat /\ t0.nays \in Nat /\ t0.turnout \in Nat
  BY <1>1, <1>4, OngoingTyped
<1>6. Tallied(t0, v, i) /\ Mature(r, h)
  BY <1>1 DEF Polls
<1>7. IsMap(v[who]) /\ DOMAIN v[who] \subseteq D /\ \A j \in DOMAIN v[who] : v[who][j] \in VoteType
  BY <1>3 DEF VotesTyped
<1>8. /\ IsMap(m) /\ DOMAIN m = DOMAIN v[who] \ {i}
      /\ \A j \in DOMAIN v[who] : j # i => m[j] = v[who][j]
  BY <1>1, WithoutMap
<1>9. DOMAIN m \subseteq D /\ \A j \in DOMAIN m : m[j] \in VoteType
  BY <1>1, <1>7, <1>8
<1>10. VotesTyped(w, D) /\ w[who] = m /\ \A a \in Accounts : a # who => w[a] = v[a]
  BY <1>2, <1>3, <1>8, <1>9, VotesChanged
<1>11. \A j : /\ castAyes(w, j) = castAyes(v, j) - shareAyes(v, who, j) + shareAyes(w, who, j)
              /\ castNays(w, j) = castNays(v, j) - shareNays(v, who, j) + shareNays(w, who, j)
  BY <1>3, <1>10, CastsChanged
<1>12. \A j : /\ castAyes(v, j) \in Nat /\ castNays(v, j) \in Nat
              /\ shareAyes(v, who, j) \in Nat /\ shareNays(v, who, j) \in Nat
  BY <1>3, CastsNat
<1>13. \A j \in D : j # i => castAyes(w, j) = castAyes(v, j) /\ castNays(w, j) = castNays(v, j)
  <2>1. SUFFICES ASSUME NEW j \in D, j # i
                 PROVE  castAyes(w, j) = castAyes(v, j) /\ castNays(w, j) = castNays(v, j)
    OBVIOUS
  <2>2. shareAyes(w, who, j) = shareAyes(v, who, j) /\ shareNays(w, who, j) = shareNays(v, who, j)
    BY <1>8, <1>10, <2>1, SharesKept
  <2>. QED BY <1>11, <1>12, <2>2
<1>14. shareAyes(w, who, i) = 0 /\ shareNays(w, who, i) = 0
  BY <1>8, <1>10, Shares
<1>15. /\ t \in TallyType
       /\ t.ayes = t0.ayes - shareAyes(v, who, i) /\ t.nays = t0.nays - shareNays(v, who, i)
       /\ t.turnout = t0.turnout - shareAyes(v, who, i) - shareNays(v, who, i)
  <2>1. t \in tally_remove(t0, v[who][i]) /\ v[who][i] \in VoteType
    BY <1>1, <1>7
  <2>2. t0.ayes \in Int /\ t0.nays \in Int /\ t0.turnout \in Int
    BY <1>5
  <2>3. /\ t \in TallyType
        /\ t.ayes = t0.ayes - ayesOf(v[who][i]) /\ t.nays = t0.nays - naysOf(v[who][i])
        /\ t.turnout = t0.turnout - ayesOf(v[who][i]) - naysOf(v[who][i])
    BY <2>1, <2>2, TallyRemoved
  <2>4. shareAyes(v, who, i) = ayesOf(v[who][i]) /\ shareNays(v, who, i) = naysOf(v[who][i])
    BY Shares
  <2>. QED BY <2>3, <2>4
<1>16. Tallied(t, w, i)
  <2>1. /\ castAyes(w, i) = castAyes(v, i) - shareAyes(v, who, i)
        /\ castNays(w, i) = castNays(v, i) - shareNays(v, who, i)
    BY <1>11, <1>12, <1>14
  <2>2. t0.ayes = castAyes(v, i) /\ t0.nays = castNays(v, i)
        /\ t0.turnout = castAyes(v, i) + castNays(v, i)
    BY <1>6 DEF Tallied
  <2>3. t.ayes = castAyes(w, i) /\ t.nays = castNays(w, i)
    BY <1>15, <2>1, <2>2
  <2>4. t.turnout = castAyes(w, i) + castNays(w, i)
    BY <1>12, <1>15, <2>1, <2>2
  <2>. QED BY <2>3, <2>4 DEF Tallied
<1>17. PICK q : q = retallied(r, t)
  OBVIOUS
<1>18. q \in RefType /\ Ongoing(q) /\ q.end = r.end /\ q.tally = t
  BY <1>5, <1>15, <1>17, Retallied
<1>19. Mature(q, h)
  BY <1>6, <1>18 DEF Mature
<1>20. Polls(replaced(rs, i, q), w, h)
  BY <1>1, <1>10, <1>13, <1>16, <1>18, <1>19, PollsReplaced
<1>. QED BY <1>1, <1>2, <1>15, <1>17, <1>20

(* A vote in a referendum that is over is dropped: the others keep theirs. *)
LEMMA PollsForget ==
    ASSUME NEW rs, NEW v, NEW h, Polls(rs, v, h), NEW who \in Accounts, NEW i \in DOMAIN rs,
           ~Ongoing(rs[i])
    PROVE  Polls(rs, votesChanged(v, who, without(v[who], i)), h)
<1>1. PICK D, m : D = DOMAIN rs /\ m = without(v[who], i)
  OBVIOUS
<1>2. PICK w : w = votesChanged(v, who, m)
  OBVIOUS
<1>3. rs \in Seq(RefType) /\ VotesTyped(v, D)
  BY <1>1 DEF Polls
<1>4. /\ IsMap(m) /\ DOMAIN m = DOMAIN v[who] \ {i}
      /\ \A j \in DOMAIN v[who] : j # i => m[j] = v[who][j]
  BY <1>1, WithoutMap
<1>5. DOMAIN m \subseteq D /\ \A j \in DOMAIN m : m[j] \in VoteType
  BY <1>3, <1>4 DEF VotesTyped
<1>6. VotesTyped(w, D) /\ w[who] = m /\ \A a \in Accounts : a # who => w[a] = v[a]
  BY <1>2, <1>3, <1>4, <1>5, VotesChanged
<1>7. ASSUME NEW j \in D, Ongoing(rs[j]) PROVE Tallied(rs[j].tally, w, j)
  <2>1. j # i
    BY <1>7
  <2>2. shareAyes(w, who, j) = shareAyes(v, who, j) /\ shareNays(w, who, j) = shareNays(v, who, j)
    BY <1>4, <1>6, <2>1, SharesKept
  <2>3. /\ castAyes(w, j) = castAyes(v, j) - shareAyes(v, who, j) + shareAyes(w, who, j)
        /\ castNays(w, j) = castNays(v, j) - shareNays(v, who, j) + shareNays(w, who, j)
    BY <1>3, <1>6, CastsChanged
  <2>4. /\ castAyes(v, j) \in Nat /\ castNays(v, j) \in Nat
        /\ shareAyes(v, who, j) \in Nat /\ shareNays(v, who, j) \in Nat
    BY <1>3, CastsNat
  <2>5. castAyes(w, j) = castAyes(v, j) /\ castNays(w, j) = castNays(v, j)
    BY <2>2, <2>3, <2>4
  <2>6. Tallied(rs[j].tally, v, j)
    BY <1>1, <1>7 DEF Polls
  <2>. QED BY <2>5, <2>6 DEF Tallied
<1>. QED BY <1>1, <1>2, <1>3, <1>6, <1>7 DEF Polls

(* A referendum is brought forward, or is over.                            *)
LEMMA PollsRescheduled ==
    ASSUME NEW rs, NEW v, NEW h \in Nat, Polls(rs, v, h), NEW i \in DOMAIN rs, Ongoing(rs[i]),
           NEW period \in 1 .. VotingPeriod
    PROVE  Polls(replaced(rs, i, rescheduled(rs[i], h + period)), v, h)
<1>1. PICK r, q, end : r = rs[i] /\ end = h + period /\ q = rescheduled(r, end)
  OBVIOUS
<1>2. rs \in Seq(RefType) /\ VotesTyped(v, DOMAIN rs) /\ VotingPeriod \in Nat
  BY DemocracyAssumption DEF Polls
<1>3. r \in RefType
  BY <1>1, <1>2, SeqListing
<1>4. r \in OngoingType
  BY <1>1, <1>3, OngoingTyped
<1>5. end \in Nat /\ end \in (h + 1) .. (h + VotingPeriod)
  BY <1>1, <1>2
<1>6. q \in RefType /\ q.end = end /\ q.tally = r.tally
  BY <1>1, <1>4, <1>5, Rescheduled
<1>7. Tallied(r.tally, v, i)
  BY <1>1 DEF Polls
<1>8. Tallied(q.tally, v, i) /\ Mature(q, h)
  BY <1>5, <1>6, <1>7 DEF Mature
<1>9. Polls(replaced(rs, i, q), v, h)
  BY <1>2, <1>6, <1>8, PollsReplaced
<1>. QED BY <1>1, <1>9

LEMMA PollsClosed ==
    ASSUME NEW rs, NEW v, NEW h, Polls(rs, v, h), NEW i \in DOMAIN rs
    PROVE  Polls(replaced(rs, i, Cancelled), v, h)
<1>1. Cancelled \in RefType /\ ~Ongoing(Cancelled)
  BY DEF Cancelled, RefType, ClosedType, Ongoing
<1>2. VotesTyped(v, DOMAIN rs)
  BY DEF Polls
<1>. QED BY <1>1, <1>2, PollsReplaced

(* New referenda start with nothing, and some of the old ones are over.    *)
LEMMA LaunchedPolls ==
    ASSUME NEW start, NEW st, NEW c, NEW now, Launched(start, st, c, now),
           NEW v, NEW h, Polls(start.refs, v, h), NEW closed, closed \subseteq DOMAIN start.refs,
           \A i \in DOMAIN start.refs \ closed : Ongoing(start.refs[i]) => Mature(start.refs[i], now),
           NEW rt \in Seq(RefType), DOMAIN rt = DOMAIN st.refs,
           \A i \in DOMAIN rt \ closed : rt[i] = st.refs[i],
           \A i \in closed : ~Ongoing(rt[i])
    PROVE  Polls(rt, v, now)
<1>1. PICK rs, ru : rs = start.refs /\ ru = st.refs
  OBVIOUS
<1>2. VotesTyped(v, DOMAIN rs) /\ DOMAIN rs \subseteq DOMAIN ru
  BY <1>1 DEF Polls, Launched
<1>3. VotesTyped(v, DOMAIN rt)
  BY <1>1, <1>2 DEF VotesTyped
<1>4. ASSUME NEW i \in DOMAIN rt, Ongoing(rt[i]) PROVE Tallied(rt[i].tally, v, i) /\ Mature(rt[i], now)
  <2>1. i \notin closed /\ rt[i] = ru[i]
    BY <1>1, <1>4
  <2>2. CASE i \in DOMAIN rs
    <3>1. ru[i] = rs[i]
      BY <1>1, <2>2 DEF Launched
    <3>2. Tallied(rs[i].tally, v, i)
      BY <1>1, <1>4, <2>1, <2>2, <3>1 DEF Polls
    <3>3. Mature(rs[i], now)
      BY <1>1, <1>4, <2>1, <2>2, <3>1
    <3>. QED BY <2>1, <3>1, <3>2, <3>3
  <2>3. CASE i \notin DOMAIN rs
    <3>1. ru[i].tally = NoTally /\ Mature(ru[i], now)
      BY <1>1, <1>4, <2>3 DEF Launched
    <3>2. castAyes(v, i) = 0 /\ castNays(v, i) = 0
      BY <1>2, <2>3, CastNone, Zenon DEF castAyes, castNays
    <3>3. NoTally.ayes = 0 /\ NoTally.nays = 0 /\ NoTally.turnout = 0
      BY DEF NoTally
    <3>4. Tallied(NoTally, v, i)
      BY <3>2, <3>3 DEF Tallied
    <3>. QED BY <2>1, <3>1, <3>4
  <2>. QED BY <2>2, <2>3
<1>. QED BY <1>3, <1>4 DEF Polls

-----------------------------------------------------------------------------
(* Preimages                                                               *)

(* The parts of a hold count are numbers.                                  *)
LEMMA HoldParts ==
    ASSUME NEW pre, NEW public \in Seq(PropType), NEW rs \in Seq(RefType), NEW ag,
           Holds(pre, public, rs, ag), NEW p \in Proposals
    PROVE  /\ Count(public, Calling(p)) \in Nat /\ Count(rs, Asking(p)) \in Nat
           /\ IsFiniteSet(Tasks(ag, p)) /\ Cardinality(Tasks(ag, p)) \in Nat
           /\ pre[p] \in Nat
           /\ pre[p] >= Count(public, Calling(p)) + Count(rs, Asking(p)) + Cardinality(Tasks(ag, p))
<1>1. Listing(public) /\ Listing(rs)
  BY SeqListing
<1>2. Count(public, Calling(p)) \in Nat /\ Count(rs, Asking(p)) \in Nat
  BY <1>1, CountNat
<1>3. IsFiniteSet(ag) /\ Tasks(ag, p) \subseteq ag
  BY DEF Holds, Tasks
<1>4. IsFiniteSet(Tasks(ag, p))
  BY <1>3, FS_Subset
<1>5. Cardinality(Tasks(ag, p)) \in Nat
  BY <1>4, FS_CardinalityType
<1>. QED BY <1>2, <1>4, <1>5 DEF Holds

preAdd(pre, p) == [pre EXCEPT ![p] = @ + 1]
preDrop(pre, p) == [pre EXCEPT ![p] = @ - 1]

LEMMA Dropping ==
    ASSUME NEW pre \in [Proposals -> Nat], NEW call \in Proposals
    PROVE  /\ preDrop(pre, call) \in [Proposals -> Int]
           /\ \A p \in Proposals : preDrop(pre, call)[p] = pre[p] - (IF p = call THEN 1 ELSE 0)
<1>1. PICK n : n = pre[call] - 1
  OBVIOUS
<1>2. n \in Int
  BY <1>1
<1>3. preDrop(pre, call) = [pre EXCEPT ![call] = n]
  BY <1>1 DEF preDrop
<1>. QED BY <1>1, <1>2, <1>3

LEMMA HoldsPropose ==
    ASSUME NEW pre, NEW public \in Seq(PropType), NEW rs \in Seq(RefType), NEW ag,
           Holds(pre, public, rs, ag), NEW x \in PropType,
           NEW t, Extends(public, t, x)
    PROVE  Holds(preAdd(pre, x.call), t, rs, ag)
<1>1. PICK call, new : call = x.call /\ new = preAdd(pre, call)
  OBVIOUS
<1>2. call \in Proposals /\ pre \in [Proposals -> Nat] /\ IsFiniteSet(ag)
  BY <1>1 DEF PropType, Holds
<1>3. new \in [Proposals -> Nat] /\ \A p \in Proposals : new[p] = pre[p] + (IF p = call THEN 1 ELSE 0)
  BY <1>1, <1>2 DEF preAdd
<1>4. ASSUME NEW p \in Proposals
      PROVE  new[p] >= Count(t, Calling(p)) + Count(rs, Asking(p)) + Cardinality(Tasks(ag, p))
  <2>1. Count(t, Calling(p)) = Count(public, Calling(p)) + (IF x \in Calling(p) THEN 1 ELSE 0)
    BY CountExtended
  <2>2. x \in Calling(p) <=> p = call
    BY <1>1 DEF Calling
  <2>3. PICK k, l, m, n : /\ k = Count(public, Calling(p)) /\ l = Count(rs, Asking(p))
                          /\ m = Cardinality(Tasks(ag, p)) /\ n = pre[p]
    OBVIOUS
  <2>4. k \in Nat /\ l \in Nat /\ m \in Nat /\ n \in Nat /\ n >= k + l + m
    BY <2>3, HoldParts
  <2>5. Count(t, Calling(p)) = k + (IF p = call THEN 1 ELSE 0) /\ new[p] = n + (IF p = call THEN 1 ELSE 0)
    BY <1>3, <2>1, <2>2, <2>3
  <2>. QED BY <2>3, <2>4, <2>5, SMTT(60)
<1>. QED BY <1>1, <1>2, <1>3, <1>4 DEF Holds

(* A hold is dropped for a proposal that goes.                             *)
LEMMA HoldsCancelProposal ==
    ASSUME NEW pre, NEW public \in Seq(PropType), NEW rs \in Seq(RefType), NEW ag,
           Holds(pre, public, rs, ag), NEW i \in DOMAIN public,
           NEW t \in Seq(PropType), Dropped(public, t, i)
    PROVE  Holds(preDrop(pre, public[i].call), t, rs, ag)
<1>1. PICK x, call, new : x = public[i] /\ call = x.call /\ new = preDrop(pre, call)
  OBVIOUS
<1>2. x \in PropType
  BY <1>1, SeqListing
<1>3. call \in Proposals /\ pre \in [Proposals -> Nat] /\ IsFiniteSet(ag)
  BY <1>1, <1>2 DEF PropType, Holds
<1>4. /\ new \in [Proposals -> Int]
      /\ \A p \in Proposals : new[p] = pre[p] - (IF p = call THEN 1 ELSE 0)
  BY <1>1, <1>3, Dropping
<1>5. ASSUME NEW p \in Proposals
      PROVE  /\ new[p] >= Count(t, Calling(p)) + Count(rs, Asking(p)) + Cardinality(Tasks(ag, p))
             /\ new[p] \in Nat
  <2>1. Count(public, Calling(p)) = Count(t, Calling(p)) + (IF x \in Calling(p) THEN 1 ELSE 0)
    BY <1>1, CountDropped
  <2>2. x \in Calling(p) <=> p = call
    BY <1>1, <1>2 DEF Calling
  <2>3. PICK k, l, m, n : /\ k = Count(t, Calling(p)) /\ l = Count(rs, Asking(p))
                          /\ m = Cardinality(Tasks(ag, p)) /\ n = pre[p]
    OBVIOUS
  <2>4. /\ l \in Nat /\ m \in Nat /\ n \in Nat /\ n >= Count(public, Calling(p)) + l + m
    BY <2>3, HoldParts
  <2>5. k \in Nat
    <3>1. Listing(t)
      BY SeqListing
    <3>. QED BY <2>3, <3>1, CountNat
  <2>6. Count(public, Calling(p)) = k + (IF p = call THEN 1 ELSE 0) /\ new[p] = n - (IF p = call THEN 1 ELSE 0)
    BY <1>4, <2>1, <2>2, <2>3
  <2>. QED BY <2>3, <2>4, <2>5, <2>6, SMTT(60)
<1>6. new \in [Proposals -> Nat]
  BY <1>4, <1>5
<1>. QED BY <1>1, <1>3, <1>5, <1>6 DEF Holds

LEMMA HoldsClear ==
    ASSUME NEW pre, NEW public \in Seq(PropType), NEW rs \in Seq(RefType), NEW ag,
           Holds(pre, public, rs, ag)
    PROVE  Holds(pre, <<>>, rs, ag)
<1>1. ASSUME NEW p \in Proposals
      PROVE  pre[p] >= Count(<<>>, Calling(p)) + Count(rs, Asking(p)) + Cardinality(Tasks(ag, p))
  <2>1. Count(<<>>, Calling(p)) = 0
    <3>1. {k \in DOMAIN <<>> : <<>>[k] \in Calling(p)} = {}
      OBVIOUS
    <3>. QED BY <3>1, FS_EmptySet DEF Count
  <2>. QED BY <2>1, HoldParts
<1>. QED BY <1>1 DEF Holds

(* The same referendum, whatever its tally and its end.                    *)
LEMMA HoldsReplaced ==
    ASSUME NEW pre, NEW public \in Seq(PropType), NEW rs \in Seq(RefType), NEW ag,
           Holds(pre, public, rs, ag), NEW i \in DOMAIN rs, Ongoing(rs[i]), NEW x \in RefType,
           Ongoing(x), x.proposal = rs[i].proposal
    PROVE  Holds(pre, public, replaced(rs, i, x), ag)
<1>1. PICK rt : rt = replaced(rs, i, x)
  OBVIOUS
<1>2. DOMAIN rt = DOMAIN rs /\ rt[i] = x /\ \A k \in DOMAIN rs : k # i => rt[k] = rs[k]
  BY <1>1, Replaced
<1>3. ASSUME NEW p \in Proposals PROVE Count(rt, Asking(p)) = Count(rs, Asking(p))
  <2>1. Listing(rs) /\ rs[i] \in RefType
    BY SeqListing
  <2>2. Count(rt, Asking(p)) + (IF rs[i] \in Asking(p) THEN 1 ELSE 0)
        = Count(rs, Asking(p)) + (IF rt[i] \in Asking(p) THEN 1 ELSE 0)
    BY <1>2, <2>1, CountReplaced
  <2>3. rs[i] \in Asking(p) <=> rt[i] \in Asking(p)
    BY <1>2, <2>1 DEF Asking
  <2>4. Listing(rt)
    BY <1>2, <2>1 DEF Listing
  <2>5. Count(rt, Asking(p)) \in Nat /\ Count(rs, Asking(p)) \in Nat
    BY <2>1, <2>4, CountNat
  <2>. QED BY <2>2, <2>3, <2>5
<1>. QED BY <1>1, <1>3 DEF Holds

(* A referendum is cancelled: an open one gives up its hold.               *)
LEMMA HoldsCancelReferendum ==
    ASSUME NEW pre, NEW public \in Seq(PropType), NEW rs \in Seq(RefType), NEW ag,
           Holds(pre, public, rs, ag), NEW i \in DOMAIN rs,
           NEW new, new = IF Ongoing(rs[i]) THEN preDrop(pre, rs[i].proposal) ELSE pre
    PROVE  Holds(new, public, replaced(rs, i, Cancelled), ag)
<1>1. PICK rt, x : rt = replaced(rs, i, Cancelled) /\ x = rs[i]
  OBVIOUS
<1>2. Cancelled \in RefType /\ ~Ongoing(Cancelled)
  BY DEF Cancelled, RefType, ClosedType, Ongoing
<1>3. DOMAIN rt = DOMAIN rs /\ rt[i] = Cancelled /\ \A k \in DOMAIN rs : k # i => rt[k] = rs[k]
  BY <1>1, <1>2, Replaced
<1>4. Listing(rs) /\ x \in RefType
  BY <1>1, SeqListing
<1>5. Listing(rt)
  BY <1>3, <1>4 DEF Listing
<1>6. pre \in [Proposals -> Nat] /\ IsFiniteSet(ag) /\ (Ongoing(x) => x.proposal \in Proposals)
  BY <1>4, OngoingTyped DEF Holds
<1>7. /\ new \in [Proposals -> Int]
      /\ \A p \in Proposals : new[p] = pre[p] - (IF Ongoing(x) /\ p = x.proposal THEN 1 ELSE 0)
  <2>1. CASE Ongoing(x)
    <3>1. new = preDrop(pre, x.proposal)
      BY <1>1, <2>1
    <3>2. PICK call \in Proposals : call = x.proposal
      BY <1>6, <2>1
    <3>3. /\ preDrop(pre, call) \in [Proposals -> Int]
          /\ \A p \in Proposals : preDrop(pre, call)[p] = pre[p] - (IF p = call THEN 1 ELSE 0)
      BY <1>6, <3>2, Dropping
    <3>. QED BY <2>1, <3>1, <3>2, <3>3
  <2>2. CASE ~Ongoing(x)
    <3>1. new = pre
      BY <1>1, <2>2
    <3>. QED BY <1>6, <2>2, <3>1
  <2>. QED BY <2>1, <2>2
<1>8. ASSUME NEW p \in Proposals
      PROVE  /\ new[p] >= Count(public, Calling(p)) + Count(rt, Asking(p)) + Cardinality(Tasks(ag, p))
             /\ new[p] \in Nat
  <2>1. Count(rt, Asking(p)) + (IF x \in Asking(p) THEN 1 ELSE 0)
        = Count(rs, Asking(p)) + (IF rt[i] \in Asking(p) THEN 1 ELSE 0)
    BY <1>1, <1>3, <1>4, CountReplaced
  <2>2. rt[i] \notin Asking(p) /\ (x \in Asking(p) <=> (Ongoing(x) /\ p = x.proposal))
    BY <1>2, <1>3, <1>4 DEF Asking
  <2>3. PICK k, l, m, n : /\ k = Count(public, Calling(p)) /\ l = Count(rt, Asking(p))
                          /\ m = Cardinality(Tasks(ag, p)) /\ n = pre[p]
    OBVIOUS
  <2>4. /\ k \in Nat /\ m \in Nat /\ n \in Nat /\ n >= k + Count(rs, Asking(p)) + m
        /\ Count(rs, Asking(p)) \in Nat
    BY <2>3, HoldParts
  <2>5. l \in Nat
    BY <1>5, <2>3, CountNat
  <2>6. PICK b \in {0, 1} : b = IF Ongoing(x) /\ p = x.proposal THEN 1 ELSE 0
    OBVIOUS
  <2>7. Count(rs, Asking(p)) = l + b /\ new[p] = n - b
    BY <1>7, <2>1, <2>2, <2>3, <2>4, <2>5, <2>6
  <2>8. n - b >= k + l + m /\ n - b \in Nat
    BY <2>4, <2>5, <2>6, <2>7
  <2>. QED BY <2>3, <2>7, <2>8
<1>9. new \in [Proposals -> Nat]
  BY <1>7, <1>8
<1>. QED BY <1>1, <1>6, <1>8, <1>9 DEF Holds

LEMMA PartTaken ==
    ASSUME NEW S, IsFiniteSet(S), NEW T, T \subseteq S, NEW R, R = S \ T
    PROVE  IsFiniteSet(R) /\ Cardinality(R) = Cardinality(S) - Cardinality(T)
<1>1. S \cap T = T
  OBVIOUS
<1>2. IsFiniteSet(S \ T) /\ Cardinality(S \ T) = Cardinality(S) - Cardinality(S \cap T)
  BY FS_Difference
<1>. QED BY <1>1, <1>2

(* A block: what ran and what failed lose their holds, what passed hands   *)
(* its hold on to the agenda.                                              *)
taskOf(rs, i, when) == [index |-> i, call |-> rs[i].proposal, when |-> when[i]]
scheduled(rs, S, when) == {taskOf(rs, i, when) : i \in S}
released(pre, rs, due, failed) ==
    [p \in Proposals |-> pre[p] - Cardinality(Tasks(due, p))
                               - Cardinality({i \in failed : rs[i].proposal = p})]

LEMMA HoldsBlock ==
    ASSUME NEW start, NEW st, NEW c, NEW now, Launched(start, st, c, now),
           NEW pre, NEW ag, NEW public \in Seq(PropType), public = start.props.public,
           NEW rs \in Seq(RefType), rs = start.refs,
           Holds(pre, public, rs, ag),
           NEW maturing, maturing \subseteq DOMAIN rs, \A i \in maturing : Ongoing(rs[i]),
           NEW passes, passes \subseteq maturing, NEW due, due \subseteq ag, NEW when,
           NEW rt, DOMAIN rt = DOMAIN st.refs, \A i \in maturing : ~Ongoing(rt[i]),
           \A i \in DOMAIN rt \ maturing : rt[i] = st.refs[i],
           NEW new, new = released(pre, rs, due, maturing \ passes)
    PROVE  Holds(new, st.props.public, rt, (ag \ due) \cup scheduled(rs, passes, when))
<1>1. PICK ru, pu : ru = st.refs /\ pu = st.props.public
  OBVIOUS
<1>2. /\ ru \in Seq(RefType) /\ pu \in Seq(PropType)
      /\ DOMAIN rs \subseteq DOMAIN ru /\ \A i \in DOMAIN rs : ru[i] = rs[i]
  BY <1>1 DEF Launched, Money, PropsTyped
<1>3. PICK tasks, ag2 : /\ tasks = {taskOf(rs, i, when) : i \in passes} /\ ag2 = (ag \ due) \cup tasks
                       /\ tasks = scheduled(rs, passes, when)
  BY DEF scheduled
<1>4. Listing(rs) /\ Listing(ru) /\ Listing(pu)
  BY <1>2, SeqListing
<1>5. IsFiniteSet(DOMAIN rs) /\ IsFiniteSet(maturing) /\ IsFiniteSet(passes) /\ IsFiniteSet(ag)
  <2>1. IsFiniteSet(DOMAIN rs)
    BY <1>4, FS_Interval DEF Listing
  <2>2. IsFiniteSet(maturing)
    BY <2>1, FS_Subset
  <2>3. IsFiniteSet(passes)
    BY <2>2, FS_Subset
  <2>. QED BY <2>1, <2>2, <2>3 DEF Holds
<1>6. IsFiniteSet(tasks)
  <2>. DEFINE f == [i \in passes |-> taskOf(rs, i, when)]
  <2>1. f \in Surjection(passes, tasks)
    BY <1>3 DEF Surjection
  <2>. HIDE DEF f
  <2>. QED BY <1>5, <2>1, FS_Surjection
<1>7. IsFiniteSet(ag2)
  <2>1. IsFiniteSet(ag \ due)
    BY <1>5, FS_Difference
  <2>. QED BY <1>3, <1>6, <2>1, FS_Union
<1>8. ASSUME NEW p \in Proposals
      PROVE  /\ new[p] >= Count(pu, Calling(p)) + Count(rt, Asking(p)) + Cardinality(Tasks(ag2, p))
             /\ new[p] \in Nat
  <2>. DEFINE M == {i \in maturing : rs[i].proposal = p}
              P == {i \in passes : rs[i].proposal = p}
              L == {i \in maturing \ passes : rs[i].proposal = p}
              B == {k \in DOMAIN ru : ru[k] \in Asking(p)}
              C == {k \in DOMAIN rt : rt[k] \in Asking(p)}
              T == Tasks(ag, p)
              E == Tasks(due, p)
              N == {taskOf(rs, i, when) : i \in P}
  <2>1. IsFiniteSet(M) /\ IsFiniteSet(P) /\ IsFiniteSet(L) /\ IsFiniteSet(B) /\ IsFiniteSet(T) /\ IsFiniteSet(E)
    <3>1. IsFiniteSet(B)
      BY <1>4, CountNat
    <3>2. IsFiniteSet(M) /\ IsFiniteSet(P) /\ IsFiniteSet(L)
      <4>1. M \in SUBSET maturing /\ P \in SUBSET passes /\ L \in SUBSET maturing
        OBVIOUS
      <4>. HIDE DEF M, P, L
      <4>. QED BY <1>5, <4>1, FS_Subset
    <3>3. T \in SUBSET ag /\ E \in SUBSET ag
      BY DEF Tasks
    <3>4. IsFiniteSet(T) /\ IsFiniteSet(E)
      <4>. HIDE DEF T, E
      <4>. QED BY <1>5, <3>3, FS_Subset
    <3>. QED BY <3>1, <3>2, <3>4
  <2>2. /\ Cardinality(M) \in Nat /\ Cardinality(P) \in Nat /\ Cardinality(L) \in Nat
        /\ Cardinality(B) \in Nat /\ Cardinality(T) \in Nat /\ Cardinality(E) \in Nat
    <3>. HIDE DEF M, P, L, B, T, E
    <3>. QED BY <2>1, FS_CardinalityType
  <2>3. Cardinality(L) = Cardinality(M) - Cardinality(P)
    <3>1. L = M \ P /\ P \subseteq M
      OBVIOUS
    <3>. HIDE DEF M, P, L
    <3>. QED BY <2>1, <3>1, PartTaken
  <2>4. Cardinality(C) = Cardinality(B) - Cardinality(M)
    <3>1. \A i \in maturing : i \in DOMAIN rs /\ i \in DOMAIN ru /\ ru[i] = rs[i] /\ rs[i] \in RefType
      BY <1>2, SeqListing
    <3>2. \A i \in maturing : ru[i] \in Asking(p) <=> rs[i].proposal = p
      BY <3>1 DEF Asking
    <3>3. \A i \in maturing : i \in DOMAIN rt /\ rt[i] \notin Asking(p)
      BY <1>1, <3>1 DEF Asking
    <3>4. C = B \ M
      BY <1>1, <3>1, <3>2, <3>3
    <3>5. M \subseteq B
      BY <3>1, <3>2
    <3>. HIDE DEF B, C, M
    <3>. QED BY <2>1, <3>4, <3>5, PartTaken
  <2>5. Cardinality(Tasks(ag2, p)) <= Cardinality(T) - Cardinality(E) + Cardinality(P)
    <3>1. IsFiniteSet(N) /\ Cardinality(N) <= Cardinality(P)
      <4>. DEFINE f == [i \in P |-> taskOf(rs, i, when)]
      <4>1. f \in Surjection(P, N)
        BY DEF Surjection
      <4>. HIDE DEF f, P, N
      <4>. QED BY <2>1, <4>1, FS_Surjection
    <3>2. Tasks(ag2, p) = (T \ E) \cup N
      <4>1. \A i : taskOf(rs, i, when).call = rs[i].proposal
        BY DEF taskOf
      <4>2. Tasks(tasks, p) = N
        BY <1>3, <4>1 DEF Tasks
      <4>. HIDE DEF N
      <4>. QED BY <1>3, <4>2 DEF Tasks
    <3>3. E \subseteq T
      BY DEF Tasks
    <3>. HIDE DEF T, E, N, P
    <3>4. IsFiniteSet(T \ E) /\ Cardinality(T \ E) = Cardinality(T) - Cardinality(E)
      BY <2>1, <3>3, PartTaken
    <3>5. Cardinality((T \ E) \cup N) = Cardinality(T \ E) + Cardinality(N) - Cardinality((T \ E) \cap N)
      BY <3>1, <3>4, FS_Union
    <3>6. Cardinality((T \ E) \cap N) \in Nat
      <4>1. IsFiniteSet((T \ E) \cap N)
        BY <3>1, FS_Subset
      <4>. QED BY <4>1, FS_CardinalityType
    <3>7. Cardinality(N) \in Nat
      BY <3>1, FS_CardinalityType
    <3>8. PICK x, y, z, u : /\ x = Cardinality((T \ E) \cup N) /\ y = Cardinality(T \ E)
                            /\ z = Cardinality(N) /\ u = Cardinality((T \ E) \cap N)
      OBVIOUS
    <3>9. x = y + z - u /\ u \in Nat /\ z \in Nat /\ z <= Cardinality(P) /\ y = Cardinality(T) - Cardinality(E)
      BY <3>1, <3>4, <3>5, <3>6, <3>7, <3>8
    <3>. QED BY <2>2, <3>2, <3>8, <3>9, SMTT(60)
  <2>6. IsFiniteSet(Tasks(ag2, p))
    <3>1. Tasks(ag2, p) \in SUBSET ag2
      BY DEF Tasks
    <3>. QED BY <1>7, <3>1, FS_Subset
  <2>7. Cardinality(Tasks(ag2, p)) \in Nat
    BY <2>6, FS_CardinalityType
  <2>8. Cardinality(C) = Count(rt, Asking(p)) /\ Cardinality(B) = Count(ru, Asking(p))
    BY DEF Count
  <2>9. Count(pu, Calling(p)) + Cardinality(B) = Count(public, Calling(p)) + Count(rs, Asking(p))
    BY <1>1, <2>8 DEF Launched
  <2>10. /\ Count(public, Calling(p)) \in Nat /\ Count(rs, Asking(p)) \in Nat /\ pre[p] \in Nat
         /\ pre[p] >= Count(public, Calling(p)) + Count(rs, Asking(p)) + Cardinality(T)
    BY HoldParts
  <2>11. Count(pu, Calling(p)) \in Nat
    BY <1>4, CountNat
  <2>12. Cardinality(C) \in Nat
    <3>1. C \in SUBSET B
      BY <1>1, <1>2 DEF Asking
    <3>. HIDE DEF B, C
    <3>2. IsFiniteSet(C)
      BY <2>1, <3>1, FS_Subset
    <3>. QED BY <3>2, FS_CardinalityType
  <2>13. new[p] = pre[p] - Cardinality(E) - Cardinality(L)
    BY DEF released
  <2>. HIDE DEF M, P, L, B, C, T, E, N
  <2>14. PICK m, pp, l, b, cc, t, e, t2, k, k0, b0, n :
             /\ m = Cardinality(M) /\ pp = Cardinality(P) /\ l = Cardinality(L)
             /\ b = Cardinality(B) /\ cc = Cardinality(C) /\ t = Cardinality(T)
             /\ e = Cardinality(E) /\ t2 = Cardinality(Tasks(ag2, p))
             /\ k = Count(pu, Calling(p)) /\ k0 = Count(public, Calling(p))
             /\ b0 = Count(rs, Asking(p)) /\ n = pre[p]
    OBVIOUS
  <2>15. /\ m \in Nat /\ pp \in Nat /\ l \in Nat /\ b \in Nat /\ cc \in Nat /\ t \in Nat /\ e \in Nat
         /\ t2 \in Nat /\ k \in Nat /\ k0 \in Nat /\ b0 \in Nat /\ n \in Nat
    BY <2>2, <2>7, <2>10, <2>11, <2>12, <2>14
  <2>16. /\ l = m - pp /\ cc = b - m /\ t2 <= t - e + pp /\ k + b = k0 + b0 /\ n >= k0 + b0 + t
    BY <2>3, <2>4, <2>5, <2>9, <2>10, <2>14
  <2>17. n - e - l >= k + cc + t2 /\ n - e - l \in Nat
    BY <2>15, <2>16
  <2>18. new[p] = n - e - l
    BY <2>13, <2>14
  <2>. QED BY <2>8, <2>14, <2>17, <2>18
<1>9. new \in [Proposals -> Nat]
  BY <1>8 DEF released
<1>. QED BY <1>1, <1>3, <1>7, <1>8, <1>9 DEF Holds

LEMMA HoldsLaunched ==
    ASSUME NEW start, NEW st, NEW c, NEW now, Launched(start, st, c, now), NEW pre, NEW ag,
           start.props.public \in Seq(PropType), start.refs \in Seq(RefType),
           Holds(pre, start.props.public, start.refs, ag)
    PROVE  Holds(pre, st.props.public, st.refs, ag)
<1>1. ASSUME NEW p \in Proposals
      PROVE  pre[p] >= Count(st.props.public, Calling(p)) + Count(st.refs, Asking(p))
                       + Cardinality(Tasks(ag, p))
  <2>1. Count(st.props.public, Calling(p)) + Count(st.refs, Asking(p))
        = Count(start.props.public, Calling(p)) + Count(start.refs, Asking(p))
    BY DEF Launched
  <2>. QED BY <2>1 DEF Holds
<1>. QED BY <1>1 DEF Holds

-----------------------------------------------------------------------------
(* The launch clock                                                        *)

LEMMA QuotientBelow ==
    ASSUME NEW x \in Int, NEW y \in Nat \ {0}
    PROVE  x \div y \in Int /\ (x \div y) * y <= x
BY SMT

(* A launch that is due is the first in its period, and the next one is    *)
(* put at a multiple of the period that is still ahead.                    *)
LEMMA LaunchesAgain ==
    ASSUME NEW next, NEW last, Launches(next, last), NEW t \in Nat, t >= next
    PROVE  /\ Launches(next + ((t - next) \div LaunchPeriod + 1) * LaunchPeriod, t)
           /\ t \div LaunchPeriod > last \div LaunchPeriod
<1>1. PICK P \in Nat \ {0} : P = LaunchPeriod
  BY DemocracyAssumption
<1>2. PICK m \in Nat : next = m * P
  BY <1>1 DEF Launches
<1>3. next \in Nat /\ last \in Int /\ last < next
  BY <1>2, ProductNat DEF Launches
<1>4. PICK d \in Nat : d = t - next
  BY <1>3
<1>5. PICK q, r : q = d \div P /\ r = d % P
  OBVIOUS
<1>6. q \in Nat /\ r \in Nat /\ r < P /\ d = q * P + r
  BY <1>5, Division
<1>7. PICK z : z = next + (q + 1) * P
  OBVIOUS
<1>8. /\ (q + 1) * P = q * P + P /\ q * P \in Nat
      /\ (m + (q + 1)) * P = m * P + (q + 1) * P
  BY <1>6, SMT
<1>9. z > t /\ m + (q + 1) \in Nat /\ z = (m + (q + 1)) * P
  BY <1>2, <1>3, <1>4, <1>6, <1>7, <1>8
<1>10. Launches(z, t)
  BY <1>1, <1>9 DEF Launches
<1>11. t \div P >= m
  <2>1. PICK a, b : a = t \div P /\ b = t % P
    OBVIOUS
  <2>2. a \in Nat /\ b \in Nat /\ b < P /\ t = a * P + b
    BY <2>1, Division
  <2>3. SUFFICES ASSUME ~(a >= m) PROVE FALSE
    BY <2>1
  <2>4. a + 1 <= m
    BY <2>2, <2>3
  <2>5. (a + 1) * P <= m * P
    BY <2>2, <2>4, ProductMonotone
  <2>6. (a + 1) * P = a * P + P /\ a * P \in Nat
    BY <2>2, SMT
  <2>. QED BY <1>2, <1>3, <2>2, <2>5, <2>6
<1>12. last \div P < m
  <2>1. PICK a : a = last \div P
    OBVIOUS
  <2>2. a \in Int /\ a * P <= last
    BY <1>3, <2>1, QuotientBelow
  <2>3. SUFFICES ASSUME a >= m PROVE FALSE
    BY <2>1, <2>2
  <2>4. m * P <= a * P /\ a * P \in Nat
    BY <2>2, <2>3, ProductMonotone
  <2>. QED BY <1>2, <1>3, <2>2, <2>4
<1>13. t \div P > last \div P
  <2>1. t \div P \in Int /\ last \div P \in Int
    BY <1>3, QuotientBelow
  <2>2. PICK a, b : a = t \div P /\ b = last \div P
    OBVIOUS
  <2>3. a > b
    BY <1>11, <1>12, <2>1, <2>2
  <2>. QED BY <2>2, <2>3
<1>. QED BY <1>1, <1>4, <1>5, <1>7, <1>10, <1>13

-----------------------------------------------------------------------------
(* Steps                                                                   *)

MinimumKept == Len(collators'.candidates) >= min(Len(collators.candidates), MinCandidates)
StepOK == IInv' /\ PassedByMajority /\ LaunchedOncePerPeriod /\ MinimumKept

NoneDecided == \A i \in DOMAIN refs : Ongoing(refs[i]) => refs'[i].state # "finished"

LEMMA LenKept ==
    ASSUME IInv
    PROVE  Len(collators.candidates) >= min(Len(collators.candidates), MinCandidates)
<1>1. collators.candidates \in Seq(CandidateType) /\ MinCandidates \in Nat
  BY CollatorAssumption DEF IInv, Money, CollatorsTyped, CollatorsType
<1>2. Len(collators.candidates) \in Nat
  BY <1>1, SeqListing
<1>. QED BY <1>1, <1>2 DEF min

(* What every call keeps.                                                  *)
LEMMA CallStep ==
    ASSUME IInv, Call, treasury' \in 0 .. Treasury, Money(escrow', props', collators'),
           Polls(refs', votes', height), Holds(preimages', props'.public, refs', agenda),
           NoneDecided, MinimumKept
    PROVE  StepOK
<1>1. /\ height' = height /\ time' = time /\ next_launch' = next_launch
      /\ last_launch' = last_launch /\ agenda' = agenda /\ calls' = calls + 1 /\ calls < MaxCalls
  BY DEF Call
<1>2. Clock(height', calls', time', next_launch', last_launch', treasury')
  <2>1. calls' \in 0 .. MaxCalls
    <3>1. calls \in 0 .. MaxCalls /\ MaxCalls \in Nat
      BY DemocracyAssumption DEF IInv, Clock
    <3>. QED BY <1>1, <3>1
  <2>. QED BY <1>1, <2>1 DEF IInv, Clock
<1>3. IInv'
  BY <1>1, <1>2 DEF IInv
<1>4. PassedByMajority
  BY DEF PassedByMajority, NoneDecided
<1>5. LaunchedOncePerPeriod
  BY <1>1 DEF LaunchedOncePerPeriod
<1>. QED BY <1>3, <1>4, <1>5 DEF StepOK

LEMMA ProposeStep ==
    ASSUME IInv, NEW who \in Accounts, NEW p \in Proposals, NEW value \in Deposits,
           propose(who, p, value), collators' = collators
    PROVE  StepOK
<1>1. /\ Call /\ escrow' \in reserve(escrow, who, value, height)
      /\ preimages' = preAdd(preimages, p)
      /\ props' = [count |-> props.count + 1,
                   public |-> Append(props.public,
                                     [index |-> props.count, call |-> p, proposer |-> who]),
                   deposit |-> with(props.deposit, props.count, [whos |-> <<who>>, amount |-> value])]
      /\ refs' = refs /\ votes' = votes /\ treasury' = treasury
  BY DEF propose, preAdd
<1>2. Money(escrow, props, collators) /\ value \in Nat
  BY DemocracyAssumption DEF IInv
<1>3. PICK x : x = [index |-> props.count, call |-> p, proposer |-> who]
  OBVIOUS
<1>4. Money(escrow', props', collators') /\ Extends(props.public, props'.public, x)
  BY <1>1, <1>2, <1>3, ProposeMoney
<1>5. x \in PropType /\ x.call = p /\ props.public \in Seq(PropType) /\ refs \in Seq(RefType)
  BY <1>3 DEF IInv, Money, PropsTyped, PropType, Polls
<1>6. Holds(preAdd(preimages, x.call), props'.public, refs, agenda)
  BY <1>4, <1>5, HoldsPropose DEF IInv
<1>7. Holds(preimages', props'.public, refs', agenda)
  BY <1>1, <1>5, <1>6
<1>8. NoneDecided /\ MinimumKept /\ treasury' \in 0 .. Treasury /\ Polls(refs', votes', height)
  BY <1>1, LenKept DEF NoneDecided, MinimumKept, IInv, Clock, Ongoing
<1>. QED BY <1>1, <1>4, <1>7, <1>8, CallStep

LEMMA SecondStep ==
    ASSUME IInv, NEW who \in Accounts, NEW index \in DOMAIN props.deposit,
           second(who, index), collators' = collators
    PROVE  StepOK
<1>1. /\ Call /\ escrow' \in reserve(escrow, who, props.deposit[index].amount, height)
      /\ props' = propsSeconded(props, index, who)
      /\ refs' = refs /\ votes' = votes /\ treasury' = treasury /\ preimages' = preimages
  BY DEF second, propsSeconded
<1>2. Money(escrow, props, collators)
  BY DEF IInv
<1>3. Money(escrow', props', collators') /\ props'.public = props.public
  BY <1>1, <1>2, SecondMoney
<1>4. Holds(preimages', props'.public, refs', agenda)
  BY <1>1, <1>3 DEF IInv
<1>5. NoneDecided /\ MinimumKept /\ treasury' \in 0 .. Treasury /\ Polls(refs', votes', height)
  BY <1>1, LenKept DEF NoneDecided, MinimumKept, IInv, Clock, Ongoing
<1>. QED BY <1>1, <1>3, <1>4, <1>5, CallStep

(* A referendum that goes on with another tally or end.                    *)
LEMMA ReplacedStep ==
    ASSUME IInv, Call, NEW i \in DOMAIN refs, Ongoing(refs[i]), NEW x \in RefType, Ongoing(x),
           x.proposal = refs[i].proposal, refs' = replaced(refs, i, x), Polls(refs', votes', height),
           escrow' = escrow, props' = props, collators' = collators,
           preimages' = preimages, treasury' = treasury
    PROVE  StepOK
<1>1. props.public \in Seq(PropType) /\ refs \in Seq(RefType)
  BY DEF IInv, Money, PropsTyped, Polls
<1>2. Holds(preimages', props'.public, refs', agenda)
  BY <1>1, HoldsReplaced DEF IInv
<1>3. NoneDecided
  <2>1. refs'[i] = x /\ \A k \in DOMAIN refs : k # i => refs'[k] = refs[k]
    BY <1>1, Replaced
  <2>. QED BY <2>1 DEF NoneDecided, Ongoing
<1>4. MinimumKept /\ treasury' \in 0 .. Treasury /\ Money(escrow', props', collators')
  BY LenKept DEF MinimumKept, IInv, Clock
<1>. QED BY <1>2, <1>3, <1>4, CallStep

LEMMA VoteStep ==
    ASSUME IInv, NEW who \in Accounts, NEW i \in DOMAIN refs, NEW x \in VoteType, vote(who, i, x),
           collators' = collators
    PROVE  StepOK
<1>1. /\ Call /\ Ongoing(refs[i])
      /\ \E rest \in IF i \in DOMAIN votes[who] THEN tally_remove(refs[i].tally, votes[who][i])
                     ELSE {refs[i].tally} :
           \E tally \in tally_add(rest, x) : refs' = [refs EXCEPT ![i].tally = tally]
      /\ votes' = votesChanged(votes, who, with(votes[who], i, x))
      /\ escrow' = escrow /\ props' = props /\ preimages' = preimages /\ treasury' = treasury
  BY DEF vote, votesChanged
<1>2. PICK rest \in (IF i \in DOMAIN votes[who] THEN tally_remove(refs[i].tally, votes[who][i])
                     ELSE {refs[i].tally}) :
           \E tally \in tally_add(rest, x) : refs' = [refs EXCEPT ![i].tally = tally]
  BY <1>1
<1>3. PICK t \in tally_add(rest, x) : refs' = [refs EXCEPT ![i].tally = t]
  BY <1>2
<1>4. Polls(refs, votes, height)
  BY DEF IInv
<1>5. /\ t \in TallyType
      /\ Polls(replaced(refs, i, retallied(refs[i], t)), votesChanged(votes, who, with(votes[who], i, x)), height)
  BY <1>1, <1>4, PollsVote
<1>6. PICK q : q = retallied(refs[i], t)
  OBVIOUS
<1>7. refs[i] \in RefType
  BY <1>4, SeqListing DEF Polls
<1>8. refs[i] \in OngoingType
  BY <1>1, <1>7, OngoingTyped
<1>9. q \in RefType /\ Ongoing(q) /\ q.proposal = refs[i].proposal
  BY <1>5, <1>6, <1>8, Retallied
<1>10. refs' = replaced(refs, i, q)
  BY <1>3, <1>6 DEF replaced, retallied
<1>11. Polls(refs', votes', height)
  BY <1>1, <1>5, <1>6, <1>10
<1>. QED BY <1>1, <1>9, <1>10, <1>11, ReplacedStep

LEMMA RemoveVoteStep ==
    ASSUME IInv, NEW who \in Accounts, NEW i \in DOMAIN refs, remove_vote(who, i),
           collators' = collators
    PROVE  StepOK
<1>1. /\ Call /\ i \in DOMAIN votes[who]
      /\ votes' = votesChanged(votes, who, without(votes[who], i))
      /\ escrow' = escrow /\ props' = props /\ preimages' = preimages /\ treasury' = treasury
  BY DEF remove_vote, votesChanged
<1>2. Polls(refs, votes, height)
  BY DEF IInv
<1>3. CASE Ongoing(refs[i])
  <2>1. PICK t \in tally_remove(refs[i].tally, votes[who][i]) : refs' = [refs EXCEPT ![i].tally = t]
    BY <1>3 DEF remove_vote
  <2>2. /\ t \in TallyType
        /\ Polls(replaced(refs, i, retallied(refs[i], t)), votesChanged(votes, who, without(votes[who], i)), height)
    BY <1>1, <1>2, <1>3, PollsUnvote
  <2>3. PICK q : q = retallied(refs[i], t)
    OBVIOUS
  <2>4. refs[i] \in RefType
    BY <1>2, SeqListing DEF Polls
  <2>5. refs[i] \in OngoingType
    BY <1>3, <2>4, OngoingTyped
  <2>6. q \in RefType /\ Ongoing(q) /\ q.proposal = refs[i].proposal
    BY <2>2, <2>3, <2>5, Retallied
  <2>7. refs' = replaced(refs, i, q)
    BY <2>1, <2>3 DEF replaced, retallied
  <2>8. Polls(refs', votes', height)
    BY <1>1, <2>2, <2>3, <2>7
  <2>. QED BY <1>1, <1>3, <2>6, <2>7, <2>8, ReplacedStep
<1>4. CASE ~Ongoing(refs[i])
  <2>1. refs' = refs
    BY <1>4 DEF remove_vote
  <2>2. Polls(refs', votes', height)
    BY <1>1, <1>2, <1>4, <2>1, PollsForget
  <2>3. NoneDecided /\ MinimumKept /\ treasury' \in 0 .. Treasury
    BY <1>1, <2>1, LenKept DEF NoneDecided, MinimumKept, IInv, Clock, Ongoing
  <2>4. Money(escrow', props', collators') /\ Holds(preimages', props'.public, refs', agenda)
    BY <1>1, <2>1 DEF IInv
  <2>. QED BY <1>1, <2>2, <2>3, <2>4, CallStep
<1>. QED BY <1>3, <1>4

LEMMA LaunchedStart ==
    ASSUME NEW e, NEW p, NEW c, Money(e, p, c), NEW rs \in Seq(RefType), NEW now,
           NEW start, start = [props |-> p, escrow |-> e, refs |-> rs]
    PROVE  Launched(start, start, c, now)
<1>1. start.props = p /\ start.escrow = e /\ start.refs = rs
  OBVIOUS
<1>. QED BY <1>1 DEF Launched

LEMMA FastTrackStep ==
    ASSUME IInv, NEW index, NEW delay \in Delays, NEW period \in {FastTrackVotingPeriod, VotingPeriod},
           fast_track_with_voting_period(index, delay, period), collators' = collators
    PROVE  StepOK
<1>1. PICK start : start = [props |-> props, escrow |-> escrow, refs |-> refs]
  OBVIOUS
<1>2. /\ Call /\ votes' = votes /\ preimages' = preimages /\ treasury' = treasury
  BY DEF fast_track_with_voting_period
<1>3. PICK i \in position(index) :
          LET st == table(start, i, height + period, delay)
          IN  props' = st.props /\ escrow' = st.escrow /\ refs' = st.refs
  BY <1>1 DEF fast_track_with_voting_period
<1>4. PICK st : st = table(start, i, height + period, delay)
  OBVIOUS
<1>5. props' = st.props /\ escrow' = st.escrow /\ refs' = st.refs
  BY <1>3, <1>4
<1>6. /\ Money(escrow, props, collators) /\ refs \in Seq(RefType) /\ props.public \in Seq(PropType)
      /\ height \in Nat /\ period \in 1 .. VotingPeriod /\ delay \in Nat
  <2>1. height \in Nat
    BY EscrowAssumption DEF IInv, Clock
  <2>2. period \in 1 .. VotingPeriod /\ delay \in Nat
    BY DemocracyAssumption
  <2>. QED BY <2>1, <2>2 DEF IInv, Money, PropsTyped, Polls
<1>7. start.props = props /\ start.escrow = escrow /\ start.refs = refs
  BY <1>1
<1>8. Launched(start, start, collators, height)
  BY <1>1, <1>6, LaunchedStart
<1>9. i \in DOMAIN start.props.public
  BY <1>7 DEF position
<1>10. Launched(start, st, collators, height)
  BY <1>4, <1>6, <1>8, <1>9, TableLaunches
<1>11. Money(st.escrow, st.props, collators) /\ st.refs \in Seq(RefType)
       /\ \A k \in DOMAIN refs : st.refs[k] = refs[k]
  BY <1>7, <1>10 DEF Launched
<1>12. Polls(refs', votes', height)
  <2>1. Polls(start.refs, votes, height)
    BY <1>7 DEF IInv
  <2>2. PICK closed, rt : closed = {} /\ rt = st.refs
    OBVIOUS
  <2>3. /\ closed \subseteq DOMAIN start.refs
        /\ \A k \in DOMAIN start.refs \ closed :
               Ongoing(start.refs[k]) => Mature(start.refs[k], height)
        /\ rt \in Seq(RefType) /\ DOMAIN rt = DOMAIN st.refs
        /\ \A k \in DOMAIN rt \ closed : rt[k] = st.refs[k]
        /\ \A k \in closed : ~Ongoing(rt[k])
    BY <1>11, <2>1, <2>2 DEF Polls
  <2>4. Polls(rt, votes, height)
    BY <1>10, <2>1, <2>3, LaunchedPolls
  <2>. QED BY <1>2, <1>5, <2>2, <2>4
<1>13. Holds(preimages', props'.public, refs', agenda)
  <2>1. Holds(preimages, start.props.public, start.refs, agenda)
    BY <1>7 DEF IInv
  <2>2. start.props.public \in Seq(PropType) /\ start.refs \in Seq(RefType)
    BY <1>6, <1>7
  <2>3. Holds(preimages, st.props.public, st.refs, agenda)
    BY <1>10, <2>1, <2>2, HoldsLaunched
  <2>. QED BY <1>2, <1>5, <2>3
<1>14. NoneDecided /\ MinimumKept /\ treasury' \in 0 .. Treasury
  BY <1>2, <1>5, <1>11, LenKept DEF NoneDecided, MinimumKept, IInv, Clock, Ongoing
<1>15. Money(escrow', props', collators')
  BY <1>5, <1>11
<1>. QED BY <1>2, <1>12, <1>13, <1>14, <1>15, CallStep

LEMMA FastTrackReferendumStep ==
    ASSUME IInv, NEW i \in DOMAIN refs, fast_track_referendum(i), collators' = collators
    PROVE  StepOK
<1>1. /\ Call /\ Ongoing(refs[i])
      /\ refs' = [refs EXCEPT ![i].end = height + FastTrackVotingPeriod]
      /\ escrow' = escrow /\ props' = props /\ votes' = votes /\ preimages' = preimages
      /\ treasury' = treasury
  BY DEF fast_track_referendum
<1>2. PICK end, q : end = height + FastTrackVotingPeriod /\ q = rescheduled(refs[i], end)
  OBVIOUS
<1>3. /\ height \in Nat /\ FastTrackVotingPeriod \in 1 .. VotingPeriod /\ end \in Nat
      /\ Polls(refs, votes, height)
  <2>1. height \in Nat
    BY EscrowAssumption DEF IInv, Clock
  <2>2. FastTrackVotingPeriod \in 1 .. VotingPeriod /\ FastTrackVotingPeriod \in Nat
    BY DemocracyAssumption
  <2>. QED BY <1>2, <2>1, <2>2 DEF IInv
<1>4. refs[i] \in RefType
  BY <1>3, SeqListing DEF Polls
<1>5. refs[i] \in OngoingType
  BY <1>1, <1>4, OngoingTyped
<1>6. q \in RefType /\ Ongoing(q) /\ q.proposal = refs[i].proposal
  BY <1>2, <1>3, <1>5, Rescheduled
<1>7. refs' = replaced(refs, i, q)
  BY <1>1, <1>2 DEF replaced, rescheduled
<1>8. Polls(refs', votes', height)
  <2>1. Polls(replaced(refs, i, rescheduled(refs[i], height + FastTrackVotingPeriod)), votes, height)
    BY <1>1, <1>3, PollsRescheduled
  <2>. QED BY <1>1, <1>2, <1>7, <2>1
<1>. QED BY <1>1, <1>6, <1>7, <1>8, ReplacedStep

LEMMA CancelReferendumStep ==
    ASSUME IInv, NEW i \in DOMAIN refs, cancel_referendum(i), collators' = collators
    PROVE  StepOK
<1>1. /\ Call /\ refs' = replaced(refs, i, Cancelled)
      /\ preimages' = IF Ongoing(refs[i]) THEN preDrop(preimages, refs[i].proposal) ELSE preimages
      /\ escrow' = escrow /\ props' = props /\ votes' = votes /\ treasury' = treasury
  BY DEF cancel_referendum, replaced, preDrop
<1>2. Polls(refs, votes, height) /\ refs \in Seq(RefType) /\ props.public \in Seq(PropType)
  BY DEF IInv, Money, PropsTyped, Polls
<1>3. Polls(refs', votes', height)
  BY <1>1, <1>2, PollsClosed
<1>4. Holds(preimages', props'.public, refs', agenda)
  <2>1. Holds(preimages', props.public, replaced(refs, i, Cancelled), agenda)
    BY <1>1, <1>2, HoldsCancelReferendum DEF IInv
  <2>. QED BY <1>1, <2>1
<1>5. NoneDecided
  <2>1. Cancelled \in RefType /\ Cancelled.state = "none"
    BY DEF Cancelled, RefType, ClosedType
  <2>2. refs'[i] = Cancelled /\ \A k \in DOMAIN refs : k # i => refs'[k] = refs[k]
    BY <1>1, <1>2, <2>1, Replaced
  <2>. QED BY <2>1, <2>2 DEF NoneDecided, Ongoing
<1>6. MinimumKept /\ treasury' \in 0 .. Treasury /\ Money(escrow', props', collators')
  BY <1>1, LenKept DEF MinimumKept, IInv, Clock
<1>. QED BY <1>1, <1>3, <1>4, <1>5, <1>6, CallStep

LEMMA ClearStep ==
    ASSUME IInv, clear_public_proposals, collators' = collators
    PROVE  StepOK
<1>1. /\ Call /\ props' = [props EXCEPT !.public = <<>>]
      /\ escrow' = escrow /\ refs' = refs /\ votes' = votes /\ preimages' = preimages
      /\ treasury' = treasury
  BY DEF clear_public_proposals
<1>2. Money(escrow, props, collators) /\ refs \in Seq(RefType) /\ props.public \in Seq(PropType)
  BY DEF IInv, Money, PropsTyped, Polls
<1>3. Money(escrow', props', collators') /\ props'.public = <<>>
  BY <1>1, <1>2, ClearMoney
<1>4. Holds(preimages', props'.public, refs', agenda)
  BY <1>1, <1>2, <1>3, HoldsClear DEF IInv
<1>5. NoneDecided /\ MinimumKept /\ treasury' \in 0 .. Treasury /\ Polls(refs', votes', height)
  BY <1>1, LenKept DEF NoneDecided, MinimumKept, IInv, Clock, Ongoing
<1>. QED BY <1>1, <1>3, <1>4, <1>5, CallStep

LEMMA CancelProposalStep ==
    ASSUME IInv, NEW who, NEW index, cancel_proposal(who, index), collators' = collators
    PROVE  StepOK
<1>1. /\ Call /\ escrow' = unreserve_all(escrow, props.deposit[index])
      /\ refs' = refs /\ votes' = votes /\ treasury' = treasury
  BY DEF cancel_proposal
<1>2. PICK i \in position(index) :
          /\ props' = [props EXCEPT !.public = remove_at(@, i), !.deposit = without(@, index)]
          /\ preimages' = [preimages EXCEPT ![props.public[i].call] = @ - 1]
  BY DEF cancel_proposal
<1>3. PICK t : t = remove_at(props.public, i)
  OBVIOUS
<1>4. i \in DOMAIN props.public /\ index = props.public[i].index
  BY DEF position
<1>5. Money(escrow, props, collators) /\ refs \in Seq(RefType) /\ props.public \in Seq(PropType)
  BY DEF IInv, Money, PropsTyped, Polls
<1>6. t \in Seq(PropType) /\ Dropped(props.public, t, i)
  BY <1>3, <1>4, <1>5, RemoveAtDropped DEF remove_at
<1>7. props' = dropped(props, t, index) /\ preimages' = preDrop(preimages, props.public[i].call)
  BY <1>2, <1>3 DEF dropped, preDrop
<1>8. Money(escrow', props', collators') /\ props'.public = t
  BY <1>1, <1>4, <1>5, <1>6, <1>7, DropProposalMoney
<1>9. Holds(preimages', props'.public, refs', agenda)
  <2>1. Holds(preDrop(preimages, props.public[i].call), t, refs, agenda)
    BY <1>4, <1>5, <1>6, HoldsCancelProposal DEF IInv
  <2>. QED BY <1>1, <1>7, <1>8, <2>1
<1>10. NoneDecided /\ MinimumKept /\ treasury' \in 0 .. Treasury /\ Polls(refs', votes', height)
  BY <1>1, LenKept DEF NoneDecided, MinimumKept, IInv, Clock, Ongoing
<1>. QED BY <1>1, <1>8, <1>9, <1>10, CallStep

LEMMA SpendStep ==
    ASSUME IInv, NEW value \in Nat, spend_from_treasury(value), collators' = collators
    PROVE  StepOK
<1>1. /\ Call /\ value <= treasury /\ treasury' = treasury - value
      /\ escrow' = escrow /\ props' = props /\ refs' = refs /\ votes' = votes
      /\ preimages' = preimages
  BY DEF spend_from_treasury
<1>2. treasury' \in 0 .. Treasury
  <2>1. treasury \in 0 .. Treasury /\ Treasury \in Nat
    BY DemocracyAssumption DEF IInv, Clock
  <2>. QED BY <1>1, <2>1
<1>3. NoneDecided /\ MinimumKept
  BY <1>1, LenKept DEF NoneDecided, MinimumKept, Ongoing
<1>4. /\ Money(escrow', props', collators') /\ Polls(refs', votes', height)
      /\ Holds(preimages', props'.public, refs', agenda)
  BY <1>1 DEF IInv
<1>. QED BY <1>1, <1>2, <1>3, <1>4, CallStep

LEMMA ChangeLockStep ==
    ASSUME IInv, NEW who, NEW results, change_lock(who, results), collators' = collators,
           \A x \in results : x \in EscrowType /\ x.reserved = escrow.reserved
    PROVE  StepOK
<1>1. /\ Call /\ escrow' \in results
      /\ props' = props /\ refs' = refs /\ votes' = votes /\ preimages' = preimages
      /\ treasury' = treasury
  BY DEF change_lock
<1>2. Money(escrow, props, collators)
  BY DEF IInv
<1>3. Money(escrow', props', collators')
  BY <1>1, <1>2, EscrowChanged
<1>4. NoneDecided /\ MinimumKept /\ treasury' \in 0 .. Treasury
  BY <1>1, LenKept DEF NoneDecided, MinimumKept, IInv, Clock, Ongoing
<1>5. Polls(refs', votes', height) /\ Holds(preimages', props'.public, refs', agenda)
  BY <1>1 DEF IInv
<1>. QED BY <1>1, <1>3, <1>4, <1>5, CallStep

LEMMA CollatorStep ==
    ASSUME IInv, NEW results, CollatorCall(results),
           \A r \in results : /\ Money(r.escrow, props, r.coll)
                              /\ Len(r.coll.candidates) >= min(Len(collators.candidates), MinCandidates)
    PROVE  StepOK
<1>1. /\ Call /\ props' = props /\ refs' = refs /\ votes' = votes /\ preimages' = preimages
      /\ treasury' = treasury
  BY DEF CollatorCall
<1>2. PICK r \in results : escrow' = r.escrow /\ collators' = r.coll
  BY DEF CollatorCall
<1>3. Money(escrow', props', collators') /\ MinimumKept
  BY <1>1, <1>2 DEF MinimumKept
<1>4. NoneDecided /\ treasury' \in 0 .. Treasury
  BY <1>1 DEF NoneDecided, IInv, Clock, Ongoing
<1>5. Polls(refs', votes', height) /\ Holds(preimages', props'.public, refs', agenda)
  BY <1>1 DEF IInv
<1>. QED BY <1>1, <1>3, <1>4, <1>5, CallStep

-----------------------------------------------------------------------------
(* A block                                                                 *)

(* The author is noted and a session may begin: bonds of the candidates    *)
(* that remain are still what is reserved.                                 *)
LEMMA SessionMoney ==
    ASSUME IInv, NEW author \in Accounts, NEW now \in Nat, NEW noted, NEW s,
           noted = note_author(collators, author, now),
           s = IF now % SessionPeriod = 0 THEN kick_stale_candidates(noted, escrow, now)
               ELSE [coll |-> noted, escrow |-> escrow]
    PROVE  /\ Money(s.escrow, props, s.coll)
           /\ Len(s.coll.candidates) >= min(Len(collators.candidates), MinCandidates)
<1>1. Money(escrow, props, collators)
  BY DEF IInv
<1>2. Money(escrow, props, noted) /\ noted.candidates = collators.candidates
  BY <1>1, NoteAuthorMoney
<1>3. CASE now % SessionPeriod = 0
  <2>1. s = kick_stale_candidates(noted, escrow, now)
    BY <1>3
  <2>2. /\ Money(s.escrow, props, s.coll)
        /\ Len(s.coll.candidates) >= min(Len(noted.candidates), MinCandidates)
    BY <1>2, <2>1, KickMoney
  <2>. QED BY <1>2, <2>2
<1>4. CASE ~(now % SessionPeriod = 0)
  <2>1. s.coll = noted /\ s.escrow = escrow
    BY <1>4
  <2>. QED BY <1>2, <2>1, LenKept
<1>. QED BY <1>3, <1>4

LEMMA FinishedTyped ==
    ASSUME NEW now \in Nat, NEW b \in BOOLEAN
    PROVE  LET r == Finished(now, b) IN
           r \in RefType /\ ~Ongoing(r) /\ r.approved = b
<1>1. Finished(now, b) = [state |-> "finished", end |-> now, approved |-> b]
  BY DEF Finished
<1>2. PICK r : r = [state |-> "finished", end |-> now, approved |-> b]
  OBVIOUS
<1>3. r \in [state : {"finished"}, end : Nat, approved : BOOLEAN] /\ r.approved = b
  BY <1>2, Zenon
<1>4. r.state = "finished"
  BY <1>2
<1>5. r \in RefType /\ ~Ongoing(r)
  BY <1>3, <1>4 DEF RefType, ClosedType, Ongoing
<1>. QED BY <1>1, <1>2, <1>3, <1>5

LEMMA BlockStep ==
    ASSUME IInv, NEW step \in TimeSteps, NEW author \in Authors, Block(step, author)
    PROVE  StepOK
<1>1. PICK now : now = height + 1
  OBVIOUS
<1>2. PICK noted : noted = note_author(collators, author, now)
  OBVIOUS
<1>3. PICK s : s = IF now % SessionPeriod = 0 THEN kick_stale_candidates(noted, escrow, now)
                   ELSE [coll |-> noted, escrow |-> escrow]
  OBVIOUS
<1>4. on_initialize(step, s.escrow) /\ collators' = s.coll
  BY <1>1, <1>2, <1>3 DEF Block
<1>5. PICK t : t = time + step
  OBVIOUS
<1>6. PICK start : start = [props |-> props, escrow |-> s.escrow, refs |-> refs]
  OBVIOUS
<1>7. PICK st : st = IF t >= next_launch THEN launch_public(launch_public(start, now), now) ELSE start
  OBVIOUS
<1>8. PICK maturing : maturing = {i \in DOMAIN refs : Ongoing(refs[i]) /\ refs[i].end = now}
  OBVIOUS
<1>9. PICK passes : passes = {i \in maturing : approved(refs[i].tally, total_supply(s.escrow, now))}
  OBVIOUS
<1>10. PICK due : due = {task \in agenda : task.when = now}
  OBVIOUS
<1>11. /\ height < MaxHeight /\ height' = now /\ time' = t
       /\ next_launch' = IF t >= next_launch THEN next_launch_after(t) ELSE next_launch
       /\ last_launch' = IF t >= next_launch THEN t ELSE last_launch
       /\ props' = st.props /\ escrow' = st.escrow
       /\ refs' = [i \in DOMAIN st.refs |-> IF i \in maturing THEN Finished(now, i \in passes)
                                                              ELSE st.refs[i]]
       /\ agenda' = (agenda \ due)
                    \cup {[index |-> i, call |-> refs[i].proposal,
                           when |-> now + max(refs[i].delay, 1)] : i \in passes}
       /\ preimages' = [p \in Proposals |->
               preimages[p] - Cardinality({task \in due : task.call = p})
                            - Cardinality({i \in maturing \ passes : refs[i].proposal = p})]
       /\ votes' = votes /\ treasury' = treasury /\ calls' = calls
  BY <1>1, <1>4, <1>5, <1>6, <1>7, <1>8, <1>9, <1>10 DEF on_initialize
<1>12. /\ height \in Nat /\ now \in Nat /\ now \in 0 .. MaxHeight /\ time \in Nat /\ step \in Nat
       /\ t \in Nat /\ author \in Accounts
  <2>1. height \in 0 .. MaxHeight /\ MaxHeight \in Nat /\ time \in Nat
    BY EscrowAssumption DEF IInv, Clock
  <2>2. step \in Nat /\ author \in Accounts
    BY DemocracyAssumption, EscrowUsersAssumption
  <2>. QED BY <1>1, <1>5, <1>11, <2>1, <2>2
<1>13. /\ Money(s.escrow, props, s.coll)
       /\ Len(s.coll.candidates) >= min(Len(collators.candidates), MinCandidates)
  BY <1>2, <1>3, <1>12, SessionMoney
<1>14. /\ refs \in Seq(RefType) /\ props.public \in Seq(PropType) /\ s.escrow \in EscrowType
       /\ start.props = props /\ start.escrow = s.escrow /\ start.refs = refs
  BY <1>6, <1>13 DEF IInv, Polls, Money, PropsTyped
<1>15. Launched(start, st, s.coll, now)
  <2>1. Launched(start, start, s.coll, now)
    BY <1>6, <1>13, <1>14, LaunchedStart
  <2>2. PICK st1, st2 : st1 = launch_public(start, now) /\ st2 = launch_public(st1, now)
    OBVIOUS
  <2>3. Launched(start, st1, s.coll, now)
    BY <1>12, <2>1, <2>2, LaunchLaunches
  <2>4. Launched(start, st2, s.coll, now)
    BY <1>12, <2>2, <2>3, LaunchLaunches
  <2>5. st = st2 \/ st = start
    BY <1>7, <2>2
  <2>. QED BY <2>1, <2>4, <2>5
<1>16. /\ Money(st.escrow, st.props, s.coll) /\ st.refs \in Seq(RefType)
       /\ DOMAIN refs \subseteq DOMAIN st.refs /\ \A i \in DOMAIN refs : st.refs[i] = refs[i]
  BY <1>14, <1>15 DEF Launched
<1>17. /\ maturing \subseteq DOMAIN refs /\ passes \subseteq maturing /\ due \subseteq agenda
       /\ \A i \in maturing : Ongoing(refs[i])
  BY <1>8, <1>9, <1>10
<1>18. PICK rt : rt = refs'
  OBVIOUS
<1>19. /\ DOMAIN rt = DOMAIN st.refs
       /\ \A i \in DOMAIN rt \ maturing : rt[i] = st.refs[i]
       /\ \A i \in maturing : rt[i] = Finished(now, i \in passes)
  BY <1>11, <1>16, <1>17, <1>18
<1>20. \A i \in maturing : rt[i] \in RefType /\ ~Ongoing(rt[i]) /\ rt[i].approved = (i \in passes)
  <2>1. SUFFICES ASSUME NEW i \in maturing
                 PROVE  rt[i] \in RefType /\ ~Ongoing(rt[i]) /\ rt[i].approved = (i \in passes)
    OBVIOUS
  <2>2. PICK b : b = (i \in passes)
    OBVIOUS
  <2>3. b \in BOOLEAN
    BY <2>2
  <2>4. rt[i] = Finished(now, b)
    BY <1>19, <2>2, Zenon
  <2>5. PICK r : r = Finished(now, b)
    OBVIOUS
  <2>6. r \in RefType /\ ~Ongoing(r) /\ r.approved = b
    BY <1>12, <2>3, <2>5, FinishedTyped, Zenon
  <2>. QED BY <2>2, <2>4, <2>5, <2>6, Zenon
<1>21. rt \in Seq(RefType)
  <2>1. PICK n \in Nat : DOMAIN st.refs = 1 .. n
    BY <1>16, SeqDef
  <2>2. \A i \in 1 .. n : rt[i] \in RefType
    <3>1. \A i \in 1 .. n : st.refs[i] \in RefType
      BY <1>16, <2>1, SeqDef
    <3>. QED BY <1>19, <1>20, <2>1, <3>1
  <2>3. rt = [i \in 1 .. n |-> rt[i]]
    BY <1>11, <1>18, <2>1
  <2>4. rt \in [1 .. n -> RefType]
    BY <2>2, <2>3
  <2>. QED BY <2>4, SeqDef
<1>22. Polls(refs', votes', now)
  <2>1. Polls(start.refs, votes, height)
    BY <1>14 DEF IInv
  <2>2. \A i \in DOMAIN start.refs \ maturing : Ongoing(start.refs[i]) => Mature(start.refs[i], now)
    <3>1. SUFFICES ASSUME NEW i \in DOMAIN refs \ maturing, Ongoing(refs[i])
                   PROVE  Mature(refs[i], now)
      BY <1>14
    <3>2. Mature(refs[i], height) /\ refs[i].end # now
      BY <1>8, <3>1 DEF IInv, Polls
    <3>3. VotingPeriod \in Nat
      BY DemocracyAssumption
    <3>. QED BY <1>1, <1>12, <3>2, <3>3 DEF Mature
  <2>3. maturing \subseteq DOMAIN start.refs
    BY <1>14, <1>17
  <2>4. \A i \in maturing : ~Ongoing(rt[i])
    BY <1>20
  <2>5. Polls(rt, votes, now)
    BY <1>15, <1>19, <1>21, <2>1, <2>2, <2>3, <2>4, LaunchedPolls
  <2>. QED BY <1>11, <1>18, <2>5
<1>23. Holds(preimages', props'.public, refs', agenda')
  <2>1. PICK when : when = [i \in passes |-> now + max(refs[i].delay, 1)]
    OBVIOUS
  <2>2. {[index |-> i, call |-> refs[i].proposal, when |-> now + max(refs[i].delay, 1)] : i \in passes}
        = scheduled(refs, passes, when)
    <3>1. \A i \in passes : taskOf(refs, i, when)
              = [index |-> i, call |-> refs[i].proposal, when |-> now + max(refs[i].delay, 1)]
      BY <2>1 DEF taskOf
    <3>. QED BY <3>1 DEF scheduled
  <2>3. agenda' = (agenda \ due) \cup scheduled(refs, passes, when)
    BY <1>11, <2>2
  <2>4. PICK new : new = preimages'
    OBVIOUS
  <2>5. new = released(preimages, refs, due, maturing \ passes)
    BY <1>11, <2>4 DEF Tasks, released
  <2>6. Holds(preimages, props.public, refs, agenda)
    BY DEF IInv
  <2>7. \A i \in maturing : ~Ongoing(rt[i])
    BY <1>20
  <2>8. Holds(new, st.props.public, rt, (agenda \ due) \cup scheduled(refs, passes, when))
    <3>1. PICK public, rs, c : public = props.public /\ rs = refs /\ c = s.coll
      OBVIOUS
    <3>2. /\ public \in Seq(PropType) /\ public = start.props.public
          /\ rs \in Seq(RefType) /\ rs = start.refs /\ Launched(start, st, c, now)
          /\ Holds(preimages, public, rs, agenda)
          /\ maturing \subseteq DOMAIN rs /\ \A i \in maturing : Ongoing(rs[i])
          /\ passes \subseteq maturing /\ due \subseteq agenda
          /\ DOMAIN rt = DOMAIN st.refs /\ \A i \in maturing : ~Ongoing(rt[i])
          /\ \A i \in DOMAIN rt \ maturing : rt[i] = st.refs[i]
      BY <1>14, <1>15, <1>17, <1>19, <2>6, <2>7, <3>1
    <3>3. new = released(preimages, rs, due, maturing \ passes)
      BY <2>5, <3>1
    <3>4. Holds(new, st.props.public, rt, (agenda \ due) \cup scheduled(rs, passes, when))
      BY <3>2, <3>3, HoldsBlock
    <3>. QED BY <3>1, <3>4
  <2>. QED BY <1>11, <1>18, <2>3, <2>4, <2>8
<1>24. PassedByMajority
  <2>1. SUFFICES ASSUME NEW i \in DOMAIN refs, Ongoing(refs[i]), refs'[i].state = "finished",
                        refs'[i].approved
                 PROVE  refs[i].tally.ayes > refs[i].tally.nays
    BY DEF PassedByMajority
  <2>2. i \in maturing
    <3>1. SUFFICES ASSUME i \notin maturing PROVE FALSE
      OBVIOUS
    <3>2. rt[i] = refs[i]
      BY <1>16, <1>19, <3>1
    <3>. QED BY <1>18, <2>1, <3>2 DEF Ongoing
  <2>3. i \in passes
    BY <1>18, <1>20, <2>1, <2>2, Zenon
  <2>4. PICK x : x = total_supply(s.escrow, now)
    OBVIOUS
  <2>5. x \in Nat /\ approved(refs[i].tally, x)
    BY <1>9, <1>12, <1>14, <2>3, <2>4, SupplyNat
  <2>6. refs[i].tally \in [ayes : Nat, nays : Nat, turnout : Nat]
    <3>1. refs[i] \in OngoingType
      BY <1>14, <2>1, OngoingTyped
    <3>. QED BY <3>1 DEF OngoingType, TallyType
  <2>. QED BY <2>5, <2>6, ApprovedByMajority
<1>25. Launches(next_launch', last_launch') /\ LaunchedOncePerPeriod
  <2>1. Launches(next_launch, last_launch)
    BY DEF IInv, Clock
  <2>2. CASE t >= next_launch
    <3>1. next_launch' = next_launch_after(t) /\ last_launch' = t
      BY <1>11, <2>2
    <3>2. PICK z : z = next_launch + ((t - next_launch) \div LaunchPeriod + 1) * LaunchPeriod
      OBVIOUS
    <3>3. Launches(z, t) /\ t \div LaunchPeriod > last_launch \div LaunchPeriod
      BY <1>12, <2>1, <2>2, <3>2, LaunchesAgain
    <3>4. next_launch' = z
      BY <3>1, <3>2 DEF next_launch_after
    <3>. QED BY <3>1, <3>3, <3>4 DEF LaunchedOncePerPeriod
  <2>3. CASE ~(t >= next_launch)
    <3>1. next_launch' = next_launch /\ last_launch' = last_launch
      BY <1>11, <2>3
    <3>. QED BY <2>1, <3>1 DEF LaunchedOncePerPeriod
  <2>. QED BY <2>2, <2>3
<1>26. Clock(height', calls', time', next_launch', last_launch', treasury')
  BY <1>11, <1>12, <1>25 DEF IInv, Clock
<1>27. Money(escrow', props', collators') /\ MinimumKept
  BY <1>4, <1>11, <1>13, <1>16 DEF MinimumKept
<1>28. IInv'
  BY <1>11, <1>22, <1>23, <1>26, <1>27 DEF IInv
<1>. QED BY <1>24, <1>25, <1>27, <1>28 DEF StepOK

-----------------------------------------------------------------------------
(* Every step                                                              *)

LEMMA DemocracyStep ==
    ASSUME IInv, DemocracyCalls, collators' = collators
    PROVE  StepOK
<1>1. escrow \in EscrowType /\ height \in 0 .. MaxHeight
  BY DEF IInv, Money, Clock
<1>2. ASSUME NEW who \in Accounts, NEW p \in Proposals, NEW v \in Deposits, propose(who, p, v)
      PROVE  StepOK
  BY <1>2, ProposeStep
<1>3. ASSUME NEW who \in Accounts, NEW i \in DOMAIN props.deposit, second(who, i)
      PROVE  StepOK
  BY <1>3, SecondStep
<1>4. ASSUME NEW who \in Accounts, NEW i \in DOMAIN refs, NEW aye \in BOOLEAN,
             NEW b \in VoteBalances, vote(who, i, [aye |-> aye, balance |-> b])
      PROVE  StepOK
  <2>1. b \in Nat
    BY DemocracyAssumption
  <2>2. [aye |-> aye, balance |-> b] \in VoteType
    BY <2>1 DEF VoteType
  <2>. QED BY <1>4, <2>2, VoteStep
<1>5. ASSUME NEW who \in Accounts, NEW i \in DOMAIN refs, remove_vote(who, i)
      PROVE  StepOK
  BY <1>5, RemoveVoteStep
<1>6. ASSUME NEW x \in DOMAIN props.public, NEW d \in Delays,
             NEW p \in {FastTrackVotingPeriod, VotingPeriod},
             fast_track_with_voting_period(props.public[x].index, d, p)
      PROVE  StepOK
  BY <1>6, FastTrackStep
<1>7. ASSUME NEW i \in DOMAIN refs, fast_track_referendum(i)
      PROVE  StepOK
  BY <1>7, FastTrackReferendumStep
<1>8. ASSUME NEW i \in DOMAIN refs, cancel_referendum(i)
      PROVE  StepOK
  BY <1>8, CancelReferendumStep
<1>9. ASSUME NEW who \in Accounts \cup {"root"}, NEW x \in DOMAIN props.public,
             cancel_proposal(who, props.public[x].index)
      PROVE  StepOK
  BY <1>9, CancelProposalStep
<1>10. ASSUME spend_from_treasury(1)
       PROVE  StepOK
  BY <1>10, SpendStep
<1>11. ASSUME NEW who \in Accounts, NEW a \in LockAmounts,
              change_lock(who, increase_amount(escrow, who, a, UserFunds, height))
       PROVE  StepOK
  <2>1. a \in Nat
    BY DemocracyAssumption
  <2>2. PICK results : results = increase_amount(escrow, who, a, UserFunds, height)
    OBVIOUS
  <2>3. \A x \in results : x \in EscrowType /\ x.reserved = escrow.reserved
    BY <1>1, <2>1, <2>2, IncreaseAmountTyped
  <2>. QED BY <1>11, <2>2, <2>3, ChangeLockStep
<1>12. ASSUME NEW who \in Accounts, change_lock(who, remove_lock(escrow, who, height))
       PROVE  StepOK
  <2>1. PICK results : results = remove_lock(escrow, who, height)
    OBVIOUS
  <2>2. \A x \in results : x \in EscrowType /\ x.reserved = escrow.reserved
    BY <1>1, <2>1, RemoveLockTyped
  <2>. QED BY <1>12, <2>1, <2>2, ChangeLockStep
<1>. QED BY <1>2, <1>3, <1>4, <1>5, <1>6, <1>7, <1>8, <1>9, <1>10, <1>11, <1>12, ClearStep
         DEF DemocracyCalls

(* A call that sets one of the collator pallet's parameters.               *)
LEMMA ParameterStep ==
    ASSUME IInv, NEW d \in CollatorsType, d.candidates = collators.candidates, NEW results,
           \A r \in results : r = [coll |-> d, escrow |-> escrow], CollatorCall(results)
    PROVE  StepOK
<1>1. Money(escrow, props, d)
  BY CollatorsChanged DEF IInv
<1>2. \A r \in results : r.coll = d /\ r.escrow = escrow
  OBVIOUS
<1>. QED BY <1>1, <1>2, LenKept, CollatorStep

LEMMA NextStep ==
    ASSUME IInv, Next
    PROVE  StepOK
<1>1. /\ Money(escrow, props, collators) /\ collators \in CollatorsType /\ height \in Nat
      /\ MinCandidates \in Nat /\ Len(collators.candidates) \in Nat
  <2>1. Money(escrow, props, collators) /\ collators \in CollatorsType /\ height \in Nat
    BY EscrowAssumption DEF IInv, Money, CollatorsTyped, Clock
  <2>2. collators.candidates \in Seq(CandidateType)
    BY <2>1 DEF CollatorsType
  <2>. QED BY <2>1, <2>2, SeqListing, CollatorAssumption
<1>2. ASSUME NEW a \in Accounts, CollatorCall(register_as_candidate(collators, escrow, a, height))
      PROVE  StepOK
  <2>1. PICK results : results = register_as_candidate(collators, escrow, a, height)
    OBVIOUS
  <2>2. ASSUME NEW r \in results
        PROVE  /\ Money(r.escrow, props, r.coll)
               /\ Len(r.coll.candidates) >= min(Len(collators.candidates), MinCandidates)
    <3>1. Money(r.escrow, props, r.coll) /\ Len(r.coll.candidates) >= Len(collators.candidates)
      BY <1>1, <2>1, RegisterMoney
    <3>2. r.coll.candidates \in Seq(CandidateType)
      BY <3>1 DEF Money, CollatorsTyped, CollatorsType
    <3>3. Len(r.coll.candidates) \in Nat
      BY <3>2, SeqListing
    <3>. QED BY <1>1, <3>1, <3>3 DEF min
  <2>. QED BY <1>2, <2>1, <2>2, CollatorStep
<1>3. ASSUME NEW a \in Accounts, CollatorCall(leave_intent(collators, escrow, a))
      PROVE  StepOK
  <2>1. PICK results : results = leave_intent(collators, escrow, a)
    OBVIOUS
  <2>2. \A r \in results : /\ Money(r.escrow, props, r.coll)
                           /\ Len(r.coll.candidates) >= min(Len(collators.candidates), MinCandidates)
    BY <1>1, <2>1, LeaveMoney
  <2>. QED BY <1>3, <2>1, <2>2, CollatorStep
<1>4. ASSUME NEW new \in SUBSET Accounts, CollatorCall(set_invulnerables(new))
      PROVE  StepOK
  <2>1. PICK d : d = [collators EXCEPT !.invulnerables = new]
    OBVIOUS
  <2>2. d \in CollatorsType /\ d.candidates = collators.candidates
    BY <1>1, <2>1 DEF CollatorsType
  <2>3. PICK results : results = set_invulnerables(new)
    OBVIOUS
  <2>4. \A r \in results : r = [coll |-> d, escrow |-> escrow]
    BY <2>1, <2>3 DEF set_invulnerables
  <2>. QED BY <1>4, <2>2, <2>3, <2>4, ParameterStep
<1>5. ASSUME NEW n \in DesiredCounts,
             CollatorCall({[coll |-> [collators EXCEPT !.desired = n], escrow |-> escrow]})
      PROVE  StepOK
  <2>1. PICK d : d = [collators EXCEPT !.desired = n]
    OBVIOUS
  <2>2. n \in Nat
    BY EscrowUsersAssumption
  <2>3. d \in CollatorsType /\ d.candidates = collators.candidates
    BY <1>1, <2>1, <2>2 DEF CollatorsType
  <2>4. PICK results : results = {[coll |-> d, escrow |-> escrow]}
    OBVIOUS
  <2>5. CollatorCall(results)
    BY <1>5, <2>1, <2>4
  <2>. QED BY <2>3, <2>4, <2>5, ParameterStep
<1>6. ASSUME NEW b \in Bonds,
             CollatorCall({[coll |-> [collators EXCEPT !.bond = b], escrow |-> escrow]})
      PROVE  StepOK
  <2>1. PICK d : d = [collators EXCEPT !.bond = b]
    OBVIOUS
  <2>2. b \in Nat
    BY EscrowUsersAssumption
  <2>3. d \in CollatorsType /\ d.candidates = collators.candidates
    BY <1>1, <2>1, <2>2 DEF CollatorsType
  <2>4. PICK results : results = {[coll |-> d, escrow |-> escrow]}
    OBVIOUS
  <2>5. CollatorCall(results)
    BY <1>6, <2>1, <2>4
  <2>. QED BY <2>3, <2>4, <2>5, ParameterStep
<1>7. ASSUME NEW s \in TimeSteps, NEW a \in Authors, Block(s, a)
      PROVE  StepOK
  BY <1>7, BlockStep
<1>8. ASSUME DemocracyCalls, UNCHANGED collators
      PROVE  StepOK
  BY <1>8, DemocracyStep
<1>. QED BY <1>2, <1>3, <1>4, <1>5, <1>6, <1>7, <1>8 DEF Next

-----------------------------------------------------------------------------
(* The beginning                                                           *)

LEMMA EmptyMap ==
    /\ DOMAIN << >> = {} /\ IsMap(<< >>)
    /\ << >> \in Seq(PropType) /\ << >> \in Seq(RefType) /\ << >> \in Seq(CandidateType)
    /\ \A P : Count(<< >>, P) = 0
<1>1. DOMAIN << >> = {} /\ << >> \in Seq(PropType) /\ << >> \in Seq(RefType) /\ << >> \in Seq(CandidateType)
  OBVIOUS
<1>2. IsMap(<< >>)
  BY DEF IsMap
<1>3. ASSUME NEW P PROVE Count(<< >>, P) = 0
  <2>1. {k \in DOMAIN << >> : << >>[k] \in P} = {}
    BY <1>1
  <2>. QED BY <2>1, FS_EmptySet DEF Count
<1>. QED BY <1>1, <1>2, <1>3

LEMMA InitMoney ==
    ASSUME Init
    PROVE  Money(escrow, props, collators)
<1>1. PICK amount \in [Accounts -> LockAmounts] : escrow = LockedEscrow(amount)
  BY DEF Init, DemocracyInit
<1>2. escrow \in EscrowType /\ \A a \in Accounts : escrow.reserved[a] = 0
  BY <1>1, LockedEscrowTyped
<1>3. PICK bond \in Bonds, desired \in DesiredCounts :
          collators = NewCollators({}, bond, desired, Pot)
  BY DEF Init
<1>4. bond \in Nat /\ desired \in Nat /\ Pot \in Nat
  BY EscrowUsersAssumption
<1>5. collators \in CollatorsType /\ collators.candidates = << >>
  BY <1>3, <1>4, EmptyMap DEF NewCollators, CollatorsType
<1>6. CollatorsTyped(collators)
  BY <1>5, EmptyMap DEF CollatorsTyped
<1>7. props.count = 0 /\ props.public = << >> /\ props.deposit = << >>
      /\ props = [count |-> props.count, public |-> props.public, deposit |-> props.deposit]
  BY DEF Init, DemocracyInit
<1>8. DepositsTyped(props.deposit)
  <2>1. IsFiniteSet(DOMAIN << >>)
    BY EmptyMap, FS_EmptySet
  <2>. QED BY <1>7, <2>1, EmptyMap DEF DepositsTyped
<1>9. PropsTyped(props)
  BY <1>7, <1>8, EmptyMap DEF PropsTyped
<1>10. ASSUME NEW a \in Accounts PROVE bonded(collators, a) = 0 /\ deposited(props.deposit, a) = 0
  <2>1. positions(collators, a) = {}
    BY <1>5, EmptyMap DEF positions
  <2>2. bonded(collators, a) = 0
    BY <2>1, BondedNone
  <2>3. deposited(props.deposit, a) = Total(holdings(props.deposit, a), {})
    BY <1>7, EmptyMap, DepositedTotal
  <2>. QED BY <2>2, <2>3, TotalEmpty
<1>. QED BY <1>2, <1>6, <1>9, <1>10 DEF Money, Reserved

LEMMA InitHolds ==
    ASSUME Init
    PROVE  IInv
<1>1. /\ height = 0 /\ time = 0 /\ calls = 0 /\ refs = << >> /\ props.public = << >>
      /\ votes = [a \in Accounts |-> << >>] /\ next_launch = LaunchPeriod /\ last_launch = -1
      /\ preimages = [p \in Proposals |-> 0] /\ agenda = {} /\ treasury = Treasury
  BY DEF Init, DemocracyInit
<1>2. Clock(height, calls, time, next_launch, last_launch, treasury)
  <2>1. PICK P \in Nat \ {0} : P = LaunchPeriod
    BY DemocracyAssumption
  <2>2. P = 1 * P /\ P > -1 /\ -1 \in Int
    BY <2>1
  <2>3. Launches(next_launch, last_launch)
    BY <1>1, <2>1, <2>2 DEF Launches
  <2>4. MaxHeight \in Nat /\ MaxCalls \in Nat /\ Treasury \in Nat
    BY EscrowAssumption, DemocracyAssumption
  <2>. QED BY <1>1, <2>3, <2>4 DEF Clock
<1>3. Polls(refs, votes, height)
  <2>1. VotesTyped(votes, DOMAIN refs)
    BY <1>1, EmptyMap DEF VotesTyped
  <2>. QED BY <1>1, <2>1, EmptyMap DEF Polls
<1>4. Holds(preimages, props.public, refs, agenda)
  <2>1. preimages \in [Proposals -> Nat] /\ IsFiniteSet(agenda)
    BY <1>1, FS_EmptySet
  <2>2. ASSUME NEW p \in Proposals
        PROVE  preimages[p] >= Count(props.public, Calling(p)) + Count(refs, Asking(p))
                               + Cardinality(Tasks(agenda, p))
    <3>1. Tasks(agenda, p) = {}
      BY <1>1 DEF Tasks
    <3>2. Cardinality(Tasks(agenda, p)) = 0
      BY <3>1, FS_EmptySet
    <3>3. Count(props.public, Calling(p)) = 0 /\ Count(refs, Asking(p)) = 0
      BY <1>1, EmptyMap
    <3>4. preimages[p] = 0
      BY <1>1
    <3>. QED BY <3>2, <3>3, <3>4
  <2>. QED BY <2>1, <2>2 DEF Holds
<1>. QED BY <1>2, <1>3, <1>4, InitMoney DEF IInv

-----------------------------------------------------------------------------
(* What the invariant says                                                 *)

LEMMA TypesHold ==
    ASSUME IInv
    PROVE  TypeOK
<1>1. /\ height \in 0 .. MaxHeight /\ calls \in 0 .. MaxCalls /\ treasury \in 0 .. Treasury
  BY DEF IInv, Clock
<1>2. \A p \in Proposals : preimages[p] \in Nat
  BY DEF IInv, Holds
<1>3. \A a \in Accounts : escrow.reserved[a] \in Nat
  BY DEF IInv, Money, EscrowType
<1>4. ASSUME NEW i \in DOMAIN refs, Ongoing(refs[i])
      PROVE  refs[i].end \in Nat /\ refs[i].tally.ayes \in Nat /\ refs[i].tally.nays \in Nat
  <2>1. refs \in Seq(RefType)
    BY DEF IInv, Polls
  <2>2. refs[i] \in RefType
    BY <2>1
  <2>. QED BY <1>4, <2>2, OngoingTyped
<1>5. \A x \in DOMAIN props.public : props.public[x].index \in DOMAIN props.deposit
  BY DEF IInv, Money, PropsTyped
<1>. QED BY <1>1, <1>2, <1>3, <1>4, <1>5 DEF TypeOK

LEMMA TalliesHold ==
    ASSUME IInv
    PROVE  TallyIsSum
<1>1. SUFFICES ASSUME NEW i \in DOMAIN refs, Ongoing(refs[i])
               PROVE  /\ refs[i].tally.ayes = cast(i, TRUE) /\ refs[i].tally.nays = cast(i, FALSE)
                      /\ refs[i].tally.turnout = cast(i, TRUE) + cast(i, FALSE)
  BY DEF TallyIsSum
<1>2. castAyes(votes, i) = cast(i, TRUE) /\ castNays(votes, i) = cast(i, FALSE)
  BY Zenon DEF castAyes, castNays, castOf, cast, shares, share
<1>3. Tallied(refs[i].tally, votes, i)
  BY <1>1 DEF IInv, Polls
<1>4. /\ refs[i].tally.ayes = castAyes(votes, i) /\ refs[i].tally.nays = castNays(votes, i)
      /\ refs[i].tally.turnout = castAyes(votes, i) + castNays(votes, i)
  BY <1>3 DEF Tallied
<1>. QED BY <1>2, <1>4, Zenon

LEMMA PreimagesHold ==
    ASSUME IInv
    PROVE  PreimagesHeld
<1>1. SUFFICES ASSUME NEW p \in Proposals
               PROVE  preimages[p]
                      >= Cardinality({x \in DOMAIN props.public : props.public[x].call = p})
                         + Cardinality({i \in DOMAIN refs : Ongoing(refs[i]) /\ refs[i].proposal = p})
                         + Cardinality({tk \in agenda : tk.call = p})
  BY DEF PreimagesHeld
<1>2. refs \in Seq(RefType) /\ props.public \in Seq(PropType)
  BY DEF IInv, Money, PropsTyped, Polls
<1>3. {x \in DOMAIN props.public : props.public[x].call = p}
      = {x \in DOMAIN props.public : props.public[x] \in Calling(p)}
  BY <1>2 DEF Calling
<1>4. {i \in DOMAIN refs : Ongoing(refs[i]) /\ refs[i].proposal = p}
      = {i \in DOMAIN refs : refs[i] \in Asking(p)}
  BY <1>2 DEF Asking
<1>5. preimages[p] >= Count(props.public, Calling(p)) + Count(refs, Asking(p))
                      + Cardinality(Tasks(agenda, p))
  BY DEF IInv, Holds
<1>. QED BY <1>3, <1>4, <1>5 DEF Count, Tasks

LEMMA VotesHold ==
    ASSUME IInv
    PROVE  VotesHeldOnce
<1>1. DepositsReserved
  BY DEF IInv, Money, Reserved, DepositsReserved
<1>. QED BY <1>1, TypesHold, TalliesHold, PreimagesHold DEF VotesHeldOnce

-----------------------------------------------------------------------------
(* Theorems                                                                *)

(* The inductive invariant of democracy and collator selection on the      *)
(* escrow: every call and every block keeps it, whatever the periods, the  *)
(* number of accounts, proposals and referenda, and however far the votes  *)
(* have decayed.                                                           *)
THEOREM EscrowUsersInvariant == Spec => []IInv
<1>1. Init => IInv
  BY InitHolds
<1>2. IInv /\ [Next]_vars => IInv'
  <2>1. ASSUME IInv, Next PROVE IInv'
    BY <2>1, NextStep DEF StepOK
  <2>2. ASSUME IInv, UNCHANGED vars PROVE IInv'
    BY <2>2 DEF vars, democracyVars, IInv
  <2>. QED BY <2>1, <2>2
<1>. QED BY <1>1, <1>2, PTL DEF Spec

(* Votes are counted once, and what proposals and candidates hold is held  *)
(* once: the tally of an open referendum is what its voters have on        *)
(* record, what an account has reserved is what it deposited for proposals *)
(* and its bond, and whatever may still be enacted holds its preimage.     *)
THEOREM VotesAreHeldOnce == Spec => []VotesHeldOnce
BY EscrowUsersInvariant, VotesHold, PTL

(* An open referendum always has the block that decides it ahead, it       *)
(* passes only with more ayes than nays, whatever the electorate has       *)
(* decayed to, and no two launches fall in one period.                     *)
THEOREM ReferendaAreInOrder == Spec => ReferendaInOrder
<1>. DEFINE A == ReferendaMature' /\ PassedByMajority /\ LaunchedOncePerPeriod
<1>1. IInv /\ [Next]_vars => [A]_vars
  <2>1. ASSUME IInv, Next PROVE A
    <3>1. StepOK
      BY <2>1, NextStep
    <3>2. IInv'
      BY <3>1 DEF StepOK
    <3>3. ReferendaMature'
      BY <3>2 DEF IInv, Polls, Mature, ReferendaMature
    <3>. QED BY <3>1, <3>3 DEF StepOK
  <2>. QED BY <2>1
<1>. QED BY <1>1, EscrowUsersInvariant, PTL DEF Spec, ReferendaInOrder

(* Neither leave_intent nor a new session that kicks stale candidates, any *)
(* number of them in one session, leaves fewer than MinCandidates.         *)
THEOREM MinimumRemains == Spec => MinimumOfCandidates
<1>. DEFINE A == Len(collators'.candidates) >= min(Len(collators.candidates), MinCandidates)
<1>1. IInv /\ [Next]_vars => [A]_vars
  <2>1. ASSUME IInv, Next PROVE A
    BY <2>1, NextStep DEF StepOK, MinimumKept
  <2>. QED BY <2>1
<1>. QED BY <1>1, EscrowUsersInvariant, PTL DEF Spec, MinimumOfCandidates
=============================================================================
