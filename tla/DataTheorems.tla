---------------------------- MODULE DataTheorems ----------------------------
(***************************************************************************)
(* Facts about data that the proofs of several components cite: how a      *)
(* total of Sums changes when the function or the set does, induction on   *)
(* numbers, and what a recursively defined function is.                    *)
(***************************************************************************)
EXTENDS Sums, Sequences, FiniteSetTheorems, FunctionTheorems, WellFoundedInduction, TLAPS

-----------------------------------------------------------------------------
(* Totals                                                                  *)

LEMMA UnitsOfOne ==
    ASSUME NEW x, NEW n \in Nat
    PROVE  IsFiniteSet({x} \X (1 .. n)) /\ Cardinality({x} \X (1 .. n)) = n
<1>1. IsFiniteSet({x}) /\ Cardinality({x}) = 1
  BY FS_Singleton
<1>2. IsFiniteSet(1 .. n) /\ Cardinality(1 .. n) = n
  BY FS_Interval
<1>3. PICK A, B : A = {x} /\ B = 1 .. n
  OBVIOUS
<1>4. IsFiniteSet(A \X B) /\ Cardinality(A \X B) = Cardinality(A) * Cardinality(B)
  BY <1>1, <1>2, <1>3, FS_Product
<1>5. Cardinality(A \X B) = 1 * n
  BY <1>1, <1>2, <1>3, <1>4
<1>6. 1 * n = n
  OBVIOUS
<1>. QED BY <1>3, <1>4, <1>5, <1>6, Zenon

LEMMA UnitsFinite ==
    ASSUME NEW S, IsFiniteSet(S), NEW f, \A x \in S : f[x] \in Nat
    PROVE  IsFiniteSet(Units(f, S))
<1>. DEFINE T == {{x} \X (1 .. f[x]) : x \in S}
            g == [x \in S |-> {x} \X (1 .. f[x])]
<1>1. g \in Surjection(S, T)
  BY DEF Surjection
<1>2. IsFiniteSet(T)
  BY <1>1, FS_Surjection
<1>3. ASSUME NEW u \in T PROVE IsFiniteSet(u)
  <2>1. PICK x \in S : u = {x} \X (1 .. f[x])
    BY <1>3
  <2>2. IsFiniteSet({x} \X (1 .. f[x]))
    BY UnitsOfOne
  <2>. QED BY <2>1, <2>2, Zenon
<1>. HIDE DEF T
<1>4. IsFiniteSet(UNION T)
  BY <1>2, <1>3, FS_UNION
<1>. QED BY <1>4 DEF Units, T

(* A total is a natural number, and that of nothing is zero.               *)
LEMMA TotalNat ==
    ASSUME NEW S, IsFiniteSet(S), NEW f, \A x \in S : f[x] \in Nat
    PROVE  Total(f, S) \in Nat
BY UnitsFinite, FS_CardinalityType DEF Total

LEMMA TotalEmpty ==
    ASSUME NEW f
    PROVE  Total(f, {}) = 0
<1>1. Units(f, {}) = {}
  BY DEF Units
<1>. QED BY <1>1, FS_EmptySet DEF Total

(* Only the values on the set count.                                       *)
LEMMA TotalEqual ==
    ASSUME NEW S, NEW f, NEW g, \A x \in S : f[x] = g[x]
    PROVE  Total(f, S) = Total(g, S)
<1>1. Units(f, S) = Units(g, S)
  BY DEF Units
<1>. QED BY <1>1 DEF Total

(* One element more, the others keeping their values.                      *)
LEMMA TotalInsert ==
    ASSUME NEW S, IsFiniteSet(S), NEW f, NEW g, NEW x, x \notin S,
           \A y \in S : f[y] \in Nat /\ g[y] = f[y], g[x] \in Nat
    PROVE  Total(g, S \cup {x}) = Total(f, S) + g[x]
<1>. DEFINE A == Units(f, S)
            B == {x} \X (1 .. g[x])
<1>1. Units(g, S \cup {x}) = A \cup B
  <2>1. Units(g, S \cup {x}) = Units(g, S) \cup B
    BY DEF Units
  <2>2. Units(g, S) = A
    BY DEF Units
  <2>. QED BY <2>1, <2>2
<1>2. A \cap B = {}
  BY DEF Units
<1>3. IsFiniteSet(A) /\ Cardinality(A) = Total(f, S)
  BY UnitsFinite DEF Total
<1>4. IsFiniteSet(B) /\ Cardinality(B) = g[x]
  BY UnitsOfOne
<1>5. Total(f, S) \in Nat
  BY TotalNat
<1>. HIDE DEF A, B
<1>6. Cardinality(A \cup B) = Cardinality(A) + Cardinality(B) - 0
  BY <1>2, <1>3, <1>4, FS_Union, FS_EmptySet
<1>7. Total(g, S \cup {x}) = Cardinality(A \cup B)
  BY <1>1, Zenon DEF Total
<1>. QED BY <1>3, <1>4, <1>5, <1>6, <1>7

(* One element less, the others keeping their values.                      *)
LEMMA TotalRemove ==
    ASSUME NEW S, IsFiniteSet(S), NEW f, NEW g, NEW x \in S, f[x] \in Nat,
           \A y \in S \ {x} : f[y] \in Nat /\ g[y] = f[y]
    PROVE  Total(g, S \ {x}) = Total(f, S) - f[x]
<1>1. IsFiniteSet(S \ {x}) /\ x \notin S \ {x} /\ (S \ {x}) \cup {x} = S
  BY FS_RemoveElement
<1>2. PICK T : T = S \ {x}
  OBVIOUS
<1>3. \A y \in T : g[y] \in Nat /\ f[y] = g[y]
  BY <1>2
<1>4. Total(f, T \cup {x}) = Total(g, T) + f[x]
  BY <1>1, <1>2, <1>3, TotalInsert
<1>5. Total(g, T) \in Nat
  BY <1>1, <1>2, <1>3, TotalNat
<1>6. Total(f, S) = Total(g, T) + f[x]
  BY <1>1, <1>2, <1>4, Zenon
<1>7. Total(g, T) = Total(f, S) - f[x]
  BY <1>5, <1>6
<1>. QED BY <1>2, <1>7, Zenon

(* One value changes.                                                      *)
LEMMA TotalChange ==
    ASSUME NEW S, IsFiniteSet(S), NEW f, NEW g, NEW x \in S, g[x] \in Nat,
           \A y \in S : f[y] \in Nat /\ (y # x => g[y] = f[y])
    PROVE  Total(g, S) = Total(f, S) - f[x] + g[x]
<1>1. IsFiniteSet(S \ {x}) /\ x \notin S \ {x} /\ (S \ {x}) \cup {x} = S
  BY FS_RemoveElement
<1>2. PICK T : T = S \ {x}
  OBVIOUS
<1>3. Total(f, T) = Total(f, S) - f[x]
  BY <1>2, TotalRemove
<1>4. Total(g, T \cup {x}) = Total(f, T) + g[x]
  BY <1>1, <1>2, TotalInsert, SMTT(30)
<1>5. Total(f, S) \in Nat
  BY TotalNat
<1>6. Total(g, S) = Total(f, T) + g[x]
  BY <1>1, <1>2, <1>4, Zenon
<1>. QED BY <1>3, <1>5, <1>6

(* Leaving elements out is counting them as zero.                          *)
LEMMA TotalPart ==
    ASSUME NEW S, NEW T \in SUBSET S, NEW f, NEW g,
           \A x \in S : g[x] = IF x \in T THEN f[x] ELSE 0
    PROVE  Total(f, T) = Total(g, S)
<1>1. Units(f, T) = Units(g, S)
  BY DEF Units
<1>. QED BY <1>1 DEF Total

LEMMA TotalZero ==
    ASSUME NEW S, NEW f, \A x \in S : f[x] = 0
    PROVE  Total(f, S) = 0
<1>1. Total(f, {}) = Total(f, S)
  BY TotalPart
<1>. QED BY <1>1, TotalEmpty

(* A larger function has a larger total.                                   *)
LEMMA TotalMonotone ==
    ASSUME NEW S, IsFiniteSet(S), NEW f, NEW g,
           \A x \in S : f[x] \in Nat /\ g[x] \in Nat /\ f[x] <= g[x]
    PROVE  Total(f, S) <= Total(g, S)
<1>1. Units(f, S) \subseteq Units(g, S)
  BY DEF Units
<1>2. IsFiniteSet(Units(g, S))
  BY UnitsFinite
<1>. QED BY <1>1, <1>2, FS_Subset DEF Total

-----------------------------------------------------------------------------
(* Induction. The library has it for operators; for sets it follows from   *)
(* the well-foundedness of < on Nat: a set of numbers that is not empty    *)
(* has a least member.                                                     *)

LEMMA LeastNat ==
    ASSUME NEW T, T \subseteq Nat, T # {}
    PROVE  \E x \in T : \A y \in T : x <= y
<1>1. \E x \in T : \A y \in T : <<y, x>> \notin OpToRel(<, Nat)
  BY NatLessThanWellFounded, WFMin, Zenon
<1>2. \A x, y \in Nat : <<y, x>> \notin OpToRel(<, Nat) => x <= y
  BY DEF OpToRel
<1>. QED BY <1>1, <1>2

(* What holds of 0 and passes from n to n + 1 holds of every number.       *)
LEMMA NatSetInduction ==
    ASSUME NEW S, 0 \in S, \A n \in Nat : n \in S => n + 1 \in S
    PROVE  Nat \subseteq S
<1>1. SUFFICES ASSUME Nat \ S # {} PROVE FALSE
  OBVIOUS
<1>2. PICK x \in Nat \ S : \A y \in Nat \ S : x <= y
  BY <1>1, LeastNat
<1>3. x # 0 /\ x - 1 \in Nat /\ (x - 1) + 1 = x /\ ~(x <= x - 1)
  BY <1>2
<1>. QED BY <1>2, <1>3

-----------------------------------------------------------------------------
(* Induction on the size of a finite set: what holds of {} and of a set    *)
(* with one element more holds of every subset.                            *)
LEMMA SubsetInduction ==
    ASSUME NEW S, IsFiniteSet(S), NEW P, {} \in P,
           \A T \in SUBSET S : \A x \in S \ T : T \in P => T \cup {x} \in P
    PROVE  SUBSET S \subseteq P
<1>. DEFINE N == {n \in Nat : \A T \in SUBSET S : Cardinality(T) = n => T \in P}
<1>1. \A T \in SUBSET S : IsFiniteSet(T) /\ Cardinality(T) \in Nat
  BY FS_Subset, FS_CardinalityType
<1>2. 0 \in N
  <2>1. \A T \in SUBSET S : Cardinality(T) = 0 => T = {}
    BY <1>1, FS_EmptySet
  <2>. QED BY <2>1
<1>3. ASSUME NEW n \in Nat, n \in N PROVE n + 1 \in N
  <2>1. ASSUME NEW T \in SUBSET S, Cardinality(T) = n + 1 PROVE T \in P
    <3>1. T # {}
      <4>1. n + 1 # 0
        OBVIOUS
      <4>. QED BY <2>1, <4>1, FS_EmptySet, Zenon
    <3>2. PICK x \in T : TRUE
      BY <3>1
    <3>3. PICK U : U = T \ {x}
      OBVIOUS
    <3>4. IsFiniteSet(U) /\ Cardinality(U) = Cardinality(T) - 1
      BY <1>1, <3>2, <3>3, FS_RemoveElement
    <3>5. Cardinality(U) = n
      BY <2>1, <3>4
    <3>6. U \in SUBSET S /\ x \in S \ U /\ T = U \cup {x}
      BY <2>1, <3>2, <3>3
    <3>7. U \in P
      BY <1>3, <3>5, <3>6
    <3>. QED BY <3>6, <3>7
  <2>. QED BY <2>1
<1>. HIDE DEF N
<1>4. Nat \subseteq N
  BY <1>2, <1>3, NatSetInduction
<1>. QED BY <1>1, <1>4 DEF N

LEMMA TotalOneMore ==
    ASSUME NEW S, IsFiniteSet(S), NEW x, x \notin S, NEW f, \A y \in S : f[y] \in Nat, f[x] \in Nat
    PROVE  Total(f, S \cup {x}) = Total(f, S) + f[x]
BY TotalInsert

(* A multiple of one function is added to another.                         *)
LEMMA TotalScaled ==
    ASSUME NEW S, IsFiniteSet(S), NEW f, NEW n, NEW g, NEW d \in Nat,
           \A x \in S : f[x] \in Nat /\ n[x] \in Nat /\ g[x] = f[x] + n[x] * d
    PROVE  Total(g, S) = Total(f, S) + Total(n, S) * d
<1>. DEFINE P == {T \in SUBSET S : Total(g, T) = Total(f, T) + Total(n, T) * d}
<1>1. {} \in P
  <2>1. Total(g, {}) = 0 /\ Total(f, {}) = 0 /\ Total(n, {}) = 0
    BY TotalEmpty
  <2>2. 0 = 0 + 0 * d
    OBVIOUS
  <2>. QED BY <2>1, <2>2
<1>2. ASSUME NEW T \in SUBSET S, NEW x \in S \ T, T \in P PROVE T \cup {x} \in P
  <2>1. IsFiniteSet(T) /\ \A y \in T : f[y] \in Nat /\ n[y] \in Nat /\ g[y] \in Nat
    BY FS_Subset
  <2>2. f[x] \in Nat /\ n[x] \in Nat /\ n[x] * d \in Nat /\ g[x] = f[x] + n[x] * d
    BY <1>2
  <2>3. PICK gx, fx, nx : gx = g[x] /\ fx = f[x] /\ nx = n[x]
    OBVIOUS
  <2>4. /\ Total(g, T \cup {x}) = Total(g, T) + gx
        /\ Total(f, T \cup {x}) = Total(f, T) + fx
        /\ Total(n, T \cup {x}) = Total(n, T) + nx
    <3>1. x \notin T /\ g[x] \in Nat
      BY <2>2
    <3>. QED BY <2>1, <2>2, <2>3, <3>1, TotalOneMore, Zenon
  <2>5. PICK F, N : F = Total(f, T) /\ N = Total(n, T)
    OBVIOUS
  <2>6. F \in Nat /\ N \in Nat /\ Total(g, T) = F + N * d
    BY <1>2, <2>1, <2>5, TotalNat
  <2>7. (N + nx) * d = N * d + nx * d /\ N * d \in Nat
    BY <2>2, <2>3, <2>6, SMT
  <2>8. (F + N * d) + gx = (F + fx) + (N + nx) * d
    <3>1. PICK u, v, w : u = N * d /\ v = nx * d /\ w = (N + nx) * d
      OBVIOUS
    <3>2. w = u + v /\ gx = fx + v /\ u \in Nat /\ v \in Nat /\ fx \in Nat
      BY <2>2, <2>3, <2>7, <3>1
    <3>3. (F + u) + gx = (F + fx) + w
      BY <2>6, <3>2
    <3>. QED BY <3>1, <3>3
  <2>9. Total(g, T \cup {x}) = Total(f, T \cup {x}) + Total(n, T \cup {x}) * d
    BY <2>4, <2>5, <2>6, <2>8
  <2>. QED BY <2>9
<1>. HIDE DEF P
<1>3. S \in P
  BY <1>1, <1>2, SubsetInduction
<1>. QED BY <1>3 DEF P

(* Two totals bound a third one, element by element.                       *)
LEMMA TotalBounded ==
    ASSUME NEW S, IsFiniteSet(S), NEW f, NEW g, NEW h,
           \A x \in S : f[x] \in Nat /\ g[x] \in Nat /\ h[x] \in Nat /\ h[x] <= f[x] + g[x]
    PROVE  Total(h, S) <= Total(f, S) + Total(g, S)
<1>. DEFINE s == [x \in S |-> f[x] + g[x]]
<1>1. \A x \in S : s[x] = f[x] + g[x] * 1 /\ s[x] \in Nat /\ h[x] <= s[x]
  OBVIOUS
<1>. HIDE DEF s
<1>2. Total(h, S) <= Total(s, S)
  BY <1>1, TotalMonotone
<1>3. Total(s, S) = Total(f, S) + Total(g, S) * 1
  BY <1>1, TotalScaled
<1>4. Total(g, S) \in Nat
  BY TotalNat
<1>. QED BY <1>2, <1>3, <1>4

-----------------------------------------------------------------------------
(* Recursive functions on 0 .. N: f[0] = a, f[k] = F[<<k, f[k - 1]>>].     *)

Recursion(f, a, F, N) ==
    f = [k \in 0 .. N |-> IF k = 0 THEN a ELSE F[<<k, f[k - 1]>>]]

(* There is such a function.                                               *)
LEMMA RecursionExists ==
    ASSUME NEW a, NEW F, NEW N \in Nat
    PROVE  \E f : Recursion(f, a, F, N)
<1>. DEFINE S == {n \in Nat : \E f : Recursion(f, a, F, n)}
<1>1. 0 \in S
  <2>1. Recursion([k \in 0 .. 0 |-> a], a, F, 0)
    BY DEF Recursion
  <2>. QED BY <2>1
<1>2. ASSUME NEW n \in Nat, n \in S PROVE n + 1 \in S
  <2>1. PICK f : Recursion(f, a, F, n)
    BY <1>2
  <2>. DEFINE g == [k \in 0 .. n + 1 |-> IF k = n + 1 THEN F[<<n + 1, f[n]>>] ELSE f[k]]
  <2>2. \A k \in 0 .. n : f[k] = IF k = 0 THEN a ELSE F[<<k, f[k - 1]>>]
    BY <2>1 DEF Recursion
  <2>3. \A k \in 0 .. n : g[k] = f[k]
    OBVIOUS
  <2>4. ASSUME NEW k \in 0 .. n + 1
        PROVE  g[k] = IF k = 0 THEN a ELSE F[<<k, g[k - 1]>>]
    <3>1. CASE k = n + 1
      BY <2>3, <3>1
    <3>2. CASE k \in 0 .. n
      <4>1. g[k] = f[k] /\ (k # 0 => k - 1 \in 0 .. n)
        BY <2>3, <3>2
      <4>2. k # 0 => g[k - 1] = f[k - 1]
        BY <2>3, <4>1
      <4>3. f[k] = IF k = 0 THEN a ELSE F[<<k, f[k - 1]>>]
        BY <2>2, <3>2
      <4>. HIDE DEF g
      <4>. QED BY <4>1, <4>2, <4>3
    <3>. QED BY <3>1, <3>2
  <2>5. g = [k \in 0 .. n + 1 |-> IF k = 0 THEN a ELSE F[<<k, g[k - 1]>>]]
    BY <2>4, Zenon
  <2>. HIDE DEF g
  <2>6. Recursion(g, a, F, n + 1)
    BY <2>5 DEF Recursion
  <2>. QED BY <2>6
<1>. HIDE DEF S
<1>3. N \in S
  BY <1>1, <1>2, NatSetInduction
<1>. QED BY <1>3 DEF S

(* What holds at 0 and passes from k - 1 to k holds of its last value.     *)
LEMMA RecursionInvariant ==
    ASSUME NEW a, NEW F, NEW N \in Nat, NEW f, Recursion(f, a, F, N), NEW T,
           a \in T[0], \A k \in 1 .. N : \A s \in T[k - 1] : F[<<k, s>>] \in T[k]
    PROVE  \A k \in 0 .. N : f[k] \in T[k]
<1>. DEFINE S == {n \in Nat : n <= N => f[n] \in T[n]}
<1>1. 0 \in S
  BY DEF Recursion
<1>2. ASSUME NEW n \in Nat, n \in S PROVE n + 1 \in S
  <2>1. SUFFICES ASSUME n + 1 <= N PROVE f[n + 1] \in T[n + 1]
    OBVIOUS
  <2>2. n + 1 \in 1 .. N /\ n + 1 \in 0 .. N /\ (n + 1) - 1 = n /\ n + 1 # 0 /\ n <= N
    BY <2>1
  <2>3. f[n + 1] = F[<<n + 1, f[n]>>]
    BY <2>2 DEF Recursion
  <2>4. f[n] \in T[(n + 1) - 1]
    BY <1>2, <2>2
  <2>. QED BY <2>2, <2>3, <2>4
<1>. HIDE DEF S
<1>3. Nat \subseteq S
  BY <1>1, <1>2, NatSetInduction
<1>. QED BY <1>3 DEF S

-----------------------------------------------------------------------------
(* How often a sequence has a member of P                                  *)

Count(s, P) == Cardinality({k \in DOMAIN s : s[k] \in P})

Listing(s) == \E n \in Nat : DOMAIN s = 1 .. n

LEMMA CountNat ==
    ASSUME NEW s, Listing(s), NEW P
    PROVE  /\ Count(s, P) \in Nat
           /\ IsFiniteSet({k \in DOMAIN s : s[k] \in P})
<1>1. PICK n \in Nat : DOMAIN s = 1 .. n
  BY DEF Listing
<1>2. IsFiniteSet(1 .. n)
  BY FS_Interval
<1>3. IsFiniteSet({k \in DOMAIN s : s[k] \in P})
  BY <1>1, <1>2, FS_Subset
<1>. QED BY <1>3, FS_CardinalityType DEF Count

(* One element more in a finite set, or not.                               *)
LEMMA OneMore ==
    ASSUME NEW A, IsFiniteSet(A), NEW x, x \notin A, NEW B, NEW member \in BOOLEAN,
           B = IF member THEN A \cup {x} ELSE A
    PROVE  Cardinality(B) = Cardinality(A) + (IF member THEN 1 ELSE 0)
<1>1. Cardinality(A) \in Nat
  BY FS_CardinalityType
<1>2. CASE member
  BY <1>2, FS_AddElement
<1>3. CASE ~member
  BY <1>1, <1>3
<1>. QED BY <1>2, <1>3

(* A sequence with one element more at the end.                            *)
Extends(s, t, x) ==
    \E n \in Nat : /\ DOMAIN s = 1 .. n /\ DOMAIN t = 1 .. (n + 1) /\ t[n + 1] = x
                   /\ \A k \in 1 .. n : t[k] = s[k]

LEMMA CountExtended ==
    ASSUME NEW s, NEW t, NEW x, Extends(s, t, x), NEW P
    PROVE  Count(t, P) = Count(s, P) + (IF x \in P THEN 1 ELSE 0)
<1>1. PICK n \in Nat : /\ DOMAIN s = 1 .. n /\ DOMAIN t = 1 .. (n + 1) /\ t[n + 1] = x
                       /\ \A k \in 1 .. n : t[k] = s[k]
  BY DEF Extends
<1>. DEFINE A == {k \in DOMAIN s : s[k] \in P}
            B == {k \in DOMAIN t : t[k] \in P}
<1>2. IsFiniteSet(A)
  BY <1>1, CountNat DEF Listing
<1>3. n + 1 \notin A /\ B = IF x \in P THEN A \cup {n + 1} ELSE A
  BY <1>1
<1>. HIDE DEF A, B
<1>4. Cardinality(B) = Cardinality(A) + (IF x \in P THEN 1 ELSE 0)
  BY <1>2, <1>3, OneMore, Zenon
<1>. QED BY <1>4 DEF Count, A, B

(* A sequence without its element i; the others may have moved.            *)
Dropped(s, t, i) ==
    /\ Listing(s) /\ Listing(t) /\ i \in DOMAIN s
    /\ \E h \in Bijection(DOMAIN t, DOMAIN s \ {i}) : \A k \in DOMAIN t : t[k] = s[h[k]]

LEMMA CountDropped ==
    ASSUME NEW s, NEW t, NEW i, Dropped(s, t, i), NEW P
    PROVE  Count(s, P) = Count(t, P) + (IF s[i] \in P THEN 1 ELSE 0)
<1>1. PICK h \in Bijection(DOMAIN t, DOMAIN s \ {i}) : \A k \in DOMAIN t : t[k] = s[h[k]]
  BY DEF Dropped
<1>. DEFINE A == {k \in DOMAIN s \ {i} : s[k] \in P}
            B == {k \in DOMAIN t : t[k] \in P}
            C == {k \in DOMAIN s : s[k] \in P}
            g == [k \in B |-> h[k]]
<1>2. IsFiniteSet(B)
  BY CountNat DEF Dropped
<1>3. g \in Bijection(B, A)
  <2>1. h \in [DOMAIN t -> DOMAIN s \ {i}]
    BY <1>1 DEF Bijection, Injection
  <2>2. g \in [B -> A]
    BY <1>1, <2>1
  <2>3. ASSUME NEW x \in B, NEW y \in B, g[x] = g[y] PROVE x = y
    BY <1>1, <2>3 DEF Bijection, Injection, IsInjective
  <2>4. ASSUME NEW y \in A PROVE \E x \in B : g[x] = y
    <3>1. PICK x \in DOMAIN t : h[x] = y
      BY <1>1, <2>4 DEF Bijection, Surjection
    <3>. QED BY <1>1, <3>1
  <2>. QED BY <2>2, <2>3, <2>4 DEF Bijection, Injection, IsInjective, Surjection
<1>4. IsFiniteSet(A) /\ Cardinality(B) = Cardinality(A)
  <2>. HIDE DEF A, B, g
  <2>. QED BY <1>2, <1>3, FS_Bijection DEF ExistsBijection
<1>5. i \notin A /\ C = IF s[i] \in P THEN A \cup {i} ELSE A
  BY DEF Dropped
<1>. HIDE DEF A, B, C
<1>6. Cardinality(C) = Cardinality(A) + (IF s[i] \in P THEN 1 ELSE 0)
  BY <1>4, <1>5, OneMore, Zenon
<1>. QED BY <1>4, <1>6, Zenon DEF Count, B, C

(* One element is replaced.                                                *)
LEMMA CountReplaced ==
    ASSUME NEW s, Listing(s), NEW t, DOMAIN t = DOMAIN s, NEW i \in DOMAIN s,
           \A k \in DOMAIN s : k # i => t[k] = s[k], NEW P
    PROVE  Count(t, P) + (IF s[i] \in P THEN 1 ELSE 0)
           = Count(s, P) + (IF t[i] \in P THEN 1 ELSE 0)
<1>. DEFINE A == {k \in DOMAIN s \ {i} : s[k] \in P}
            B == {k \in DOMAIN s : s[k] \in P}
            C == {k \in DOMAIN t : t[k] \in P}
<1>1. IsFiniteSet(B)
  BY CountNat
<1>2. A \subseteq B /\ i \notin A
  OBVIOUS
<1>3. B = IF s[i] \in P THEN A \cup {i} ELSE A
  OBVIOUS
<1>4. C = IF t[i] \in P THEN A \cup {i} ELSE A
  OBVIOUS
<1>. HIDE DEF A, B, C
<1>5. IsFiniteSet(A) /\ Cardinality(A) \in Nat
  BY <1>1, <1>2, FS_Subset, FS_CardinalityType
<1>6. Cardinality(B) = Cardinality(A) + (IF s[i] \in P THEN 1 ELSE 0)
  BY <1>2, <1>3, <1>5, OneMore, Zenon
<1>7. Cardinality(C) = Cardinality(A) + (IF t[i] \in P THEN 1 ELSE 0)
  BY <1>2, <1>4, <1>5, OneMore, Zenon
<1>8. Count(s, P) = Cardinality(B) /\ Count(t, P) = Cardinality(C)
  BY DEF Count, B, C
<1>. QED BY <1>5, <1>6, <1>7, <1>8

-----------------------------------------------------------------------------
(* Sums of integers: what the fold of + over a finite set computes.        *)

Chosen(T) == CHOOSE x \in T : TRUE

IsSum(h, f, S) ==
    h = [T \in SUBSET S |-> IF T = {} THEN 0 ELSE f[Chosen(T)] + h[T \ {Chosen(T)}]]

SignedTotal(f, S) == (CHOOSE h : IsSum(h, f, S))[S]

(* There is such a function: it is built from the smaller sets to the      *)
(* larger ones.                                                            *)
LEMMA SumExists ==
    ASSUME NEW S, IsFiniteSet(S), NEW f
    PROVE  \E h : IsSum(h, f, S)
<1>. DEFINE rhs(h, T) == IF T = {} THEN 0 ELSE f[Chosen(T)] + h[T \ {Chosen(T)}]
            N == {n \in Nat : \E h : \A T \in SUBSET S : Cardinality(T) <= n => h[T] = rhs(h, T)}
<1>1. \A T \in SUBSET S : IsFiniteSet(T) /\ Cardinality(T) \in Nat
  BY FS_Subset, FS_CardinalityType
<1>2. \A T \in SUBSET S : T # {} =>
          /\ Chosen(T) \in T /\ T \ {Chosen(T)} \in SUBSET S
          /\ Cardinality(T \ {Chosen(T)}) = Cardinality(T) - 1
  BY <1>1, FS_RemoveElement DEF Chosen
<1>3. \A T \in SUBSET S : Cardinality(T) <= 0 => T = {}
  BY <1>1, FS_EmptySet
<1>4. 0 \in N
  <2>. DEFINE h == [T \in SUBSET S |-> 0]
  <2>1. \A T \in SUBSET S : Cardinality(T) <= 0 => h[T] = rhs(h, T)
    BY <1>3
  <2>. QED BY <2>1
<1>5. ASSUME NEW n \in Nat, n \in N PROVE n + 1 \in N
  <2>1. PICK h : \A T \in SUBSET S : Cardinality(T) <= n => h[T] = rhs(h, T)
    BY <1>5
  <2>. DEFINE g == [T \in SUBSET S |-> rhs(h, T)]
  <2>2. \A T \in SUBSET S : Cardinality(T) <= n => g[T] = h[T]
    BY <2>1
  <2>3. ASSUME NEW T \in SUBSET S, Cardinality(T) <= n + 1, T # {}
        PROVE  g[T \ {Chosen(T)}] = h[T \ {Chosen(T)}]
    <3>1. Cardinality(T \ {Chosen(T)}) <= n
      BY <1>1, <1>2, <2>3
    <3>. QED BY <1>2, <2>2, <2>3, <3>1
  <2>4. \A T \in SUBSET S : Cardinality(T) <= n + 1 => g[T] = rhs(g, T)
    BY <2>3
  <2>. HIDE DEF g
  <2>5. n + 1 \in Nat
    OBVIOUS
  <2>. QED BY <2>4, <2>5
<1>. HIDE DEF N
<1>6. Cardinality(S) \in N
  BY <1>1, <1>4, <1>5, NatSetInduction
<1>7. PICK h : \A T \in SUBSET S : Cardinality(T) <= Cardinality(S) => h[T] = rhs(h, T)
  BY <1>6 DEF N
<1>8. \A T \in SUBSET S : Cardinality(T) <= Cardinality(S)
  BY FS_Subset
<1>. DEFINE g == [T \in SUBSET S |-> h[T]]
<1>9. \A T \in SUBSET S : h[T] = rhs(g, T)
  BY <1>2, <1>7, <1>8
<1>10. g = [T \in SUBSET S |-> rhs(g, T)]
  BY <1>9
<1>. HIDE DEF g
<1>. QED BY <1>10 DEF IsSum

LEMMA SumIsSum ==
    ASSUME NEW S, IsFiniteSet(S), NEW f
    PROVE  \E h : IsSum(h, f, S) /\ h[S] = SignedTotal(f, S)
BY SumExists DEF SignedTotal

(* Both functions take the elements in the same order, so that a change of *)
(* one value is a change of the sum.                                       *)
LEMMA SignedTotalChange ==
    ASSUME NEW S, IsFiniteSet(S), NEW f \in [S -> Int], NEW g \in [S -> Int], NEW x \in S,
           \A y \in S : y # x => g[y] = f[y]
    PROVE  /\ SignedTotal(f, S) \in Int
           /\ SignedTotal(g, S) = SignedTotal(f, S) - f[x] + g[x]
<1>1. PICK a : IsSum(a, f, S) /\ a[S] = SignedTotal(f, S)
  BY SumIsSum
<1>2. PICK b : IsSum(b, g, S) /\ b[S] = SignedTotal(g, S)
  BY SumIsSum
<1>. DEFINE Good(T) == a[T] \in Int /\ b[T] = a[T] + (IF x \in T THEN g[x] - f[x] ELSE 0)
            N == {n \in Nat : \A T \in SUBSET S : Cardinality(T) <= n => Good(T)}
<1>3. \A T \in SUBSET S : IsFiniteSet(T) /\ Cardinality(T) \in Nat
  BY FS_Subset, FS_CardinalityType
<1>4. \A T \in SUBSET S : T # {} =>
          /\ Chosen(T) \in T /\ T \ {Chosen(T)} \in SUBSET S
          /\ Cardinality(T \ {Chosen(T)}) = Cardinality(T) - 1
  BY <1>3, FS_RemoveElement DEF Chosen
<1>5. \A T \in SUBSET S : Cardinality(T) <= 0 => T = {}
  BY <1>3, FS_EmptySet
<1>6. Good({})
  BY <1>1, <1>2 DEF IsSum
<1>7. 0 \in N
  BY <1>5, <1>6
<1>8. ASSUME NEW n \in Nat, n \in N PROVE n + 1 \in N
  <2>1. ASSUME NEW T \in SUBSET S, Cardinality(T) <= n + 1, T # {} PROVE Good(T)
    <3>. DEFINE c == Chosen(T)
                U == T \ {c}
    <3>1. Cardinality(U) <= n /\ U \in SUBSET S /\ c \in T /\ c \in S
      BY <1>3, <1>4, <2>1
    <3>2. Good(U)
      BY <1>8, <3>1
    <3>3. a[T] = f[c] + a[U] /\ b[T] = g[c] + b[U]
      BY <1>1, <1>2, <2>1 DEF IsSum
    <3>4. f[c] \in Int /\ g[c] \in Int /\ f[x] \in Int /\ g[x] \in Int
      BY <3>1
    <3>5. CASE c = x
      <4>1. x \notin U /\ x \in T
        BY <3>1, <3>5
      <4>. HIDE DEF c, U
      <4>. QED BY <3>2, <3>3, <3>4, <3>5, <4>1
    <3>6. CASE c # x
      <4>1. (x \in U) = (x \in T) /\ g[c] = f[c]
        BY <3>1, <3>6
      <4>. HIDE DEF c, U
      <4>. QED BY <3>2, <3>3, <3>4, <4>1
    <3>. QED BY <3>5, <3>6
  <2>2. \A T \in SUBSET S : Cardinality(T) <= n + 1 => Good(T)
    BY <1>6, <2>1
  <2>. QED BY <2>2
<1>. HIDE DEF N
<1>9. Cardinality(S) \in N
  BY <1>3, <1>7, <1>8, NatSetInduction
<1>10. Good(S)
  BY <1>3, <1>9 DEF N
<1>. QED BY <1>1, <1>2, <1>10

LEMMA SignedTotalZero ==
    ASSUME NEW S, IsFiniteSet(S)
    PROVE  SignedTotal([x \in S |-> 0], S) = 0
<1>. DEFINE f == [x \in S |-> 0]
<1>1. PICK a : IsSum(a, f, S) /\ a[S] = SignedTotal(f, S)
  BY SumIsSum
<1>. DEFINE N == {n \in Nat : \A T \in SUBSET S : Cardinality(T) <= n => a[T] = 0}
<1>3. \A T \in SUBSET S : IsFiniteSet(T) /\ Cardinality(T) \in Nat
  BY FS_Subset, FS_CardinalityType
<1>4. \A T \in SUBSET S : T # {} =>
          /\ Chosen(T) \in T /\ T \ {Chosen(T)} \in SUBSET S
          /\ Cardinality(T \ {Chosen(T)}) = Cardinality(T) - 1
  BY <1>3, FS_RemoveElement DEF Chosen
<1>5. \A T \in SUBSET S : Cardinality(T) <= 0 => T = {}
  BY <1>3, FS_EmptySet
<1>6. a[{}] = 0
  BY <1>1 DEF IsSum
<1>7. 0 \in N
  BY <1>5, <1>6
<1>8. ASSUME NEW n \in Nat, n \in N PROVE n + 1 \in N
  <2>1. ASSUME NEW T \in SUBSET S, Cardinality(T) <= n + 1, T # {} PROVE a[T] = 0
    <3>1. Cardinality(T \ {Chosen(T)}) <= n /\ T \ {Chosen(T)} \in SUBSET S /\ Chosen(T) \in S
      BY <1>3, <1>4, <2>1
    <3>2. a[T \ {Chosen(T)}] = 0
      BY <1>8, <3>1
    <3>3. a[T] = f[Chosen(T)] + a[T \ {Chosen(T)}]
      BY <1>1, <2>1 DEF IsSum
    <3>. QED BY <3>1, <3>2, <3>3
  <2>. QED BY <1>6, <2>1
<1>. HIDE DEF N
<1>9. Cardinality(S) \in N
  BY <1>3, <1>7, <1>8, NatSetInduction
<1>. QED BY <1>1, <1>3, <1>9 DEF N

=============================================================================
