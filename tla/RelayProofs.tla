---------------------------- MODULE RelayProofs ----------------------------
(***************************************************************************)
(* The storage maps of the Bitcoin relay describe a tree of headers cut    *)
(* into chains, and every step keeps it one; from this, what the other     *)
(* pallets rest on. The argument is made for trees, given by functions on  *)
(* the numbers of headers and of chains, and then carried over to the      *)
(* maps.                                                                   *)
(***************************************************************************)
EXTENDS BtcRelay, DataTheorems, SequenceTheorems

-----------------------------------------------------------------------------
(* Trees. A tree has N headers, numbered as they arrived; P gives the      *)
(* previous header of each (0 for the root), C its chain, H its height. It *)
(* has k chains; B and T give the first and the last height of each, s is  *)
(* the height of the root.                                                 *)

Typed(N, P, C, H, k, B, T, s) ==
    /\ N \in Nat /\ k \in Nat /\ s \in Nat
    /\ P \in [1 .. N -> 0 .. N] /\ C \in [1 .. N -> 0 .. k - 1] /\ H \in [1 .. N -> Nat]
    /\ B \in [0 .. k - 1 -> Nat] /\ T \in [0 .. k - 1 -> Nat]

(* The root is on the main chain at height s; every other header comes     *)
(* after the one it extends and is one higher.                             *)
Rooted(N, P, C, H, s) ==
    \A h \in 1 .. N : IF P[h] = 0 THEN C[h] = 0 /\ H[h] = s
                      ELSE P[h] < h /\ H[h] = H[P[h]] + 1

(* A chain has one header at a height.                                     *)
Unique(N, C, H) == \A g, h \in 1 .. N : C[g] = C[h] /\ H[g] = H[h] => g = h

(* A chain has a header at each height from its first to its last, and at  *)
(* no other.                                                               *)
Filled(N, C, H, k, B, T) ==
    /\ \A h \in 1 .. N : B[C[h]] <= H[h] /\ H[h] <= T[C[h]]
    /\ \A i \in 0 .. k - 1 : B[i] <= T[i]
    /\ \A i \in 0 .. k - 1, n \in Nat :
          B[i] <= n /\ n <= T[i] => \E h \in 1 .. N : C[h] = i /\ H[h] = n

(* A header above the first of its chain extends one of the same chain.    *)
(* The first header of a fork extends one of another chain that goes on    *)
(* above it.                                                               *)
Linked(N, P, C, H, B, T) ==
    /\ \A h \in 1 .. N : B[C[h]] < H[h] => P[h] # 0 /\ C[P[h]] = C[h]
    /\ \A h \in 1 .. N : C[h] # 0 /\ H[h] = B[C[h]] =>
          P[h] # 0 /\ C[P[h]] # C[h] /\ H[P[h]] < T[C[P[h]]]

Tree(N, P, C, H, k, B, T, s) ==
    /\ Typed(N, P, C, H, k, B, T, s)
    /\ Rooted(N, P, C, H, s)
    /\ Unique(N, C, H)
    /\ Filled(N, C, H, k, B, T)
    /\ Linked(N, P, C, H, B, T)
    /\ k > 0 => B[0] = s

(* M is the path from tip down to the main chain, which it meets at b.     *)
PathTo(N, P, C, H, tip, M, b) ==
    /\ M \subseteq 1 .. N /\ tip \in M /\ b \in 1 .. N /\ C[b] = 0
    /\ \A h \in M : C[h] # 0 /\ H[b] < H[h] /\ H[h] <= H[tip] /\ (P[h] \in M \/ P[h] = b)
    /\ \A g, h \in M : H[g] = H[h] => g = h
    /\ \A n \in Nat : H[b] < n /\ n <= H[tip] => \E h \in M : H[h] = n

(* The types of the parts of a tree.                                       *)
LEMMA TreeTypes ==
    ASSUME NEW N, NEW P, NEW C, NEW H, NEW k, NEW B, NEW T, NEW s, Tree(N, P, C, H, k, B, T, s)
    PROVE  /\ N \in Nat /\ k \in Nat /\ s \in Nat
           /\ \A h \in 1 .. N : C[h] \in 0 .. k - 1 /\ H[h] \in Nat /\ P[h] \in 0 .. N
           /\ \A i \in 0 .. k - 1 : B[i] \in Nat /\ T[i] \in Nat
  BY DEF Tree, Typed

(* A header that is not the root extends an earlier header, one lower.     *)
LEMMA Parent ==
    ASSUME NEW N, NEW P, NEW C, NEW H, NEW k, NEW B, NEW T, NEW s, Tree(N, P, C, H, k, B, T, s),
           NEW h \in 1 .. N, P[h] # 0
    PROVE  P[h] \in 1 .. N /\ P[h] < h /\ H[h] = H[P[h]] + 1 /\ H[P[h]] \in Nat /\ H[h] \in Nat
<1>1. N \in Nat /\ P[h] \in 0 .. N
  BY TreeTypes
<1>2. P[h] \in 1 .. N
  BY <1>1
<1>3. H[P[h]] \in Nat /\ H[h] \in Nat
  BY <1>2, TreeTypes
<1>4. P[h] < h /\ H[h] = H[P[h]] + 1
  BY DEF Tree, Rooted
<1>. QED BY <1>2, <1>3, <1>4

(* A path to a header on a fork goes on to the headers that extend it.     *)
LEMMA PathGrows ==
    ASSUME NEW N, NEW P, NEW C, NEW H, NEW k, NEW B, NEW T, NEW s, Tree(N, P, C, H, k, B, T, s),
           NEW tip \in 1 .. N, C[tip] # 0, P[tip] # 0, C[P[tip]] # 0,
           NEW M, NEW b, PathTo(N, P, C, H, P[tip], M, b)
    PROVE  PathTo(N, P, C, H, tip, {tip} \cup M, b)
<1>1. /\ P[tip] \in 1 .. N /\ H[tip] = H[P[tip]] + 1 /\ H[tip] \in Nat
      /\ H[P[tip]] \in Nat /\ N \in Nat /\ \A h \in 1 .. N : H[h] \in Nat
  BY Parent, TreeTypes
<1>. DEFINE L == {tip} \cup M
<1>2. /\ L \subseteq 1 .. N /\ tip \in L /\ b \in 1 .. N /\ C[b] = 0
  BY DEF PathTo
<1>3. \A h \in L : C[h] # 0 /\ H[b] < H[h] /\ H[h] <= H[tip] /\ (P[h] \in L \/ P[h] = b)
  <2>1. \A h \in M : H[h] \in Nat
    BY <1>1 DEF PathTo
  <2>. QED BY <2>1, <1>1 DEF PathTo
<1>4. \A g, h \in L : H[g] = H[h] => g = h
  BY <1>1 DEF PathTo
<1>5. \A n \in Nat : H[b] < n /\ n <= H[tip] => \E h \in L : H[h] = n
  BY <1>1 DEF PathTo
<1>. QED BY <1>2, <1>3, <1>4, <1>5 DEF PathTo

(* The recursion of links_to_main yields the path to the main chain.       *)
LEMMA PathExists ==
    ASSUME NEW N, NEW P, NEW C, NEW H, NEW k, NEW B, NEW T, NEW s, Tree(N, P, C, H, k, B, T, s),
           NEW F, \A h \in 1 .. N : F[h] = IF C[h] = 0 THEN {} ELSE {h} \cup F[P[h]],
           NEW tip \in 1 .. N, C[tip] # 0
    PROVE  \E b : PathTo(N, P, C, H, tip, F[tip], b)
<1>. DEFINE S == {n \in Nat : \A h \in 1 .. N :
                     h <= n /\ C[h] # 0 => \E b : PathTo(N, P, C, H, h, F[h], b)}
<1>1. 0 \in S
  BY DEF Tree, Typed
<1>2. ASSUME NEW n \in Nat, n \in S PROVE n + 1 \in S
  <2>1. SUFFICES ASSUME NEW h \in 1 .. N, h <= n + 1, C[h] # 0
                 PROVE  \E b : PathTo(N, P, C, H, h, F[h], b)
    OBVIOUS
  <2>0. P[h] # 0
    BY <2>1 DEF Tree, Rooted
  <2>2. /\ P[h] \in 1 .. N /\ P[h] < h /\ H[h] = H[P[h]] + 1 /\ P[h] # 0 /\ N \in Nat
        /\ H[h] \in Nat /\ H[P[h]] \in Nat
    BY <2>0, <2>1, Parent, TreeTypes
  <2>3. F[h] = {h} \cup F[P[h]]
    BY <2>1
  <2>4. CASE C[P[h]] = 0
    <3>1. F[P[h]] = {}
      BY <2>2, <2>4
    <3>2. PathTo(N, P, C, H, h, {h}, P[h])
      BY <2>1, <2>2, <2>4 DEF PathTo
    <3>. QED BY <3>1, <3>2, <2>3
  <2>5. CASE C[P[h]] # 0
    <3>1. P[h] <= n
      BY <2>1, <2>2
    <3>2. PICK b : PathTo(N, P, C, H, P[h], F[P[h]], b)
      BY <1>2, <2>2, <2>5, <3>1
    <3>3. PathTo(N, P, C, H, h, {h} \cup F[P[h]], b)
      BY <2>1, <2>2, <2>5, <3>2, PathGrows
    <3>. QED BY <2>3, <3>3
  <2>. QED BY <2>4, <2>5
<1>. HIDE DEF S
<1>3. Nat \subseteq S
  BY <1>1, <1>2, NatSetInduction
<1>4. tip \in S /\ tip \in Nat
  BY <1>3 DEF Tree, Typed
<1>. QED BY <1>4 DEF S

-----------------------------------------------------------------------------
(* Reorganisation: the path M from the tip of the fork f becomes a part of *)
(* the main chain                                                          *)

(* When a fork is swapped in: it is higher than the main chain, and        *)
(* nothing extends its last header.                                        *)
Overtaking(N, P, C, H, k, B, T, s, f, tip, M, b) ==
    /\ Tree(N, P, C, H, k, B, T, s)
    /\ PathTo(N, P, C, H, tip, M, b)
    /\ f \in 1 .. k - 1 /\ C[tip] = f /\ H[tip] = T[f] /\ T[0] < T[f]
    /\ \A h \in 1 .. N : P[h] # tip

(* What the members of the path and their parents are.                     *)
LEMMA PathFacts ==
    ASSUME NEW N, NEW P, NEW C, NEW H, NEW k, NEW B, NEW T, NEW s, NEW f, NEW tip, NEW M, NEW b,
           Overtaking(N, P, C, H, k, B, T, s, f, tip, M, b)
    PROVE  /\ tip \in 1 .. N /\ b \in 1 .. N /\ M \subseteq 1 .. N /\ C[b] = 0
           /\ 0 \in 0 .. k - 1 /\ f \in 0 .. k - 1 /\ f # 0 /\ k > 0 /\ tip \in M
           /\ \A h \in M : /\ C[h] # 0 /\ H[b] < H[h] /\ H[h] <= H[tip]
                           /\ P[h] \in 1 .. N /\ P[h] # 0 /\ H[h] = H[P[h]] + 1
                           /\ C[P[h]] # 0 => P[h] \in M
                           /\ C[P[h]] = 0 => P[h] = b
<1>1. /\ tip \in 1 .. N /\ b \in 1 .. N /\ M \subseteq 1 .. N /\ C[b] = 0
  BY DEF Overtaking, PathTo
<1>2. 0 \in 0 .. k - 1 /\ f \in 0 .. k - 1 /\ f # 0 /\ k > 0
  <2>1. k \in Nat
    BY TreeTypes DEF Overtaking
  <2>. QED BY <2>1 DEF Overtaking
<1>3. ASSUME NEW h \in M
      PROVE  /\ P[h] \in 1 .. N /\ P[h] # 0 /\ H[h] = H[P[h]] + 1
             /\ C[P[h]] # 0 => P[h] \in M
             /\ C[P[h]] = 0 => P[h] = b
  <2>1. h \in 1 .. N /\ C[h] # 0 /\ (P[h] \in M \/ P[h] = b)
    BY DEF Overtaking, PathTo
  <2>2. P[h] # 0
    BY <2>1 DEF Overtaking, Tree, Rooted
  <2>3. Tree(N, P, C, H, k, B, T, s)
    BY DEF Overtaking
  <2>4. P[h] \in 1 .. N /\ H[h] = H[P[h]] + 1
    BY <2>1, <2>2, <2>3, Parent
  <2>5. \A g \in M : C[g] # 0
    BY DEF Overtaking, PathTo
  <2>. QED BY <1>1, <2>1, <2>2, <2>4, <2>5
<1>4. tip \in M /\ \A h \in M : C[h] # 0 /\ H[b] < H[h] /\ H[h] <= H[tip]
  BY DEF Overtaking, PathTo
<1>. QED BY <1>1, <1>2, <1>3, <1>4

(* Each member of the path but its end has a child on the path.            *)
LEMMA PathChild ==
    ASSUME NEW N, NEW P, NEW C, NEW H, NEW k, NEW B, NEW T, NEW s, NEW f, NEW tip, NEW M, NEW b,
           Overtaking(N, P, C, H, k, B, T, s, f, tip, M, b), NEW h \in M, h # tip
    PROVE  \E g \in M : P[g] = h /\ H[g] = H[h] + 1
<1>1. /\ tip \in M /\ H[h] \in Nat /\ H[tip] \in Nat /\ H[b] \in Nat
      /\ H[b] < H[h] /\ H[h] <= H[tip]
      /\ \A g \in M : H[g] \in Nat /\ H[P[g]] \in Nat
  <2>1. \A g \in 1 .. N : H[g] \in Nat
    BY TreeTypes DEF Overtaking
  <2>. QED BY <2>1, PathFacts, ZenonT(30) DEF Overtaking, PathTo
<1>2. H[h] + 1 <= H[tip]
  BY <1>1 DEF Overtaking, PathTo
<1>3. PICK g \in M : H[g] = H[h] + 1
  BY <1>1, <1>2 DEF Overtaking, PathTo
<1>4. H[P[g]] = H[h] /\ P[g] # b
  BY <1>1, <1>3, PathFacts
<1>5. P[g] \in M
  BY <1>4 DEF Overtaking, PathTo
<1>6. P[g] = h
  BY <1>4, <1>5 DEF Overtaking, PathTo
<1>. QED BY <1>3, <1>6

(* The path contains what is below one of its headers in the same chain.   *)
LEMMA PathClosed ==
    ASSUME NEW N, NEW P, NEW C, NEW H, NEW k, NEW B, NEW T, NEW s, NEW f, NEW tip, NEW M, NEW b,
           Overtaking(N, P, C, H, k, B, T, s, f, tip, M, b),
           NEW g \in M, NEW x \in 1 .. N, C[x] = C[g], H[x] <= H[g]
    PROVE  x \in M
<1>0. /\ \A h \in 1 .. N : H[h] \in Nat /\ C[h] \in 0 .. k - 1 /\ B[C[h]] \in Nat
      /\ \A h \in 1 .. N : B[C[h]] <= H[h]
  BY TreeTypes DEF Overtaking, Tree, Filled
<1>. DEFINE S == {d \in Nat : \A h \in M : C[x] = C[h] /\ H[h] = H[x] + d => x \in M}
<1>1. 0 \in S
  BY <1>0 DEF Overtaking, PathTo, Tree, Unique
<1>2. ASSUME NEW d \in Nat, d \in S PROVE d + 1 \in S
  <2>1. SUFFICES ASSUME NEW h \in M, C[x] = C[h], H[h] = H[x] + (d + 1) PROVE x \in M
    OBVIOUS
  <2>2. h \in 1 .. N /\ C[h] # 0
    BY DEF Overtaking, PathTo
  <2>3. B[C[h]] < H[h]
    BY <1>0, <2>1, <2>2
  <2>4. C[P[h]] = C[h]
    BY <2>2, <2>3 DEF Overtaking, Tree, Linked
  <2>5. P[h] \in M /\ H[h] = H[P[h]] + 1 /\ P[h] \in 1 .. N
    BY <2>2, <2>4, PathFacts
  <2>6. H[P[h]] = H[x] + d
    BY <1>0, <2>1, <2>2, <2>5
  <2>. QED BY <1>2, <2>1, <2>4, <2>5, <2>6
<1>. HIDE DEF S
<1>3. H[g] - H[x] \in S /\ H[g] = H[x] + (H[g] - H[x])
  <2>1. H[g] \in Nat /\ H[x] \in Nat
    BY <1>0, PathFacts
  <2>2. H[g] - H[x] \in Nat /\ H[g] = H[x] + (H[g] - H[x])
    BY <2>1
  <2>3. Nat \subseteq S
    BY <1>1, <1>2, NatSetInduction
  <2>. QED BY <2>2, <2>3
<1>. QED BY <1>3 DEF S

(* Where the path leaves a chain, the chain goes on above, and what the    *)
(* path has of the chain is below.                                         *)
LEMMA PathBranch ==
    ASSUME NEW N, NEW P, NEW C, NEW H, NEW k, NEW B, NEW T, NEW s, NEW f, NEW tip, NEW M, NEW b,
           Overtaking(N, P, C, H, k, B, T, s, f, tip, M, b),
           NEW h \in M, C[P[h]] # C[h]
    PROVE  /\ H[P[h]] < T[C[P[h]]]
           /\ \A x \in M : C[x] = C[P[h]] => H[x] <= H[P[h]]
<1>0. \A g \in 1 .. N : /\ H[g] \in Nat /\ C[g] \in 0 .. k - 1 /\ B[C[g]] \in Nat /\ T[C[g]] \in Nat
                        /\ B[C[g]] <= H[g] /\ H[g] <= T[C[g]]
  BY TreeTypes DEF Overtaking, Tree, Filled
<1>1. h \in 1 .. N /\ C[h] # 0 /\ P[h] \in 1 .. N /\ H[h] = H[P[h]] + 1
  BY PathFacts
<1>2. H[h] = B[C[h]]
  BY <1>0, <1>1 DEF Overtaking, Tree, Linked
<1>3. H[P[h]] < T[C[P[h]]]
  BY <1>1, <1>2 DEF Overtaking, Tree, Linked
<1>4. ASSUME NEW x \in M, C[x] = C[P[h]], ~(H[x] <= H[P[h]]) PROVE FALSE
  <2>1. x \in 1 .. N /\ H[h] <= H[x] /\ B[C[P[h]]] <= H[h] /\ H[h] <= T[C[P[h]]] /\ H[h] \in Nat
    BY <1>0, <1>1, <1>4, PathFacts
  <2>2. PICK y \in 1 .. N : C[y] = C[P[h]] /\ H[y] = H[h]
    BY <1>0, <1>1, <2>1 DEF Overtaking, Tree, Filled
  <2>3. y \in M
    BY <1>4, <2>1, <2>2, PathClosed
  <2>4. y = h
    BY <2>2, <2>3 DEF Overtaking, PathTo
  <2>. QED BY <2>2, <2>4
<1>. QED BY <1>3, <1>4

(* The path contains the overtaking fork.                                  *)
LEMMA PathFork ==
    ASSUME NEW N, NEW P, NEW C, NEW H, NEW k, NEW B, NEW T, NEW s, NEW f, NEW tip, NEW M, NEW b,
           Overtaking(N, P, C, H, k, B, T, s, f, tip, M, b), NEW x \in 1 .. N, C[x] = f
    PROVE  x \in M
<1>1. tip \in M /\ C[tip] = f /\ H[tip] = T[f]
  BY DEF Overtaking, PathTo
<1>2. H[x] <= T[C[x]]
  BY DEF Overtaking, Tree, Filled
<1>. QED BY <1>1, <1>2, PathClosed

(* The main chain goes on above the header where the path meets it.        *)
LEMMA PathBase ==
    ASSUME NEW N, NEW P, NEW C, NEW H, NEW k, NEW B, NEW T, NEW s, NEW f, NEW tip, NEW M, NEW b,
           Overtaking(N, P, C, H, k, B, T, s, f, tip, M, b)
    PROVE  /\ H[b] \in Nat /\ B[0] = s /\ s <= H[b] /\ H[b] < T[0] /\ T[0] < T[f]
           /\ T[0] \in Nat /\ T[f] \in Nat
           /\ \E h \in M : C[P[h]] = 0
<1>0. \A g \in 1 .. N : H[g] \in Nat
  BY TreeTypes DEF Overtaking
<1>1. T[0] \in Nat /\ T[f] \in Nat
  BY PathFacts, TreeTypes DEF Overtaking
<1>2. b \in 1 .. N /\ tip \in 1 .. N /\ C[b] = 0 /\ k > 0 /\ tip \in M /\ H[b] < H[tip]
  BY PathFacts
<1>3. B[0] = s /\ s <= H[b]
  BY <1>2 DEF Overtaking, Tree, Filled
<1>4. PICK h \in M : H[h] = H[b] + 1
  <2>1. H[b] + 1 \in Nat /\ H[b] < H[b] + 1 /\ H[b] + 1 <= H[tip]
    BY <1>0, <1>2
  <2>. QED BY <2>1 DEF Overtaking, PathTo
<1>5. P[h] = b
  <2>1. H[P[h]] = H[b]
    BY <1>0, <1>2, <1>4, PathFacts
  <2>2. P[h] \notin M
    BY <1>0, <1>2, <2>1, PathFacts
  <2>. QED BY <2>2 DEF Overtaking, PathTo
<1>6. C[h] # 0
  BY DEF Overtaking, PathTo
<1>7. H[b] < T[0]
  BY <1>2, <1>5, <1>6, PathBranch
<1>8. T[0] < T[f]
  BY DEF Overtaking
<1>9. H[b] \in Nat
  BY <1>0, <1>2
<1>. QED BY <1>1, <1>2, <1>3, <1>5, <1>7, <1>8, <1>9

(* Where a fork i in between starts after the swap: above the header the   *)
(* path branches off, or where it started if the path does not touch it.   *)
NewStart(P, C, H, B, M, i, n) ==
    \/ \E h \in M : C[P[h]] = i /\ C[h] # i /\ n = H[P[h]] + 1
    \/ (\A h \in M : C[P[h]] = i => C[h] = i) /\ n = B[i]

(* A fork off which the path does not branch has no header on the path.    *)
LEMMA PathUntouched ==
    ASSUME NEW N, NEW P, NEW C, NEW H, NEW k, NEW B, NEW T, NEW s, NEW f, NEW tip, NEW M, NEW b,
           Overtaking(N, P, C, H, k, B, T, s, f, tip, M, b),
           NEW i \in 1 .. k - 1, i # f, \A h \in M : C[P[h]] = i => C[h] = i
    PROVE  \A x \in M : C[x] # i
<1>1. SUFFICES ASSUME NEW x \in M, C[x] = i PROVE FALSE
  OBVIOUS
<1>0. /\ H[tip] \in Nat /\ tip \in M /\ C[tip] = f
      /\ \A h \in M : H[h] \in Nat /\ H[h] <= H[tip]
  BY TreeTypes, PathFacts DEF Overtaking, PathTo
<1>. DEFINE S == {H[tip] - H[h] : h \in {g \in M : C[g] = i}}
<1>2. S \subseteq Nat /\ S # {}
  BY <1>0, <1>1
<1>3. PICK d \in S : \A e \in S : d <= e
  BY <1>2, LeastNat
<1>4. PICK h \in M : C[h] = i /\ d = H[tip] - H[h]
  BY <1>3
<1>5. h # tip
  BY <1>0, <1>4
<1>6. PICK g \in M : P[g] = h /\ H[g] = H[h] + 1
  BY <1>5, PathChild
<1>7. C[g] = i
  BY <1>4, <1>6
<1>8. H[tip] - H[g] \in S
  BY <1>7
<1>9. d <= H[tip] - H[g]
  BY <1>3, <1>8
<1>. QED BY <1>0, <1>4, <1>6, <1>9

(* The path takes from a fork in between the headers below its new start.  *)
LEMMA PathCut ==
    ASSUME NEW N, NEW P, NEW C, NEW H, NEW k, NEW B, NEW T, NEW s, NEW f, NEW tip, NEW M, NEW b,
           Overtaking(N, P, C, H, k, B, T, s, f, tip, M, b),
           NEW i \in 1 .. k - 1, i # f, NEW n, NewStart(P, C, H, B, M, i, n)
    PROVE  /\ n \in Nat /\ B[i] <= n /\ n <= T[i]
           /\ \A x \in 1 .. N : C[x] = i => (x \in M <=> H[x] < n)
<1>0. /\ \A g \in 1 .. N : H[g] \in Nat /\ B[C[g]] <= H[g] /\ C[g] \in 0 .. k - 1
      /\ i \in 0 .. k - 1 /\ i # 0 /\ B[i] \in Nat /\ T[i] \in Nat /\ B[i] <= T[i]
  <2>1. k \in Nat
    BY TreeTypes DEF Overtaking
  <2>2. i \in 0 .. k - 1 /\ i # 0
    BY <2>1
  <2>. QED BY <2>2, TreeTypes DEF Overtaking, Tree, Filled
<1>1. CASE \E h \in M : C[P[h]] = i /\ C[h] # i /\ n = H[P[h]] + 1
  <2>1. PICK h \in M : C[P[h]] = i /\ C[h] # i /\ n = H[P[h]] + 1
    BY <1>1
  <2>2. P[h] \in M /\ P[h] \in 1 .. N
    BY <1>0, <2>1, PathFacts
  <2>3. H[P[h]] < T[i] /\ \A x \in M : C[x] = i => H[x] <= H[P[h]]
    BY <2>1, PathBranch
  <2>4. \A x \in 1 .. N : C[x] = i /\ H[x] <= H[P[h]] => x \in M
    BY <2>1, <2>2, PathClosed
  <2>5. H[P[h]] \in Nat /\ B[i] <= H[P[h]]
    BY <1>0, <2>1, <2>2
  <2>6. \A x \in 1 .. N : H[x] <= H[P[h]] <=> H[x] < n
    BY <1>0, <2>1, <2>5
  <2>. QED BY <1>0, <2>1, <2>3, <2>4, <2>5, <2>6
<1>2. CASE (\A h \in M : C[P[h]] = i => C[h] = i) /\ n = B[i]
  <2>1. \A x \in M : C[x] # i
    BY <1>2, PathUntouched
  <2>. QED BY <1>0, <1>2, <2>1
<1>. QED BY <1>1, <1>2 DEF NewStart

(* The chain of each header after the swap: the path is on the main chain, *)
(* the main chain above b is on the fork.                                  *)
Rechained(N, C, H, f, M, b) ==
    [h \in 1 .. N |-> IF h \in M THEN 0 ELSE IF C[h] = 0 /\ H[b] < H[h] THEN f ELSE C[h]]

(* The last heights after the swap.                                        *)
Exchanged(k, T, f) ==
    [i \in 0 .. k - 1 |-> IF i = 0 THEN T[f] ELSE IF i = f THEN T[0] ELSE T[i]]

(* The first heights after the swap.                                       *)
Restarted(P, C, H, k, B, f, M, b, E) ==
    /\ E \in [0 .. k - 1 -> Nat] /\ E[0] = B[0] /\ E[f] = H[b] + 1
    /\ \A i \in 1 .. k - 1 : i # f => NewStart(P, C, H, B, M, i, E[i])

(* The headers of each chain after the swap.                               *)
LEMMA Members ==
    ASSUME NEW N, NEW P, NEW C, NEW H, NEW k, NEW B, NEW T, NEW s, NEW f, NEW tip, NEW M, NEW b,
           Overtaking(N, P, C, H, k, B, T, s, f, tip, M, b),
           NEW E, Restarted(P, C, H, k, B, f, M, b, E), NEW D, D = Rechained(N, C, H, f, M, b),
           NEW x \in 1 .. N
    PROVE  /\ D[x] \in 0 .. k - 1
           /\ D[x] = 0 <=> x \in M \/ (C[x] = 0 /\ H[x] <= H[b])
           /\ D[x] = f <=> C[x] = 0 /\ H[b] < H[x]
           /\ \A i \in 1 .. k - 1 : i # f => (D[x] = i <=> C[x] = i /\ E[i] <= H[x])
<1>1. /\ f \in 0 .. k - 1 /\ 0 \in 0 .. k - 1 /\ f # 0 /\ C[x] \in 0 .. k - 1
      /\ H[x] \in Nat /\ H[b] \in Nat /\ k \in Nat /\ \A i \in 1 .. k - 1 : i # 0
  BY PathFacts, TreeTypes DEF Overtaking
<1>2. D[x] = IF x \in M THEN 0 ELSE IF C[x] = 0 /\ H[b] < H[x] THEN f ELSE C[x]
  BY DEF Rechained
<1>3. x \in M => C[x] # 0
  BY PathFacts
<1>4. C[x] = f => x \in M
  BY PathFork
<1>5. \A i \in 1 .. k - 1 : i # f /\ C[x] = i => (x \in M <=> H[x] < E[i]) /\ E[i] \in Nat
  BY PathCut DEF Restarted
<1>. QED BY <1>1, <1>2, <1>3, <1>4, <1>5

(* After the swap each chain has the heights from its first to its last.   *)
LEMMA SwapFilled ==
    ASSUME NEW N, NEW P, NEW C, NEW H, NEW k, NEW B, NEW T, NEW s, NEW f, NEW tip, NEW M, NEW b,
           Overtaking(N, P, C, H, k, B, T, s, f, tip, M, b),
           NEW E, Restarted(P, C, H, k, B, f, M, b, E),
           NEW D, D = Rechained(N, C, H, f, M, b), NEW U, U = Exchanged(k, T, f)
    PROVE  Filled(N, D, H, k, E, U)
<1>0. /\ \A g \in 1 .. N : /\ H[g] \in Nat /\ B[C[g]] <= H[g] /\ H[g] <= T[C[g]]
                           /\ C[g] \in 0 .. k - 1
      /\ \A i \in 0 .. k - 1 : B[i] \in Nat /\ T[i] \in Nat /\ B[i] <= T[i]
      /\ k \in Nat
  BY TreeTypes DEF Overtaking, Tree, Filled
<1>1. /\ H[b] \in Nat /\ B[0] <= H[b] /\ H[b] < T[0] /\ T[0] < T[f] /\ T[0] \in Nat /\ T[f] \in Nat
      /\ f \in 0 .. k - 1 /\ 0 \in 0 .. k - 1 /\ f # 0 /\ T[f] = H[tip] /\ B[0] \in Nat
  BY <1>0, PathBase, PathFacts DEF Overtaking
<1>2. /\ U[0] = T[f] /\ U[f] = T[0] /\ E[0] = B[0] /\ E[f] = H[b] + 1
      /\ \A i \in 1 .. k - 1 : i # f => U[i] = T[i] /\ E[i] \in Nat /\ B[i] <= E[i] /\ E[i] <= T[i]
  <2>1. \A i \in 1 .. k - 1 : i # f => E[i] \in Nat /\ B[i] <= E[i] /\ E[i] <= T[i]
    BY PathCut DEF Restarted
  <2>. QED BY <1>0, <1>1, <2>1 DEF Exchanged, Restarted
<1>3. \A i \in 0 .. k - 1 : i = 0 \/ i = f \/ (i \in 1 .. k - 1 /\ i # f)
  BY <1>0
<1>4. ASSUME NEW h \in 1 .. N PROVE E[D[h]] <= H[h] /\ H[h] <= U[D[h]]
  <2>1. CASE D[h] = 0
    <3>1. CASE h \in M
      BY <1>0, <1>1, <1>2, <2>1, <3>1, PathFacts
    <3>2. CASE C[h] = 0 /\ H[h] <= H[b]
      BY <1>0, <1>1, <1>2, <2>1, <3>2
    <3>. QED BY <2>1, <3>1, <3>2, Members
  <2>2. CASE D[h] = f
    <3>1. C[h] = 0 /\ H[b] < H[h]
      BY <2>2, Members
    <3>. QED BY <1>0, <1>1, <1>2, <2>2, <3>1
  <2>3. CASE D[h] \in 1 .. k - 1 /\ D[h] # f
    <3>1. C[h] = D[h] /\ E[D[h]] <= H[h]
      BY <2>3, Members
    <3>. QED BY <1>0, <1>1, <1>2, <2>3, <3>1
  <2>4. D[h] \in 0 .. k - 1
    BY Members
  <2>. QED BY <1>3, <2>1, <2>2, <2>3, <2>4
<1>5. \A i \in 0 .. k - 1 : E[i] <= U[i]
  BY <1>0, <1>1, <1>2, <1>3
<1>6. ASSUME NEW i \in 0 .. k - 1, NEW n \in Nat, E[i] <= n, n <= U[i]
      PROVE  \E h \in 1 .. N : D[h] = i /\ H[h] = n
  <2>0. \A j \in 0 .. k - 1 : B[j] <= n /\ n <= T[j] => \E h \in 1 .. N : C[h] = j /\ H[h] = n
    BY DEF Overtaking, Tree, Filled
  <2>1. CASE i = 0 /\ n <= H[b]
    <3>1. PICK h \in 1 .. N : C[h] = 0 /\ H[h] = n
      BY <1>1, <1>2, <1>6, <2>0, <2>1
    <3>. QED BY <2>1, <3>1, Members
  <2>2. CASE i = 0 /\ H[b] < n
    <3>0. n <= H[tip]
      BY <1>1, <1>2, <1>6, <2>2
    <3>1. PICK h \in M : H[h] = n
      BY <3>0, <2>2 DEF Overtaking, PathTo
    <3>2. h \in 1 .. N
      BY PathFacts
    <3>. QED BY <2>2, <3>1, <3>2, Members
  <2>3. CASE i = f
    <3>1. B[0] <= n /\ n <= T[0] /\ H[b] < n
      BY <1>1, <1>2, <1>6, <2>3
    <3>2. PICK h \in 1 .. N : C[h] = 0 /\ H[h] = n
      BY <1>1, <2>0, <3>1
    <3>. QED BY <2>3, <3>1, <3>2, Members
  <2>4. CASE i \in 1 .. k - 1 /\ i # f
    <3>1. B[i] <= n /\ n <= T[i]
      BY <1>0, <1>2, <1>6, <2>4
    <3>2. PICK h \in 1 .. N : C[h] = i /\ H[h] = n
      BY <2>0, <3>1
    <3>. QED BY <1>6, <2>4, <3>2, Members
  <2>. QED BY <1>1, <1>3, <2>1, <2>2, <2>3, <2>4
<1>. QED BY <1>4, <1>5, <1>6 DEF Filled

(* After the swap a header above the first of its chain extends one of the *)
(* same chain.                                                             *)
LEMMA SwapInherits ==
    ASSUME NEW N, NEW P, NEW C, NEW H, NEW k, NEW B, NEW T, NEW s, NEW f, NEW tip, NEW M, NEW b,
           Overtaking(N, P, C, H, k, B, T, s, f, tip, M, b),
           NEW E, Restarted(P, C, H, k, B, f, M, b, E), NEW D, D = Rechained(N, C, H, f, M, b),
           NEW h \in 1 .. N, E[D[h]] < H[h]
    PROVE  P[h] # 0 /\ D[P[h]] = D[h]
<1>0. /\ \A g \in 1 .. N : /\ H[g] \in Nat /\ C[g] \in 0 .. k - 1
                           /\ B[C[g]] < H[g] => P[g] # 0 /\ C[P[g]] = C[g]
      /\ \A i \in 0 .. k - 1 : B[i] \in Nat
      /\ k \in Nat
  BY TreeTypes DEF Overtaking, Tree, Linked
<1>1. /\ H[b] \in Nat /\ B[0] <= H[b] /\ b \in 1 .. N /\ C[b] = 0
      /\ f \in 0 .. k - 1 /\ 0 \in 0 .. k - 1 /\ f # 0 /\ B[0] \in Nat
      /\ E[0] = B[0] /\ E[f] = H[b] + 1
  BY <1>0, PathBase, PathFacts DEF Restarted
<1>2. P[h] # 0 => P[h] \in 1 .. N /\ H[h] = H[P[h]] + 1 /\ H[P[h]] \in Nat
  BY Parent DEF Overtaking
<1>3. CASE h \in M
  <2>1. D[h] = 0
    BY <1>3, Members
  <2>2. P[h] # 0 /\ P[h] \in 1 .. N /\ (P[h] \in M \/ P[h] = b)
    BY <1>3, PathFacts
  <2>3. D[P[h]] = 0
    BY <1>1, <2>2, Members
  <2>. QED BY <2>1, <2>2, <2>3
<1>4. CASE C[h] = 0 /\ H[h] <= H[b]
  <2>1. D[h] = 0
    BY <1>4, Members
  <2>2. P[h] # 0 /\ C[P[h]] = 0
    BY <1>0, <1>1, <1>4, <2>1
  <2>3. H[P[h]] <= H[b]
    BY <1>0, <1>1, <1>2, <1>4, <2>2
  <2>4. D[P[h]] = 0
    BY <1>2, <2>2, <2>3, Members
  <2>. QED BY <2>1, <2>2, <2>4
<1>5. CASE C[h] = 0 /\ H[b] < H[h]
  <2>1. D[h] = f
    BY <1>5, Members
  <2>2. P[h] # 0 /\ C[P[h]] = 0
    BY <1>0, <1>1, <1>5
  <2>3. H[b] < H[P[h]]
    BY <1>0, <1>1, <1>2, <2>1, <2>2
  <2>4. D[P[h]] = f
    BY <1>2, <2>2, <2>3, Members
  <2>. QED BY <2>1, <2>2, <2>4
<1>6. CASE h \notin M /\ C[h] # 0
  <2>1. C[h] # f
    BY <1>6, PathFork
  <2>2. D[h] = C[h] /\ C[h] \in 1 .. k - 1
    BY <1>0, <1>6, <2>1 DEF Rechained
  <2>3. B[C[h]] <= E[C[h]] /\ E[C[h]] \in Nat
    BY <2>1, <2>2, PathCut DEF Restarted
  <2>4. P[h] # 0 /\ C[P[h]] = C[h]
    BY <1>0, <2>2, <2>3
  <2>5. E[C[h]] <= H[P[h]]
    BY <1>2, <2>2, <2>3, <2>4
  <2>6. D[P[h]] = C[h]
    BY <1>2, <2>1, <2>2, <2>4, <2>5, Members
  <2>. QED BY <2>2, <2>4, <2>6
<1>. QED BY <1>0, <1>1, <1>3, <1>4, <1>5, <1>6

(* After the swap the first header of a fork extends one of another chain  *)
(* that goes on above it.                                                  *)
LEMMA SwapBranches ==
    ASSUME NEW N, NEW P, NEW C, NEW H, NEW k, NEW B, NEW T, NEW s, NEW f, NEW tip, NEW M, NEW b,
           Overtaking(N, P, C, H, k, B, T, s, f, tip, M, b),
           NEW E, Restarted(P, C, H, k, B, f, M, b, E),
           NEW D, D = Rechained(N, C, H, f, M, b), NEW U, U = Exchanged(k, T, f),
           NEW h \in 1 .. N, D[h] # 0, H[h] = E[D[h]]
    PROVE  P[h] # 0 /\ D[P[h]] # D[h] /\ H[P[h]] < U[D[P[h]]]
<1>0. /\ \A g \in 1 .. N : /\ H[g] \in Nat /\ C[g] \in 0 .. k - 1
                           /\ B[C[g]] < H[g] => P[g] # 0 /\ C[P[g]] = C[g]
      /\ \A i \in 0 .. k - 1 : B[i] \in Nat
      /\ k \in Nat
  BY TreeTypes DEF Overtaking, Tree, Linked
<1>1. /\ H[b] \in Nat /\ B[0] <= H[b] /\ b \in 1 .. N /\ C[b] = 0 /\ H[b] < T[0] /\ T[0] < T[f]
      /\ f \in 0 .. k - 1 /\ 0 \in 0 .. k - 1 /\ f # 0 /\ B[0] \in Nat
      /\ E[0] = B[0] /\ E[f] = H[b] + 1 /\ T[0] \in Nat /\ T[f] \in Nat /\ T[f] = H[tip]
  <2>1. T[f] = H[tip]
    BY DEF Overtaking
  <2>2. E[0] = B[0] /\ E[f] = H[b] + 1
    BY DEF Restarted
  <2>. QED BY <1>0, <2>1, <2>2, PathBase, PathFacts
<1>2. P[h] # 0 => P[h] \in 1 .. N /\ H[h] = H[P[h]] + 1 /\ H[P[h]] \in Nat
  BY Parent DEF Overtaking
<1>3. U[0] = T[f] /\ U[f] = T[0] /\ \A i \in 1 .. k - 1 : i # f => U[i] = T[i]
  BY <1>0, <1>1 DEF Exchanged
<1>4. ASSUME NEW p \in M, \E g \in 1 .. N : P[g] = p
      PROVE  D[p] = 0 /\ H[p] < U[0]
  <2>1. p # tip
    BY <1>4 DEF Overtaking
  <2>2. PICK g \in M : P[g] = p /\ H[g] = H[p] + 1
    BY <2>1, PathChild
  <2>3. H[g] <= H[tip]
    BY PathFacts
  <2>4. p \in 1 .. N
    BY PathFacts
  <2>5. D[p] = 0
    BY <2>4, Members
  <2>. QED BY <1>0, <1>1, <1>3, <2>2, <2>3, <2>4, <2>5
<1>5. CASE D[h] = f
  <2>1. C[h] = 0 /\ H[h] = H[b] + 1
    BY <1>1, <1>5, Members
  <2>2. P[h] # 0 /\ C[P[h]] = 0
    BY <1>0, <1>1, <2>1
  <2>3. H[P[h]] = H[b]
    BY <1>1, <1>2, <2>1, <2>2
  <2>4. D[P[h]] = 0
    BY <1>1, <1>2, <2>2, <2>3, Members
  <2>. QED BY <1>1, <1>3, <1>5, <2>2, <2>3, <2>4
<1>6. CASE D[h] # f
  <2>0. D[h] \in 0 .. k - 1 /\ D[h] \in 1 .. k - 1
    BY <1>0, Members
  <2>. DEFINE i == D[h]
  <2>1. C[h] = i /\ i # 0 /\ i \in 0 .. k - 1
    BY <1>6, <2>0, Members
  <2>2. NewStart(P, C, H, B, M, i, E[i])
    BY <1>6, <2>0 DEF Restarted
  <2>3. /\ E[i] \in Nat /\ B[i] <= E[i]
        /\ \A x \in 1 .. N : C[x] = i => (x \in M <=> H[x] < E[i])
    BY <1>6, <2>0, <2>2, PathCut
  <2>4. CASE B[i] < E[i]
    <3>1. P[h] # 0 /\ C[P[h]] = i
      BY <1>0, <2>1, <2>4
    <3>2. H[P[h]] < E[i]
      BY <1>2, <2>3, <3>1
    <3>3. P[h] \in M /\ P[h] \in 1 .. N
      BY <1>2, <2>3, <3>1, <3>2
    <3>4. D[P[h]] = 0 /\ H[P[h]] < U[0]
      BY <1>4, <3>3
    <3>. QED BY <3>1, <3>4
  <2>5. CASE E[i] = B[i]
    <3>1. P[h] # 0 /\ C[P[h]] # i /\ H[P[h]] < T[C[P[h]]]
      BY <2>1, <2>5 DEF Overtaking, Tree, Linked
    <3>2. P[h] \in 1 .. N
      BY <1>2, <3>1
    <3>3. CASE P[h] \in M
      BY <1>4, <3>1, <3>2, <3>3, <2>1
    <3>4. CASE P[h] \notin M /\ C[P[h]] = 0 /\ H[b] < H[P[h]]
      <4>1. D[P[h]] = f
        BY <3>2, <3>4 DEF Rechained
      <4>. QED BY <1>3, <1>6, <3>1, <3>4, <4>1
    <3>5. CASE P[h] \notin M /\ C[P[h]] = 0 /\ ~(H[b] < H[P[h]])
      <4>1. D[P[h]] = 0
        BY <3>2, <3>5 DEF Rechained
      <4>. QED BY <1>1, <1>2, <1>3, <3>1, <3>5, <4>1, <2>1
    <3>6. CASE P[h] \notin M /\ C[P[h]] # 0
      <4>1. D[P[h]] = C[P[h]]
        BY <3>2, <3>6 DEF Rechained
      <4>2. C[P[h]] # f
        BY <3>2, <3>6, PathFork
      <4>3. C[P[h]] \in 1 .. k - 1
        BY <1>0, <3>2, <3>6
      <4>. QED BY <1>3, <3>1, <4>1, <4>2, <4>3
    <3>. QED BY <3>3, <3>4, <3>5, <3>6
  <2>6. B[i] \in Nat
    BY <1>0, <2>1
  <2>. QED BY <2>3, <2>4, <2>5, <2>6
<1>. QED BY <1>5, <1>6

(* The swap turns a tree into a tree.                                      *)
LEMMA SwapTree ==
    ASSUME NEW N, NEW P, NEW C, NEW H, NEW k, NEW B, NEW T, NEW s, NEW f, NEW tip, NEW M, NEW b,
           Overtaking(N, P, C, H, k, B, T, s, f, tip, M, b),
           NEW E, Restarted(P, C, H, k, B, f, M, b, E)
    PROVE  Tree(N, P, Rechained(N, C, H, f, M, b), H, k, E, Exchanged(k, T, f), s)
<1>. DEFINE D == Rechained(N, C, H, f, M, b)
            U == Exchanged(k, T, f)
<1>0. \A g \in 1 .. N : H[g] \in Nat /\ C[g] \in 0 .. k - 1
  BY TreeTypes DEF Overtaking
<1>94. \A x \in 1 .. N :
         /\ D[x] \in 0 .. k - 1
         /\ D[x] = 0 <=> x \in M \/ (C[x] = 0 /\ H[x] <= H[b])
         /\ D[x] = f <=> C[x] = 0 /\ H[b] < H[x]
         /\ \A i \in 1 .. k - 1 : i # f => (D[x] = i <=> C[x] = i /\ E[i] <= H[x])
  BY Members
<1>1. Typed(N, P, D, H, k, E, U, s)
  <2>1. Typed(N, P, C, H, k, B, T, s)
    BY DEF Overtaking, Tree
  <2>2. 0 \in 0 .. k - 1 /\ f \in 0 .. k - 1
    BY PathFacts
  <2>3. D \in [1 .. N -> 0 .. k - 1]
    BY <1>0, <2>2 DEF Rechained
  <2>4. U \in [0 .. k - 1 -> Nat]
    BY <2>1, <2>2 DEF Exchanged, Typed
  <2>5. E \in [0 .. k - 1 -> Nat]
    BY DEF Restarted
  <2>. HIDE DEF D, U
  <2>. QED BY <2>1, <2>3, <2>4, <2>5 DEF Typed
<1>2. Rooted(N, P, D, H, s)
  <2>1. SUFFICES ASSUME NEW h \in 1 .. N, P[h] = 0 PROVE D[h] = 0
    BY DEF Overtaking, Tree, Rooted
  <2>2. C[h] = 0 /\ H[h] = s
    BY <2>1 DEF Overtaking, Tree, Rooted
  <2>3. H[h] <= H[b]
    BY <2>2, PathBase
  <2>. QED BY <2>2, <2>3, <1>94
<1>3. Unique(N, D, H)
  <2>. HIDE DEF D
  <2>1. SUFFICES ASSUME NEW g \in 1 .. N, NEW h \in 1 .. N, D[g] = D[h], H[g] = H[h] PROVE g = h
    BY DEF Unique
  <2>2. C[g] = C[h] => g = h
    BY <2>1 DEF Overtaking, Tree, Unique
  <2>3. g \in M /\ h \in M => g = h
    BY <2>1 DEF Overtaking, PathTo
  <2>4. D[g] \in 0 .. k - 1
    BY <1>94
  <2>5. CASE D[g] = 0
    <3>1. g \in M \/ (C[g] = 0 /\ H[g] <= H[b])
      BY <2>5, <1>94
    <3>2. h \in M \/ (C[h] = 0 /\ H[h] <= H[b])
      BY <2>1, <2>5, <1>94
    <3>3. \A x \in M : H[b] < H[x]
      BY PathFacts
    <3>4. H[g] \in Nat /\ H[b] \in Nat
      BY <1>0, PathBase
    <3>. QED BY <2>1, <2>2, <2>3, <3>1, <3>2, <3>3, <3>4
  <2>6. CASE D[g] = f
    <3>1. C[g] = 0 /\ C[h] = 0
      BY <2>1, <2>6, <1>94
    <3>. QED BY <2>2, <3>1
  <2>7. CASE D[g] # 0 /\ D[g] # f
    <3>0. k \in Nat
      BY TreeTypes DEF Overtaking
    <3>1. D[g] \in 1 .. k - 1
      BY <2>4, <2>7, <3>0
    <3>2. C[g] = D[g] /\ C[h] = D[g]
      BY <2>1, <2>7, <3>1, <1>94
    <3>. QED BY <2>2, <3>2
  <2>. QED BY <2>5, <2>6, <2>7
<1>4. Filled(N, D, H, k, E, U)
  BY SwapFilled
<1>5. Linked(N, P, D, H, E, U)
  <2>1. \A h \in 1 .. N : E[D[h]] < H[h] => P[h] # 0 /\ D[P[h]] = D[h]
    BY SwapInherits
  <2>2. \A h \in 1 .. N : D[h] # 0 /\ H[h] = E[D[h]] =>
            P[h] # 0 /\ D[P[h]] # D[h] /\ H[P[h]] < U[D[P[h]]]
    BY SwapBranches
  <2>. HIDE DEF D, U
  <2>. QED BY <2>1, <2>2 DEF Linked
<1>6. E[0] = s
  BY PathBase DEF Restarted
<1>7. Tree(N, P, D, H, k, E, U, s)
  <2>. HIDE DEF D, U
  <2>. QED BY <1>1, <1>2, <1>3, <1>4, <1>5, <1>6 DEF Tree
<1>. QED BY <1>7

-----------------------------------------------------------------------------
(* Growth: one more header                                                 *)

Extended(N, F, x) == [h \in 1 .. N + 1 |-> IF h = N + 1 THEN x ELSE F[h]]

(* The values of an extended sequence.                                     *)
LEMMA ExtendedAt ==
    ASSUME NEW N \in Nat, NEW F, NEW x
    PROVE  /\ Extended(N, F, x)[N + 1] = x
           /\ \A h \in 1 .. N : Extended(N, F, x)[h] = F[h] /\ h \in 1 .. N + 1 /\ h # N + 1
           /\ \A h \in 1 .. N + 1 : h = N + 1 \/ h \in 1 .. N
           /\ \A S : F \in [1 .. N -> S] /\ x \in S => Extended(N, F, x) \in [1 .. N + 1 -> S]
  BY DEF Extended

(* The values of a map of numbers with one more entry.                     *)
LEMMA Inserted ==
    ASSUME NEW k \in Nat, NEW F, DOMAIN F = 0 .. k - 1, NEW x
    PROVE  insert(F, k, x) = [j \in 0 .. k |-> IF j = k THEN x ELSE F[j]]
<1>1. 0 .. k = (0 .. k - 1) \cup {k}
  OBVIOUS
<1>. QED BY <1>1 DEF insert

(* A header on top of the last one of a chain makes the chain longer.      *)
LEMMA ExtendTree ==
    ASSUME NEW N, NEW P, NEW C, NEW H, NEW k, NEW B, NEW T, NEW s, Tree(N, P, C, H, k, B, T, s),
           NEW p \in 1 .. N, H[p] = T[C[p]]
    PROVE  Tree(N + 1, Extended(N, P, p), Extended(N, C, C[p]), Extended(N, H, H[p] + 1),
                k, B, [T EXCEPT ![C[p]] = H[p] + 1], s)
<1>. DEFINE i == C[p]
            n == H[p] + 1
<1>1. PICK Q, D, J, U, m : /\ Q = Extended(N, P, p) /\ D = Extended(N, C, i)
                           /\ J = Extended(N, H, n)
                           /\ U = [T EXCEPT ![i] = n] /\ m = N + 1
  OBVIOUS
<1>2. Typed(N, P, C, H, k, B, T, s) /\ N \in Nat /\ i \in 0 .. k - 1 /\ H[p] \in Nat /\ n \in Nat
  BY TreeTypes DEF Tree
<1>3. /\ m \in Nat /\ m \in 1 .. m /\ p # m /\ p \in 1 .. m
      /\ Q[m] = p /\ D[m] = i /\ J[m] = n
      /\ \A h \in 1 .. N : Q[h] = P[h] /\ D[h] = C[h] /\ J[h] = H[h] /\ h \in 1 .. m /\ h # m
      /\ \A h \in 1 .. m : h = m \/ h \in 1 .. N
  BY <1>1, <1>2, ExtendedAt
<1>4. /\ U \in [0 .. k - 1 -> Nat] /\ U[i] = n
      /\ \A j \in 0 .. k - 1 : j # i => U[j] = T[j]
      /\ \A j \in 0 .. k - 1 : T[j] <= U[j] /\ T[j] \in Nat /\ B[j] \in Nat /\ U[j] \in Nat
  BY <1>1, <1>2, SMTT(30) DEF Typed
<1>5. \A h \in 1 .. N : /\ H[h] \in Nat /\ C[h] \in 0 .. k - 1 /\ P[h] \in 0 .. N
                        /\ P[h] # 0 => P[h] \in 1 .. N
  BY <1>2, SMTT(30) DEF Typed
<1>6. Typed(m, Q, D, J, k, B, U, s)
  <2>1. P \in [1 .. N -> 0 .. m] /\ p \in 0 .. m
    BY <1>1, <1>2, <1>5, SMTT(30) DEF Typed
  <2>2. /\ Q \in [1 .. m -> 0 .. m] /\ D \in [1 .. m -> 0 .. k - 1] /\ J \in [1 .. m -> Nat]
    BY <1>1, <1>2, <2>1, ExtendedAt DEF Typed
  <2>. QED BY <1>2, <1>3, <1>4, <2>2 DEF Typed
<1>7. Rooted(m, Q, D, J, s)
  <2>1. Rooted(N, P, C, H, s)
    BY DEF Tree
  <2>2. p # 0 /\ p < m
    BY <1>1, <1>2
  <2>. QED BY <1>3, <1>5, <2>1, <2>2 DEF Rooted
<1>8. Filled(N, C, H, k, B, T) /\ Unique(N, C, H) /\ Linked(N, P, C, H, B, T)
  BY DEF Tree
<1>9. Unique(m, D, J)
  <2>1. \A h \in 1 .. N : C[h] = i => H[h] <= H[p]
    BY <1>8 DEF Filled
  <2>. QED BY <1>2, <1>3, <1>5, <1>8, <2>1, SMTT(30) DEF Unique
<1>10. Filled(m, D, J, k, B, U)
  <2>0. B[i] <= H[p] /\ B[i] <= n /\ B[i] <= T[i] /\ B[i] \in Nat
    BY <1>2, <1>4, <1>8 DEF Filled
  <2>1. ASSUME NEW h \in 1 .. m PROVE B[D[h]] <= J[h] /\ J[h] <= U[D[h]]
    <3>1. CASE h = m
      BY <1>2, <1>3, <1>4, <2>0, <3>1
    <3>2. CASE h \in 1 .. N
      <4>1. H[h] \in Nat /\ T[C[h]] \in Nat /\ U[C[h]] \in Nat /\ T[C[h]] <= U[C[h]]
        BY <1>4, <1>5, <3>2
      <4>2. B[C[h]] <= H[h] /\ H[h] <= T[C[h]]
        BY <1>8, <3>2 DEF Filled
      <4>3. D[h] = C[h] /\ J[h] = H[h]
        BY <1>3, <3>2
      <4>. QED BY <4>1, <4>2, <4>3
    <3>. QED BY <1>3, <3>1, <3>2
  <2>2. \A j \in 0 .. k - 1 : B[j] <= U[j]
    BY <1>4, <1>8 DEF Filled
  <2>3. ASSUME NEW j \in 0 .. k - 1, NEW o \in Nat, B[j] <= o, o <= U[j]
        PROVE  \E h \in 1 .. m : D[h] = j /\ J[h] = o
    <3>1. CASE o = n /\ j = i
      BY <1>3, <3>1
    <3>2. CASE ~(o = n /\ j = i)
      <4>1. o <= T[j]
        BY <1>2, <1>4, <2>3, <3>2
      <4>2. PICK h \in 1 .. N : C[h] = j /\ H[h] = o
        BY <1>8, <2>3, <4>1 DEF Filled
      <4>. QED BY <1>3, <4>2
    <3>. QED BY <3>1, <3>2
  <2>. QED BY <2>1, <2>2, <2>3 DEF Filled
<1>11. Linked(m, Q, D, J, B, U)
  <2>1. ASSUME NEW h \in 1 .. m, B[D[h]] < J[h] PROVE Q[h] # 0 /\ D[Q[h]] = D[h]
    BY <1>3, <1>5, <1>8, <2>1 DEF Linked
  <2>2. ASSUME NEW h \in 1 .. m, D[h] # 0, J[h] = B[D[h]]
        PROVE  Q[h] # 0 /\ D[Q[h]] # D[h] /\ J[Q[h]] < U[D[Q[h]]]
    <3>1. h # m
      BY <1>2, <1>3, <1>4, <1>8, <2>2 DEF Filled
    <3>2. h \in 1 .. N /\ C[h] # 0 /\ H[h] = B[C[h]]
      BY <1>3, <2>2, <3>1
    <3>3. P[h] # 0 /\ C[P[h]] # C[h] /\ H[P[h]] < T[C[P[h]]] /\ P[h] \in 1 .. N
      BY <1>5, <1>8, <3>2 DEF Linked
    <3>4. /\ Q[h] = P[h] /\ D[Q[h]] = C[P[h]] /\ J[Q[h]] = H[P[h]] /\ D[h] = C[h]
      BY <1>3, <3>2, <3>3
    <3>5. H[P[h]] \in Nat /\ T[C[P[h]]] \in Nat /\ U[C[P[h]]] \in Nat /\ T[C[P[h]]] <= U[C[P[h]]]
      BY <1>4, <1>5, <3>3
    <3>. QED BY <3>3, <3>4, <3>5
  <2>. QED BY <2>1, <2>2 DEF Linked
<1>12. Tree(m, Q, D, J, k, B, U, s)
  BY <1>6, <1>7, <1>9, <1>10, <1>11 DEF Tree
<1>. QED BY <1>1, <1>12

(* A header on top of any other one starts a fork.                         *)
LEMMA NewForkTree ==
    ASSUME NEW N, NEW P, NEW C, NEW H, NEW k, NEW B, NEW T, NEW s, Tree(N, P, C, H, k, B, T, s),
           NEW p \in 1 .. N, H[p] # T[C[p]], NEW n, n = H[p] + 1
    PROVE  Tree(N + 1, Extended(N, P, p), Extended(N, C, k), Extended(N, H, n),
                k + 1, insert(B, k, n), insert(T, k, n), s)
<1>1. PICK Q, D, J, A, U, m, l :
         /\ Q = Extended(N, P, p) /\ D = Extended(N, C, k) /\ J = Extended(N, H, n)
         /\ A = insert(B, k, n) /\ U = insert(T, k, n) /\ m = N + 1 /\ l = k + 1
  OBVIOUS
<1>2. /\ Typed(N, P, C, H, k, B, T, s) /\ N \in Nat /\ k \in Nat /\ C[p] \in 0 .. k - 1
      /\ H[p] \in Nat /\ n \in Nat /\ k > 0
  BY TreeTypes DEF Tree
<1>3. /\ m \in Nat /\ m \in 1 .. m /\ p # m /\ p \in 1 .. m
      /\ Q[m] = p /\ D[m] = k /\ J[m] = n
      /\ \A h \in 1 .. N : Q[h] = P[h] /\ D[h] = C[h] /\ J[h] = H[h] /\ h \in 1 .. m /\ h # m
      /\ \A h \in 1 .. m : h = m \/ h \in 1 .. N
  BY <1>1, <1>2, ExtendedAt
<1>4. /\ A \in [0 .. k -> Nat] /\ U \in [0 .. k -> Nat] /\ A[k] = n /\ U[k] = n
      /\ \A j \in 0 .. k - 1 : A[j] = B[j] /\ U[j] = T[j]
  <2>1. B \in [0 .. k - 1 -> Nat] /\ T \in [0 .. k - 1 -> Nat]
    BY <1>2 DEF Typed
  <2>2. DOMAIN B = 0 .. k - 1 /\ DOMAIN T = 0 .. k - 1 /\ k \in Nat /\ n \in Nat
    BY <1>2, <2>1
  <2>3. /\ A = [j \in 0 .. k |-> IF j = k THEN n ELSE B[j]]
        /\ U = [j \in 0 .. k |-> IF j = k THEN n ELSE T[j]]
    BY <1>1, <2>2, Inserted
  <2>4. /\ \A j \in 0 .. k - 1 : j # k /\ j \in 0 .. k
        /\ \A j \in 0 .. k : j = k \/ j \in 0 .. k - 1
        /\ k \in 0 .. k
    BY <2>2
  <2>. QED BY <2>1, <2>2, <2>3, <2>4
<1>4a. \A j \in 0 .. k - 1 : B[j] \in Nat /\ T[j] \in Nat
  BY <1>2 DEF Typed
<1>4b. /\ \A j \in 0 .. k - 1 : j # k /\ j \in 0 .. k
       /\ \A j \in 0 .. k : j = k \/ j \in 0 .. k - 1
       /\ 0 .. l - 1 = 0 .. k /\ k \in 0 .. k /\ k # 0 /\ l \in Nat /\ 0 \in 0 .. k - 1
  BY <1>1, <1>2
<1>5. \A h \in 1 .. N : /\ H[h] \in Nat /\ C[h] \in 0 .. k - 1 /\ P[h] \in 0 .. N
                        /\ P[h] # 0 => P[h] \in 1 .. N
  BY <1>2, SMTT(30) DEF Typed
<1>6. Typed(m, Q, D, J, l, A, U, s)
  <2>1. P \in [1 .. N -> 0 .. m] /\ p \in 0 .. m
    BY <1>1, <1>2, <1>5, SMTT(30) DEF Typed
  <2>3. C \in [1 .. N -> 0 .. k]
    BY <1>2, <1>4b DEF Typed
  <2>2. /\ Q \in [1 .. m -> 0 .. m] /\ D \in [1 .. m -> 0 .. k] /\ J \in [1 .. m -> Nat]
    BY <1>1, <1>2, <1>4b, <2>1, <2>3, ExtendedAt DEF Typed
  <2>. QED BY <1>2, <1>3, <1>4, <1>4b, <2>2 DEF Typed
<1>7. Rooted(m, Q, D, J, s)
  <2>1. Rooted(N, P, C, H, s)
    BY DEF Tree
  <2>2. p # 0 /\ p < m
    BY <1>1, <1>2
  <2>. QED BY <1>3, <1>5, <2>1, <2>2 DEF Rooted
<1>8. Filled(N, C, H, k, B, T) /\ Unique(N, C, H) /\ Linked(N, P, C, H, B, T)
  BY DEF Tree
<1>9. Unique(m, D, J)
  <2>1. \A h \in 1 .. N : D[h] # k
    BY <1>3, <1>4b, <1>5
  <2>. QED BY <1>3, <1>8, <2>1 DEF Unique
<1>10. Filled(m, D, J, l, A, U)
  <2>1. ASSUME NEW h \in 1 .. m PROVE A[D[h]] <= J[h] /\ J[h] <= U[D[h]]
    <3>1. CASE h = m
      <4>1. D[h] = k /\ J[h] = n /\ A[k] = n /\ U[k] = n
        BY <1>3, <1>4, <3>1
      <4>2. n <= n
        BY <1>2
      <4>. QED BY <4>1, <4>2
    <3>2. CASE h \in 1 .. N
      <4>1. D[h] = C[h] /\ J[h] = H[h] /\ A[C[h]] = B[C[h]] /\ U[C[h]] = T[C[h]]
        BY <1>3, <1>4, <1>5, <3>2
      <4>. QED BY <1>8, <3>2, <4>1 DEF Filled
    <3>. QED BY <1>3, <3>1, <3>2
  <2>2. ASSUME NEW j \in 0 .. l - 1 PROVE A[j] <= U[j]
    <3>1. CASE j = k
      BY <1>2, <1>4, <3>1
    <3>2. CASE j \in 0 .. k - 1
      BY <1>4, <1>8, <3>2 DEF Filled
    <3>. QED BY <1>4b, <3>1, <3>2
  <2>3. ASSUME NEW j \in 0 .. l - 1, NEW o \in Nat, A[j] <= o, o <= U[j]
        PROVE  \E h \in 1 .. m : D[h] = j /\ J[h] = o
    <3>1. CASE j = k
      <4>1. o = n
        BY <1>2, <1>4, <2>3, <3>1
      <4>. QED BY <1>3, <3>1, <4>1
    <3>2. CASE j \in 0 .. k - 1
      <4>1. B[j] <= o /\ o <= T[j]
        BY <1>4, <2>3, <3>2
      <4>2. PICK h \in 1 .. N : C[h] = j /\ H[h] = o
        BY <1>8, <3>2, <4>1 DEF Filled
      <4>. QED BY <1>3, <4>2
    <3>. QED BY <1>4b, <3>1, <3>2
  <2>. QED BY <2>1, <2>2, <2>3 DEF Filled
<1>11. Linked(m, Q, D, J, A, U)
  <2>1. ASSUME NEW h \in 1 .. m, A[D[h]] < J[h] PROVE Q[h] # 0 /\ D[Q[h]] = D[h]
    <3>1. h # m
      <4>1. ~(n < n)
        BY <1>2
      <4>2. D[m] = k /\ J[m] = n /\ A[k] = n
        BY <1>3, <1>4
      <4>. QED BY <2>1, <4>1, <4>2
    <3>2. h \in 1 .. N /\ B[C[h]] < H[h]
      <4>1. h \in 1 .. N
        BY <1>3, <3>1
      <4>2. D[h] = C[h] /\ J[h] = H[h] /\ A[C[h]] = B[C[h]]
        BY <1>3, <1>4, <1>5, <4>1
      <4>. QED BY <2>1, <4>1, <4>2
    <3>3. P[h] # 0 /\ C[P[h]] = C[h]
      BY <1>8, <3>2 DEF Linked
    <3>. QED BY <1>3, <1>5, <3>2, <3>3
  <2>2. ASSUME NEW h \in 1 .. m, D[h] # 0, J[h] = A[D[h]]
        PROVE  Q[h] # 0 /\ D[Q[h]] # D[h] /\ J[Q[h]] < U[D[Q[h]]]
    <3>1. CASE h = m
      <4>1. Q[h] = p /\ D[h] = k /\ D[p] = C[p] /\ J[p] = H[p] /\ U[C[p]] = T[C[p]] /\ C[p] # k
        BY <1>2, <1>3, <1>4, <1>4b, <3>1
      <4>2. H[p] <= T[C[p]] /\ T[C[p]] \in Nat
        BY <1>2, <1>4a, <1>8 DEF Filled
      <4>. QED BY <1>2, <4>1, <4>2
    <3>2. CASE h \in 1 .. N
      <4>1. C[h] # 0 /\ H[h] = B[C[h]]
        BY <1>3, <1>4, <1>5, <2>2, <3>2
      <4>2. P[h] # 0 /\ C[P[h]] # C[h] /\ H[P[h]] < T[C[P[h]]] /\ P[h] \in 1 .. N
        BY <1>5, <1>8, <3>2, <4>1 DEF Linked
      <4>3. Q[h] = P[h] /\ D[Q[h]] = C[P[h]] /\ J[Q[h]] = H[P[h]] /\ D[h] = C[h]
        BY <1>3, <3>2, <4>2
      <4>4. U[C[P[h]]] = T[C[P[h]]]
        BY <1>4, <1>5, <4>2
      <4>. QED BY <4>2, <4>3, <4>4
    <3>. QED BY <1>3, <3>1, <3>2
  <2>. QED BY <2>1, <2>2 DEF Linked
<1>12. A[0] = s
  BY <1>2, <1>4, <1>4b DEF Tree
<1>13. Tree(m, Q, D, J, l, A, U, s)
  BY <1>6, <1>7, <1>9, <1>10, <1>11, <1>12 DEF Tree
<1>. QED BY <1>1, <1>13

(* The first header is a tree.                                             *)
LEMMA RootTree ==
    ASSUME NEW n \in Nat
    PROVE  Tree(1, [h \in 1 .. 1 |-> 0], [h \in 1 .. 1 |-> 0], [h \in 1 .. 1 |-> n],
                1, [i \in 0 .. 0 |-> n], [i \in 0 .. 0 |-> n], n)
  BY DEF Tree, Typed, Rooted, Unique, Filled, Linked

-----------------------------------------------------------------------------
(* The storage of the relay as a tree                                      *)

Headers(r) == 1 .. Len(r.BlockHeaders)
Prevs(r) == [h \in Headers(r) |-> r.BlockHeaders[h].prev]
ChainIds(r) == [h \in Headers(r) |-> r.BlockHeaders[h].chain_id]
Heights(r) == [h \in Headers(r) |-> r.BlockHeaders[h].block_height]
Starts(r) == [i \in 0 .. r.ChainCounter - 1 |-> r.ChainsIndex[i].start_height]
Tops(r) == [i \in 0 .. r.ChainCounter - 1 |-> r.ChainsIndex[i].max_height]

TreeOf(r, s) == Tree(Len(r.BlockHeaders), Prevs(r), ChainIds(r), Heights(r), r.ChainCounter,
                     Starts(r), Tops(r), s)

(* The fields of the relay and their types.                                *)
Shaped(r) ==
    /\ r = [BlockHeaders |-> r.BlockHeaders, ChainCounter |-> r.ChainCounter,
            Chains |-> r.Chains, ChainsIndex |-> r.ChainsIndex, ChainsHashes |-> r.ChainsHashes,
            BestBlock |-> r.BestBlock, BestBlockHeight |-> r.BestBlockHeight]
    /\ r.BlockHeaders \in Seq(RichBlockHeader)
    /\ r.ChainCounter \in Nat
    /\ r.ChainsIndex \in [0 .. r.ChainCounter - 1 -> BlockChain]

(* X, which is ChainsHashes, has each header under its chain and height,   *)
(* and nothing else.                                                       *)
Indexed(N, C, H, X) ==
    /\ \A h \in 1 .. N : <<C[h], H[h]>> \in DOMAIN X /\ X[<<C[h], H[h]>>] = h
    /\ \A k \in DOMAIN X : X[k] \in 1 .. N /\ k = <<C[X[k]], H[X[k]]>>

(* L, which is Chains, lists every chain, the main chain first.            *)
Listed(k, L) ==
    /\ L \in [0 .. k - 1 -> 0 .. k - 1]
    /\ \A i \in 0 .. k - 1 : \E p \in 0 .. k - 1 : L[p] = i
    /\ k > 0 => L[0] = 0

(* The storage describes a tree that starts at height s.                   *)
Stored(r, s) ==
    /\ Shaped(r)
    /\ TreeOf(r, s)
    /\ Indexed(Len(r.BlockHeaders), ChainIds(r), Heights(r), r.ChainsHashes)
    /\ Listed(r.ChainCounter, r.Chains)

(* The best block is the last one of the main chain, once there is one.    *)
Headed(r) ==
    /\ r.BestBlockHeight \in Nat
    /\ IF r.BestBlock = 0 THEN r.ChainCounter = 0 /\ Len(r.BlockHeaders) = 0
       ELSE /\ r.BestBlock \in Headers(r) /\ ChainIds(r)[r.BestBlock] = 0
            /\ r.ChainCounter > 0 /\ r.BestBlockHeight = Tops(r)[0]
            /\ Heights(r)[r.BestBlock] = Tops(r)[0]

(* The inductive invariant: the storage describes a tree that starts where *)
(* the relay was initialized, and the best block is its head. HeaderTree   *)
(* alone is not inductive: a reorganisation needs that a fork branches off *)
(* below the end of the chain it extends (Linked), and that headers come   *)
(* after the ones they extend (Rooted), which makes the walk down to the   *)
(* main chain end.                                                         *)
RelayInv ==
    /\ SecurityTypeOK
    /\ StartBlockHeight \in Nat
    /\ DisableDifficultyCheck \in BOOLEAN
    /\ Stored(relay, StartBlockHeight)
    /\ Headed(relay)

(* The fields of a header that are never changed.                          *)
SameHeader(x, y) ==
    /\ x.prev = y.prev /\ x.block_height = y.block_height /\ x.timestamp = y.timestamp
    /\ x.target = y.target /\ x.para_height = y.para_height

-----------------------------------------------------------------------------
(* Storing a header                                                        *)

(* One more header, one more entry.                                        *)
LEMMA IndexAppend ==
    ASSUME NEW N \in Nat, NEW C, NEW H, NEW X, Indexed(N, C, H, X), NEW c, NEW n,
           \A h \in 1 .. N : ~(C[h] = c /\ H[h] = n)
    PROVE  Indexed(N + 1, Extended(N, C, c), Extended(N, H, n), insert(X, <<c, n>>, N + 1))
<1>1. PICK D, J, Y, m : /\ D = Extended(N, C, c) /\ J = Extended(N, H, n)
                        /\ Y = insert(X, <<c, n>>, m) /\ m = N + 1
  OBVIOUS
<1>2. /\ m \in 1 .. m /\ D[m] = c /\ J[m] = n
      /\ \A h \in 1 .. N : D[h] = C[h] /\ J[h] = H[h] /\ h \in 1 .. m /\ h # m
      /\ \A h \in 1 .. m : h = m \/ h \in 1 .. N
  BY <1>1, ExtendedAt
<1>3. /\ DOMAIN Y = DOMAIN X \cup {<<c, n>>} /\ Y[<<c, n>>] = m
      /\ \A k \in DOMAIN X : k # <<c, n>> => Y[k] = X[k]
  BY <1>1 DEF insert
<1>4. ASSUME NEW h \in 1 .. m PROVE <<D[h], J[h]>> \in DOMAIN Y /\ Y[<<D[h], J[h]>>] = h
  <2>1. CASE h = m
    BY <1>2, <1>3, <2>1
  <2>2. CASE h \in 1 .. N
    <3>1. <<C[h], H[h]>> \in DOMAIN X /\ X[<<C[h], H[h]>>] = h
      BY <2>2 DEF Indexed
    <3>2. <<C[h], H[h]>> # <<c, n>>
      BY <2>2
    <3>. QED BY <1>2, <1>3, <2>2, <3>1, <3>2
  <2>. QED BY <1>2, <2>1, <2>2
<1>5. ASSUME NEW k \in DOMAIN Y PROVE Y[k] \in 1 .. m /\ k = <<D[Y[k]], J[Y[k]]>>
  <2>1. CASE k = <<c, n>>
    BY <1>2, <1>3, <2>1
  <2>2. CASE k # <<c, n>>
    <3>1. k \in DOMAIN X /\ Y[k] = X[k]
      BY <1>3, <2>2
    <3>2. X[k] \in 1 .. N /\ k = <<C[X[k]], H[X[k]]>>
      BY <3>1 DEF Indexed
    <3>. QED BY <1>2, <3>1, <3>2
  <2>. QED BY <2>1, <2>2
<1>6. Indexed(m, D, J, Y)
  BY <1>4, <1>5 DEF Indexed
<1>. QED BY <1>1, <1>6

(* Moving a fork among the forks keeps the list.                           *)
LEMMA MoveListed ==
    ASSUME NEW k \in Nat, NEW L, Listed(k, L), NEW from \in 0 .. k - 1, NEW to \in 0 .. k - 1,
           from = to \/ (from > 0 /\ to > 0)
    PROVE  Listed(k, move(L, from, to))
<1>1. PICK M : M = move(L, from, to)
  OBVIOUS
<1>2. /\ L \in [0 .. k - 1 -> 0 .. k - 1]
      /\ \A i \in 0 .. k - 1 : \E p \in 0 .. k - 1 : L[p] = i
      /\ k > 0 => L[0] = 0
  BY DEF Listed
<1>3. M = [p \in 0 .. k - 1 |-> IF p = to THEN L[from]
                                ELSE IF from <= p /\ p < to THEN L[p + 1]
                                ELSE IF to < p /\ p <= from THEN L[p - 1]
                                ELSE L[p]]
  BY <1>1, <1>2 DEF move
<1>4. M \in [0 .. k - 1 -> 0 .. k - 1]
  <2>1. ASSUME NEW p \in 0 .. k - 1 PROVE M[p] \in 0 .. k - 1
    <3>1. /\ p < to => p + 1 \in 0 .. k - 1
          /\ to < p => p - 1 \in 0 .. k - 1
      OBVIOUS
    <3>. QED BY <1>2, <1>3, <3>1
  <2>. QED BY <1>3, <2>1
<1>5. ASSUME NEW i \in 0 .. k - 1 PROVE \E p \in 0 .. k - 1 : M[p] = i
  <2>1. PICK p \in 0 .. k - 1 : L[p] = i
    BY <1>2
  <2>2. CASE p = from
    BY <1>3, <2>1, <2>2
  <2>3. CASE from < p /\ p <= to
    <3>1. /\ p - 1 \in 0 .. k - 1 /\ p - 1 # to /\ from <= p - 1 /\ p - 1 < to /\ (p - 1) + 1 = p
      BY <2>3
    <3>. QED BY <1>3, <2>1, <3>1
  <2>4. CASE to <= p /\ p < from
    <3>1. /\ p + 1 \in 0 .. k - 1 /\ p + 1 # to /\ to < p + 1 /\ p + 1 <= from /\ (p + 1) - 1 = p
          /\ ~(from <= p + 1 /\ p + 1 < to)
      BY <2>4
    <3>. QED BY <1>3, <2>1, <3>1
  <2>5. CASE (p < from /\ p < to) \/ (from < p /\ to < p)
    BY <1>3, <2>1, <2>5
  <2>. QED BY <2>2, <2>3, <2>4, <2>5
<1>6. ASSUME k > 0 PROVE M[0] = 0
  <2>1. 0 \in 0 .. k - 1
    BY <1>6
  <2>2. CASE to = 0
    BY <1>2, <1>3, <1>6, <2>1, <2>2
  <2>3. CASE to # 0
    <3>1. ~(from <= 0) /\ ~(to < 0)
      BY <2>3
    <3>. QED BY <1>2, <1>3, <1>6, <2>1, <2>3, <3>1
  <2>. QED BY <2>2, <2>3
<1>. QED BY <1>1, <1>4, <1>5, <1>6 DEF Listed

(* A new chain at the end of the list.                                     *)
LEMMA InsertListed ==
    ASSUME NEW k \in Nat, NEW L, Listed(k, L)
    PROVE  Listed(k + 1, insert(L, k, k))
<1>1. DOMAIN L = 0 .. k - 1 /\ L \in [0 .. k - 1 -> 0 .. k - 1]
  BY DEF Listed
<1>2. insert(L, k, k) = [j \in 0 .. k |-> IF j = k THEN k ELSE L[j]]
  BY <1>1, Inserted
<1>3. /\ \A j \in 0 .. k : j = k \/ j \in 0 .. k - 1
      /\ \A j \in 0 .. k - 1 : j # k /\ j \in 0 .. k
      /\ k \in 0 .. k /\ (k + 1) - 1 = k
      /\ k > 0 => 0 \in 0 .. k - 1
      /\ k = 0 \/ k > 0
  OBVIOUS
<1>4. PICK M : M = insert(L, k, k)
  OBVIOUS
<1>5. M \in [0 .. k -> 0 .. k] /\ M[k] = k /\ \A j \in 0 .. k - 1 : M[j] = L[j]
  BY <1>1, <1>2, <1>3, <1>4
<1>6. \A i \in 0 .. k : \E p \in 0 .. k : M[p] = i
  BY <1>3, <1>5 DEF Listed
<1>7. M[0] = 0
  BY <1>3, <1>5 DEF Listed
<1>. QED BY <1>3, <1>4, <1>5, <1>6, <1>7 DEF Listed

(* insert_sorted changes the order only, and keeps the list.               *)
LEMMA InsertSorted ==
    ASSUME NEW k \in Nat, NEW L, Listed(k, L),
           NEW r, r.ChainCounter = k + 1, r.Chains = L
    PROVE  \E M : Listed(k + 1, M) /\ insert_sorted(r, k) = [r EXCEPT !.Chains = M]
<1>. DEFINE last == r.ChainCounter - 1
            lower == {p \in 1 .. last - 1 : max_height(r, k) > max_height(r, r.Chains[p])}
            position == IF lower = {} THEN last
                        ELSE CHOOSE p \in lower : \A q \in lower : p <= q
            M == move(insert(L, k, k), k, position)
<1>1. last = k
  OBVIOUS
<1>2. insert_sorted(r, k) = [r EXCEPT !.Chains = M]
  <2>1. insert_sorted(r, k) = [r EXCEPT !.Chains = move(insert(r.Chains, last, k), last, position)]
    BY DEF insert_sorted
  <2>. HIDE DEF last, position
  <2>. QED BY <1>1, <2>1
<1>. HIDE DEF last
<1>3. position = k \/ position \in 1 .. k - 1
  <2>1. CASE lower # {}
    <3>1. lower \subseteq Nat /\ lower \subseteq 1 .. k - 1
      BY <1>1
    <3>2. \E p \in lower : \A q \in lower : p <= q
      BY <2>1, <3>1, LeastNat
    <3>3. position \in lower
      BY <2>1, <3>2
    <3>. QED BY <3>1, <3>3
  <2>. QED BY <1>1, <2>1
<1>. HIDE DEF position
<1>4. k + 1 \in Nat /\ k \in 0 .. (k + 1) - 1 /\ position \in 0 .. (k + 1) - 1
      /\ (k = position \/ (k > 0 /\ position > 0))
  BY <1>3
<1>5. Listed(k + 1, insert(L, k, k))
  BY InsertListed
<1>6. Listed(k + 1, M)
  BY <1>4, <1>5, MoveListed
<1>. QED BY <1>2, <1>6

(* What store_rich_header does to the tree.                                *)
LEMMA StoreHeader ==
    ASSUME NEW r, r.BlockHeaders \in Seq(RichBlockHeader), NEW x \in RichBlockHeader,
           NEW q, q.BlockHeaders = Append(r.BlockHeaders, x), NEW N, N = Len(r.BlockHeaders)
    PROVE  /\ q.BlockHeaders \in Seq(RichBlockHeader) /\ N \in Nat
           /\ Len(q.BlockHeaders) = N + 1
           /\ Prevs(q) = Extended(N, Prevs(r), x.prev)
           /\ ChainIds(q) = Extended(N, ChainIds(r), x.chain_id)
           /\ Heights(q) = Extended(N, Heights(r), x.block_height)
<1>1. /\ q.BlockHeaders \in Seq(RichBlockHeader) /\ N \in Nat
      /\ Len(q.BlockHeaders) = N + 1
  OBVIOUS
<1>2. /\ \A h \in 1 .. N : q.BlockHeaders[h] = r.BlockHeaders[h]
      /\ q.BlockHeaders[N + 1] = x
      /\ \A h \in 1 .. N + 1 : h = N + 1 \/ h \in 1 .. N
      /\ \A h \in 1 .. N : h # N + 1
  OBVIOUS
<1>3. Prevs(q) = Extended(N, Prevs(r), x.prev)
  BY <1>1, <1>2 DEF Prevs, Headers, Extended
<1>4. ChainIds(q) = Extended(N, ChainIds(r), x.chain_id)
  BY <1>1, <1>2 DEF ChainIds, Headers, Extended
<1>5. Heights(q) = Extended(N, Heights(r), x.block_height)
  BY <1>1, <1>2 DEF Heights, Headers, Extended
<1>. QED BY <1>1, <1>3, <1>4, <1>5

(* create_and_store_blockchain adds a header on a fork of its own.         *)
LEMMA CreateStored ==
    ASSUME NEW r, NEW s, Stored(r, s), NEW p \in Headers(r), NEW x \in RichBlockHeader,
           x.prev = p, x.block_height = r.BlockHeaders[p].block_height + 1,
           r.ChainsIndex[r.BlockHeaders[p].chain_id].max_height # r.BlockHeaders[p].block_height
    PROVE  LET q == create_and_store_blockchain(r, x) IN
           /\ Stored(q, s) /\ q.BestBlock = r.BestBlock /\ q.BestBlockHeight = r.BestBlockHeight
           /\ Len(q.BlockHeaders) = Len(r.BlockHeaders) + 1
           /\ \A h \in Headers(r) : q.BlockHeaders[h] = r.BlockHeaders[h]
           /\ q.ChainCounter = r.ChainCounter + 1
           /\ SameHeader(q.BlockHeaders[Len(r.BlockHeaders) + 1], x)
           /\ r.ChainCounter > 0 /\ q.ChainsIndex[0] = r.ChainsIndex[0]
<1>0. PICK N, k, n : N = Len(r.BlockHeaders) /\ k = r.ChainCounter /\ n = x.block_height
  OBVIOUS
<1>. DEFINE chain == [start_height |-> n, max_height |-> n]
            y == [x EXCEPT !.chain_id = k]
            a == [r EXCEPT !.ChainCounter = @ + 1,
                           !.ChainsHashes = insert(@, <<k, n>>, new_hash(r)),
                           !.ChainsIndex = insert(@, k, chain)]
            q == create_and_store_blockchain(r, x)
<1>1. /\ Shaped(r) /\ TreeOf(r, s) /\ Listed(k, r.Chains) /\ k \in Nat /\ N \in Nat
      /\ Indexed(N, ChainIds(r), Heights(r), r.ChainsHashes)
      /\ r.BlockHeaders \in Seq(RichBlockHeader)
      /\ r.ChainsIndex \in [0 .. k - 1 -> BlockChain] /\ n \in Nat
  <2>1. n \in Nat
    BY <1>0 DEF RichBlockHeader
  <2>. QED BY <1>0, <2>1 DEF Stored, Shaped
<1>2. a.ChainCounter = k + 1 /\ a.Chains = r.Chains
  BY <1>0, <1>1 DEF Shaped
<1>3. PICK M : Listed(k + 1, M) /\ insert_sorted(a, k) = [a EXCEPT !.Chains = M]
  <2>. HIDE DEF a
  <2>. QED BY <1>1, <1>2, InsertSorted
<1>4. q = [[a EXCEPT !.Chains = M] EXCEPT !.BlockHeaders = Append(@, y)]
  BY <1>0, <1>3 DEF create_and_store_blockchain, store_rich_header
<1>5. q = [BlockHeaders |-> Append(r.BlockHeaders, y), ChainCounter |-> k + 1,
           Chains |-> M, ChainsIndex |-> insert(r.ChainsIndex, k, chain),
           ChainsHashes |-> insert(r.ChainsHashes, <<k, n>>, N + 1),
           BestBlock |-> r.BestBlock, BestBlockHeight |-> r.BestBlockHeight]
  BY <1>0, <1>1, <1>4 DEF Shaped, new_hash
<1>. HIDE DEF q, a
<1>6. PICK z : z = q
  OBVIOUS
<1>7. /\ z.BlockHeaders = Append(r.BlockHeaders, y) /\ z.ChainCounter = k + 1 /\ z.Chains = M
      /\ z.ChainsIndex = insert(r.ChainsIndex, k, chain)
      /\ z.ChainsHashes = insert(r.ChainsHashes, <<k, n>>, N + 1)
      /\ z.BestBlock = r.BestBlock /\ z.BestBlockHeight = r.BestBlockHeight
  BY <1>5, <1>6
<1>8. /\ y \in RichBlockHeader /\ y.prev = p /\ y.chain_id = k /\ y.block_height = n
      /\ SameHeader(y, x)
  BY <1>0, <1>1 DEF RichBlockHeader, SameHeader
<1>. HIDE DEF y
<1>9. /\ z.BlockHeaders \in Seq(RichBlockHeader)
      /\ Len(z.BlockHeaders) = N + 1
      /\ Prevs(z) = Extended(N, Prevs(r), p)
      /\ ChainIds(z) = Extended(N, ChainIds(r), k)
      /\ Heights(z) = Extended(N, Heights(r), n)
  BY <1>0, <1>1, <1>7, <1>8, StoreHeader
<1>10. /\ chain \in BlockChain /\ DOMAIN r.ChainsIndex = 0 .. k - 1
       /\ (k + 1) - 1 = k /\ \A j \in 0 .. k : j = k \/ j \in 0 .. k - 1
       /\ \A j \in 0 .. k - 1 : j # k /\ j \in 0 .. k
  BY <1>1 DEF BlockChain
<1>. HIDE DEF chain
<1>11. z.ChainsIndex = [j \in 0 .. k |-> IF j = k THEN chain ELSE r.ChainsIndex[j]]
  BY <1>1, <1>7, <1>10, Inserted, SMTT(30)
<1>12. z.ChainsIndex \in [0 .. k -> BlockChain]
  BY <1>1, <1>10, <1>11
<1>13. DOMAIN Starts(r) = 0 .. k - 1 /\ DOMAIN Tops(r) = 0 .. k - 1
  BY <1>0 DEF Starts, Tops
<1>14. Starts(z) = insert(Starts(r), k, n) /\ Tops(z) = insert(Tops(r), k, n)
  <2>1. /\ insert(Starts(r), k, n) = [j \in 0 .. k |-> IF j = k THEN n ELSE Starts(r)[j]]
        /\ insert(Tops(r), k, n) = [j \in 0 .. k |-> IF j = k THEN n ELSE Tops(r)[j]]
    BY <1>1, <1>13, Inserted
  <2>2. chain.start_height = n /\ chain.max_height = n
    BY DEF chain
  <2>3. /\ Starts(z) = [j \in 0 .. k |-> z.ChainsIndex[j].start_height]
        /\ Tops(z) = [j \in 0 .. k |-> z.ChainsIndex[j].max_height]
    BY <1>7, <1>10 DEF Starts, Tops
  <2>4. /\ Starts(r) = [j \in 0 .. k - 1 |-> r.ChainsIndex[j].start_height]
        /\ Tops(r) = [j \in 0 .. k - 1 |-> r.ChainsIndex[j].max_height]
    BY <1>0 DEF Starts, Tops
  <2>. QED BY <1>10, <1>11, <2>1, <2>2, <2>3, <2>4
<1>15. /\ p \in 1 .. N /\ Heights(r)[p] = r.BlockHeaders[p].block_height
       /\ ChainIds(r)[p] = r.BlockHeaders[p].chain_id /\ n = Heights(r)[p] + 1
  BY <1>0 DEF Headers, Heights, ChainIds
<1>16. ChainIds(r)[p] \in 0 .. k - 1
  BY <1>0, <1>1, <1>15, TreeTypes DEF TreeOf
<1>17. Heights(r)[p] # Tops(r)[ChainIds(r)[p]]
  BY <1>0, <1>15, <1>16 DEF Tops
<1>18. TreeOf(z, s)
  <2>1. Tree(N, Prevs(r), ChainIds(r), Heights(r), k, Starts(r), Tops(r), s)
    BY <1>0, <1>1 DEF TreeOf
  <2>2. Tree(N + 1, Prevs(z), ChainIds(z), Heights(z), k + 1, Starts(z), Tops(z), s)
    BY <1>9, <1>14, <1>15, <1>17, <2>1, NewForkTree
  <2>. QED BY <1>7, <1>9, <2>2 DEF TreeOf
<1>19. \A h \in 1 .. N : ChainIds(r)[h] # k
  BY <1>0, <1>1, <1>10, TreeTypes DEF TreeOf
<1>20. Indexed(N + 1, ChainIds(z), Heights(z), z.ChainsHashes)
  BY <1>1, <1>7, <1>9, <1>19, IndexAppend
<1>21. Shaped(z)
  <2>1. z = [BlockHeaders |-> z.BlockHeaders, ChainCounter |-> z.ChainCounter,
            Chains |-> z.Chains, ChainsIndex |-> z.ChainsIndex, ChainsHashes |-> z.ChainsHashes,
            BestBlock |-> z.BestBlock, BestBlockHeight |-> z.BestBlockHeight]
    BY <1>5, <1>6, <1>7
  <2>. QED BY <1>1, <1>7, <1>9, <1>10, <1>12, <2>1 DEF Shaped
<1>22. Stored(z, s)
  BY <1>3, <1>7, <1>9, <1>18, <1>20, <1>21 DEF Stored
<1>23. /\ \A h \in Headers(r) : z.BlockHeaders[h] = r.BlockHeaders[h]
       /\ z.BlockHeaders[N + 1] = y
  BY <1>0, <1>1, <1>7, <1>8 DEF Headers
<1>24. k > 0 /\ z.ChainsIndex[0] = r.ChainsIndex[0]
  <2>1. k > 0 /\ 0 \in 0 .. k - 1
    BY <1>1, <1>16
  <2>. QED BY <1>10, <1>11, <2>1
<1>25. /\ Stored(q, s) /\ q.BestBlock = r.BestBlock /\ q.BestBlockHeight = r.BestBlockHeight
       /\ Len(q.BlockHeaders) = N + 1
       /\ \A h \in Headers(r) : q.BlockHeaders[h] = r.BlockHeaders[h]
       /\ q.ChainCounter = k + 1 /\ k > 0 /\ q.ChainsIndex[0] = r.ChainsIndex[0]
       /\ SameHeader(q.BlockHeaders[N + 1], x)
  BY <1>6, <1>7, <1>8, <1>9, <1>22, <1>23, <1>24
<1>. QED BY <1>0, <1>25 DEF q

(* extend_blockchain adds a header to the chain of its parent.             *)
LEMMA ExtendStored ==
    ASSUME NEW r, NEW s, Stored(r, s), NEW p \in Headers(r), NEW x \in RichBlockHeader,
           x.prev = p, x.block_height = r.BlockHeaders[p].block_height + 1,
           NEW i, i = r.BlockHeaders[p].chain_id,
           r.ChainsIndex[i].max_height = r.BlockHeaders[p].block_height,
           NEW q \in extend_blockchain(r, x, i)
    PROVE  /\ Stored(q, s) /\ q.BestBlock = r.BestBlock /\ q.BestBlockHeight = r.BestBlockHeight
           /\ Len(q.BlockHeaders) = Len(r.BlockHeaders) + 1
           /\ \A h \in Headers(r) : q.BlockHeaders[h] = r.BlockHeaders[h]
           /\ q.ChainCounter = r.ChainCounter /\ q.Chains = r.Chains
           /\ i \in 0 .. r.ChainCounter - 1
           /\ \A j \in 0 .. r.ChainCounter - 1 : j # i => q.ChainsIndex[j] = r.ChainsIndex[j]
           /\ max_height(q, i) = x.block_height
           /\ q.BlockHeaders[Len(r.BlockHeaders) + 1].chain_id = i
           /\ q.BlockHeaders[Len(r.BlockHeaders) + 1].block_height = x.block_height
           /\ SameHeader(q.BlockHeaders[Len(r.BlockHeaders) + 1], x)
<1>0. PICK N, k, n : N = Len(r.BlockHeaders) /\ k = r.ChainCounter /\ n = x.block_height
  OBVIOUS
<1>. DEFINE y == [x EXCEPT !.chain_id = i]
<1>1. /\ Shaped(r) /\ TreeOf(r, s) /\ Listed(k, r.Chains) /\ k \in Nat /\ N \in Nat
      /\ Indexed(N, ChainIds(r), Heights(r), r.ChainsHashes)
      /\ r.BlockHeaders \in Seq(RichBlockHeader)
      /\ r.ChainsIndex \in [0 .. k - 1 -> BlockChain] /\ n \in Nat
  <2>1. n \in Nat
    BY <1>0 DEF RichBlockHeader
  <2>. QED BY <1>0, <2>1 DEF Stored, Shaped
<1>2. Tree(N, Prevs(r), ChainIds(r), Heights(r), k, Starts(r), Tops(r), s)
  BY <1>0, <1>1 DEF TreeOf
<1>3. /\ p \in 1 .. N /\ Heights(r)[p] = r.BlockHeaders[p].block_height
      /\ ChainIds(r)[p] = i /\ n = Heights(r)[p] + 1
  BY <1>0 DEF Headers, Heights, ChainIds
<1>4. i \in 0 .. k - 1 /\ Heights(r)[p] = Tops(r)[i]
  <2>1. i \in 0 .. k - 1
    BY <1>2, <1>3, TreeTypes
  <2>. QED BY <1>0, <1>3, <2>1 DEF Tops
<1>5. q = store_rich_header([r EXCEPT !.ChainsHashes = insert(@, <<i, n>>, new_hash(r)),
                                      !.ChainsIndex[i].max_height = n], x, i)
  BY <1>0 DEF extend_blockchain
<1>6. q = [BlockHeaders |-> Append(r.BlockHeaders, y), ChainCounter |-> k,
           Chains |-> r.Chains, ChainsIndex |-> [r.ChainsIndex EXCEPT ![i].max_height = n],
           ChainsHashes |-> insert(r.ChainsHashes, <<i, n>>, N + 1),
           BestBlock |-> r.BestBlock, BestBlockHeight |-> r.BestBlockHeight]
  BY <1>0, <1>1, <1>5 DEF Shaped, new_hash, store_rich_header
<1>7. /\ q.BlockHeaders = Append(r.BlockHeaders, y) /\ q.ChainCounter = k /\ q.Chains = r.Chains
      /\ q.ChainsIndex = [r.ChainsIndex EXCEPT ![i].max_height = n]
      /\ q.ChainsHashes = insert(r.ChainsHashes, <<i, n>>, N + 1)
      /\ q.BestBlock = r.BestBlock /\ q.BestBlockHeight = r.BestBlockHeight
  BY <1>6
<1>8. /\ y \in RichBlockHeader /\ y.prev = p /\ y.chain_id = i /\ y.block_height = n
      /\ SameHeader(y, x)
  <2>1. i \in Nat
    BY <1>1, <1>4
  <2>. QED BY <1>0, <2>1 DEF RichBlockHeader, SameHeader
<1>. HIDE DEF y
<1>9. /\ q.BlockHeaders \in Seq(RichBlockHeader)
      /\ Len(q.BlockHeaders) = N + 1
      /\ Prevs(q) = Extended(N, Prevs(r), p)
      /\ ChainIds(q) = Extended(N, ChainIds(r), i)
      /\ Heights(q) = Extended(N, Heights(r), n)
  BY <1>0, <1>1, <1>7, <1>8, StoreHeader
<1>10. /\ q.ChainsIndex \in [0 .. k - 1 -> BlockChain]
       /\ \A j \in 0 .. k - 1 : j # i => q.ChainsIndex[j] = r.ChainsIndex[j]
       /\ q.ChainsIndex[i].max_height = n
       /\ q.ChainsIndex[i].start_height = r.ChainsIndex[i].start_height
  <2>1. PICK A, R : A = q.ChainsIndex /\ R = r.ChainsIndex
    OBVIOUS
  <2>2. R \in [0 .. k - 1 -> BlockChain] /\ A = [R EXCEPT ![i] = [R[i] EXCEPT !.max_height = n]]
    BY <1>1, <1>7, <2>1
  <2>3. PICK e : e = [R[i] EXCEPT !.max_height = n]
    OBVIOUS
  <2>4. e \in BlockChain /\ e.max_height = n /\ e.start_height = R[i].start_height
    BY <1>1, <1>4, <2>2, <2>3 DEF BlockChain
  <2>5. A \in [0 .. k - 1 -> BlockChain] /\ A[i] = e /\ \A j \in 0 .. k - 1 : j # i => A[j] = R[j]
    BY <1>4, <2>2, <2>3, <2>4
  <2>. QED BY <2>1, <2>4, <2>5
<1>11. Starts(q) = Starts(r) /\ Tops(q) = [Tops(r) EXCEPT ![i] = n]
  <2>1. /\ Starts(q) = [j \in 0 .. k - 1 |-> q.ChainsIndex[j].start_height]
        /\ Tops(q) = [j \in 0 .. k - 1 |-> q.ChainsIndex[j].max_height]
    BY <1>7 DEF Starts, Tops
  <2>2. /\ Starts(r) = [j \in 0 .. k - 1 |-> r.ChainsIndex[j].start_height]
        /\ Tops(r) = [j \in 0 .. k - 1 |-> r.ChainsIndex[j].max_height]
    BY <1>0 DEF Starts, Tops
  <2>3. PICK A, R : A = q.ChainsIndex /\ R = r.ChainsIndex
    OBVIOUS
  <2>4. /\ \A j \in 0 .. k - 1 : A[j].start_height = R[j].start_height
        /\ \A j \in 0 .. k - 1 : j # i => A[j].max_height = R[j].max_height
        /\ A[i].max_height = n
    BY <1>10, <2>3
  <2>5. Starts(q) = Starts(r)
    BY <2>1, <2>2, <2>3, <2>4
  <2>6. PICK T, U : T = Tops(r) /\ U = Tops(q)
    OBVIOUS
  <2>7. T = [j \in 0 .. k - 1 |-> R[j].max_height] /\ U = [j \in 0 .. k - 1 |-> A[j].max_height]
    BY <2>1, <2>2, <2>3, <2>6
  <2>8. U = [T EXCEPT ![i] = n]
    BY <1>4, <2>4, <2>7
  <2>. QED BY <2>5, <2>6, <2>8
<1>12. TreeOf(q, s)
  <2>0. PICK P, C, H, B, T : /\ P = Prevs(r) /\ C = ChainIds(r) /\ H = Heights(r)
                             /\ B = Starts(r) /\ T = Tops(r)
    OBVIOUS
  <2>2. /\ Tree(N, P, C, H, k, B, T, s) /\ p \in 1 .. N /\ C[p] = i /\ H[p] + 1 = n
        /\ H[p] = T[C[p]]
    BY <1>2, <1>3, <1>4, <2>0
  <2>3. Tree(N + 1, Extended(N, P, p), Extended(N, C, C[p]), Extended(N, H, H[p] + 1), k, B,
             [T EXCEPT ![C[p]] = H[p] + 1], s)
    BY <2>2, ExtendTree
  <2>1. Tree(N + 1, Prevs(q), ChainIds(q), Heights(q), k, Starts(q), Tops(q), s)
    BY <1>9, <1>11, <2>0, <2>2, <2>3
  <2>. QED BY <1>7, <1>9, <2>1 DEF TreeOf
<1>13. \A h \in 1 .. N : ~(ChainIds(r)[h] = i /\ Heights(r)[h] = n)
  <2>1. \A h \in 1 .. N : Heights(r)[h] <= Tops(r)[ChainIds(r)[h]]
    BY <1>2 DEF Tree, Filled
  <2>2. Tops(r)[i] \in Nat /\ n = Tops(r)[i] + 1
    BY <1>2, <1>3, <1>4, TreeTypes
  <2>. QED BY <2>1, <2>2
<1>14. Indexed(N + 1, ChainIds(q), Heights(q), q.ChainsHashes)
  <2>1. PICK C, H, X : C = ChainIds(r) /\ H = Heights(r) /\ X = r.ChainsHashes
    OBVIOUS
  <2>2. Indexed(N, C, H, X) /\ \A h \in 1 .. N : ~(C[h] = i /\ H[h] = n)
    BY <1>1, <1>13, <2>1
  <2>3. Indexed(N + 1, Extended(N, C, i), Extended(N, H, n), insert(X, <<i, n>>, N + 1))
    BY <1>1, <2>2, IndexAppend
  <2>. QED BY <1>7, <1>9, <2>1, <2>3
<1>15. Shaped(q)
  <2>1. q = [BlockHeaders |-> q.BlockHeaders, ChainCounter |-> q.ChainCounter,
            Chains |-> q.Chains, ChainsIndex |-> q.ChainsIndex, ChainsHashes |-> q.ChainsHashes,
            BestBlock |-> q.BestBlock, BestBlockHeight |-> q.BestBlockHeight]
    BY <1>6, <1>7
  <2>. QED BY <1>1, <1>7, <1>9, <1>10, <2>1 DEF Shaped
<1>16. Stored(q, s)
  BY <1>1, <1>7, <1>9, <1>12, <1>14, <1>15 DEF Stored
<1>17. /\ \A h \in Headers(r) : q.BlockHeaders[h] = r.BlockHeaders[h]
       /\ q.BlockHeaders[N + 1].chain_id = i
       /\ q.BlockHeaders[N + 1].block_height = n
       /\ SameHeader(q.BlockHeaders[N + 1], x)
  BY <1>0, <1>1, <1>7, <1>8 DEF Headers
<1>. QED BY <1>0, <1>4, <1>7, <1>9, <1>10, <1>16, <1>17 DEF max_height

-----------------------------------------------------------------------------
(* swap_main_blockchain and reorganize_chains                              *)

(* The recursive function of links_to_main exists: the walk down ends, as  *)
(* parents come before their children.                                     *)
LEMMA LinksExist ==
    ASSUME NEW N, NEW P, NEW C, NEW H, NEW k, NEW B, NEW T, NEW s, Tree(N, P, C, H, k, B, T, s)
    PROVE  \E F : F = [h \in 1 .. N |-> IF C[h] = 0 THEN {} ELSE {h} \cup F[P[h]]]
<1>0. N \in Nat /\ \A h \in 1 .. N : C[h] # 0 => P[h] \in 1 .. N /\ P[h] < h
  BY Parent, TreeTypes DEF Tree, Rooted
<1>. DEFINE S == {n \in Nat : n <= N =>
                     \E F : F = [h \in 1 .. n |-> IF C[h] = 0 THEN {} ELSE {h} \cup F[P[h]]]}
<1>1. 0 \in S
  <2>1. \E F : F = [h \in 1 .. 0 |-> IF C[h] = 0 THEN {} ELSE {h} \cup F[P[h]]]
    <3>1. [h \in 1 .. 0 |-> {}] = [h \in 1 .. 0 |-> IF C[h] = 0 THEN {}
                                         ELSE {h} \cup [g \in 1 .. 0 |-> {}][P[h]]]
      OBVIOUS
    <3>. QED BY <3>1
  <2>. QED BY <2>1
<1>2. ASSUME NEW n \in Nat, n \in S PROVE n + 1 \in S
  <2>1. SUFFICES ASSUME n + 1 <= N
        PROVE \E F : F = [h \in 1 .. n + 1 |-> IF C[h] = 0 THEN {} ELSE {h} \cup F[P[h]]]
    OBVIOUS
  <2>2. PICK F : F = [h \in 1 .. n |-> IF C[h] = 0 THEN {} ELSE {h} \cup F[P[h]]]
    BY <1>0, <1>2, <2>1
  <2>3. PICK G : G = [h \in 1 .. n + 1 |-> IF h = n + 1
                                           THEN IF C[h] = 0 THEN {} ELSE {h} \cup F[P[h]]
                                           ELSE F[h]]
    OBVIOUS
  <2>4. /\ \A h \in 1 .. n + 1 : h \in 1 .. N /\ (h = n + 1 \/ h \in 1 .. n)
        /\ \A h \in 1 .. n : h # n + 1 /\ h \in 1 .. n + 1
        /\ n + 1 \in 1 .. n + 1
    BY <1>0, <2>1
  <2>5. \A h \in 1 .. n + 1 : C[h] # 0 => P[h] \in 1 .. n
    BY <1>0, <2>1, <2>4
  <2>6. \A h \in 1 .. n : G[h] = F[h]
    BY <2>3, <2>4
  <2>7. ASSUME NEW h \in 1 .. n + 1
        PROVE  G[h] = IF C[h] = 0 THEN {} ELSE {h} \cup G[P[h]]
    <3>1. G[h] = IF C[h] = 0 THEN {} ELSE {h} \cup F[P[h]]
      BY <2>2, <2>3, <2>4
    <3>2. C[h] # 0 => G[P[h]] = F[P[h]]
      BY <2>5, <2>6
    <3>. QED BY <3>1, <3>2
  <2>8. G = [h \in 1 .. n + 1 |-> G[h]]
    BY <2>3
  <2>9. G = [h \in 1 .. n + 1 |-> IF C[h] = 0 THEN {} ELSE {h} \cup G[P[h]]]
    BY <2>7, <2>8
  <2>. QED BY <2>9
<1>. HIDE DEF S
<1>3. Nat \subseteq S
  BY <1>1, <1>2, NatSetInduction
<1>4. N \in S /\ N <= N
  BY <1>0, <1>3
<1>. QED BY <1>4 DEF S

(* The headers the main chain loses.                                       *)
Displaced(N, C, H, b) == {h \in 1 .. N : C[h] = 0 /\ H[b] < H[h]}

(* The entries of ChainsHashes after the swap.                             *)
Reindexed(C, D, H, M, R, X, Y) ==
    LET K == {<<D[h], H[h]>> : h \in M \cup R} IN
    /\ DOMAIN Y = (DOMAIN X \ {<<C[h], H[h]>> : h \in M}) \cup K
    /\ \A x \in DOMAIN Y : IF x \in K THEN Y[x] \in M \cup R /\ <<D[Y[x]], H[Y[x]]>> = x
                           ELSE Y[x] = X[x]

(* After the swap ChainsHashes has each header under its new chain, and no *)
(* stale entry.                                                            *)
LEMMA SwapIndexed ==
    ASSUME NEW N, NEW P, NEW C, NEW H, NEW k, NEW B, NEW T, NEW s, NEW f, NEW tip, NEW M, NEW b,
           Overtaking(N, P, C, H, k, B, T, s, f, tip, M, b), NEW X, Indexed(N, C, H, X),
           NEW D, D = Rechained(N, C, H, f, M, b), Unique(N, D, H),
           NEW Y, Reindexed(C, D, H, M, Displaced(N, C, H, b), X, Y)
    PROVE  Indexed(N, D, H, Y)
<1>. DEFINE R == Displaced(N, C, H, b)
            K == {<<D[h], H[h]>> : h \in M \cup R}
<1>71. R = {h \in 1 .. N : C[h] = 0 /\ H[b] < H[h]}
  BY DEF Displaced
<1>72. /\ DOMAIN Y = (DOMAIN X \ {<<C[h], H[h]>> : h \in M}) \cup K
      /\ \A x \in DOMAIN Y : IF x \in K THEN Y[x] \in M \cup R /\ <<D[Y[x]], H[Y[x]]>> = x
                             ELSE Y[x] = X[x]
  BY DEF Reindexed
<1>73. K = {<<D[h], H[h]>> : h \in M \cup R}
  OBVIOUS
<1>. HIDE DEF R, K
<1>. USE <1>71, <1>72, <1>73
<1>0. M \subseteq 1 .. N /\ R \subseteq 1 .. N
  BY PathFacts
<1>1. \A h \in 1 .. N : h \notin M \cup R => D[h] = C[h]
  BY DEF Rechained
<1>2. /\ \A h \in 1 .. N : <<C[h], H[h]>> \in DOMAIN X /\ X[<<C[h], H[h]>>] = h
      /\ \A x \in DOMAIN X : X[x] \in 1 .. N /\ x = <<C[X[x]], H[X[x]]>>
  BY DEF Indexed
<1>3. \A g, h \in 1 .. N : <<D[g], H[g]>> = <<D[h], H[h]>> => g = h
  BY DEF Unique
<1>4. ASSUME NEW h \in 1 .. N PROVE <<D[h], H[h]>> \in DOMAIN Y /\ Y[<<D[h], H[h]>>] = h
  <2>1. CASE h \in M \cup R
    <3>1. <<D[h], H[h]>> \in K
      BY <2>1
    <3>2. PICK x : x = <<D[h], H[h]>>
      OBVIOUS
    <3>3. x \in DOMAIN Y /\ Y[x] \in M \cup R /\ <<D[Y[x]], H[Y[x]]>> = <<D[h], H[h]>>
      BY <3>1, <3>2
    <3>. QED BY <1>0, <1>3, <3>2, <3>3
  <2>2. CASE h \notin M \cup R
    <3>1. PICK x : x = <<C[h], H[h]>> /\ x = <<D[h], H[h]>>
      BY <1>1, <2>2
    <3>2. x \in DOMAIN X /\ X[x] = h
      BY <1>2, <3>1
    <3>3. x \notin {<<C[g], H[g]>> : g \in M}
      BY <1>0, <1>2, <2>2, <3>1, <3>2
    <3>4. x \notin K
      BY <1>0, <1>3, <2>2, <3>1
    <3>. QED BY <3>1, <3>2, <3>3, <3>4
  <2>. QED BY <2>1, <2>2
<1>5. ASSUME NEW x \in DOMAIN Y PROVE Y[x] \in 1 .. N /\ x = <<D[Y[x]], H[Y[x]]>>
  <2>1. CASE x \in K
    BY <1>0, <2>1
  <2>2. CASE x \notin K
    <3>1. x \in DOMAIN X /\ Y[x] = X[x] /\ x \notin {<<C[g], H[g]>> : g \in M}
      BY <2>2
    <3>2. PICK g \in 1 .. N : g = X[x] /\ x = <<C[g], H[g]>>
      BY <1>2, <3>1
    <3>3. g \notin M
      BY <3>1, <3>2
    <3>4. g \notin R
      <4>1. SUFFICES ASSUME g \in R PROVE FALSE
        OBVIOUS
      <4>2. C[g] = 0 /\ H[b] < H[g]
        BY <4>1
      <4>3. H[g] \in Nat /\ H[g] <= H[tip]
        <5>1. H[g] <= T[0]
          BY <4>2 DEF Overtaking, Tree, Filled
        <5>2. H[g] \in Nat
          BY TreeTypes DEF Overtaking
        <5>3. T[f] = H[tip]
          BY DEF Overtaking
        <5>. QED BY <5>1, <5>2, <5>3, PathBase
      <4>4. PICK m \in M : H[m] = H[g]
        BY <4>2, <4>3 DEF Overtaking, PathTo
      <4>5. D[m] = 0
        BY <1>0 DEF Rechained
      <4>6. <<D[m], H[m]>> \in K
        OBVIOUS
      <4>. QED BY <2>2, <3>2, <4>2, <4>4, <4>5, <4>6
    <3>5. D[g] = C[g]
      BY <1>1, <3>3, <3>4
    <3>. QED BY <3>1, <3>2, <3>5
  <2>. QED BY <2>1, <2>2
<1>. QED BY <1>4, <1>5 DEF Indexed

(* resort changes the order only, and keeps the list.                      *)
LEMMA ResortListed ==
    ASSUME NEW k \in Nat, NEW L, Listed(k, L), NEW r, r.ChainCounter = k, r.Chains = L,
           NEW f \in 1 .. k - 1
    PROVE  \E M : Listed(k, M) /\ resort(r, f) = [r EXCEPT !.Chains = M]
<1>. DEFINE start == CHOOSE p \in DOMAIN r.Chains : r.Chains[p] = f
            higher(p) == max_height(r, r.Chains[p]) > max_height(r, f)
            fits(e) == /\ \A p \in start + 1 .. e : higher(p)
                       /\ e + 1 < r.ChainCounter => ~higher(e + 1)
            end == CHOOSE e \in start .. r.ChainCounter - 1 :
                      /\ \A p \in start + 1 .. e : higher(p)
                      /\ e + 1 < r.ChainCounter => ~higher(e + 1)
            M == move(L, start, end)
<1>1. resort(r, f) = [r EXCEPT !.Chains = M]
  BY DEF resort
<1>2. L \in [0 .. k - 1 -> 0 .. k - 1] /\ \E p \in 0 .. k - 1 : L[p] = f
  <2>1. f \in 0 .. k - 1
    OBVIOUS
  <2>. QED BY <2>1 DEF Listed
<1>3. start \in 0 .. k - 1 /\ L[start] = f
  BY <1>2
<1>4. start > 0
  <2>1. k > 0 /\ f # 0
    OBVIOUS
  <2>. HIDE DEF start
  <2>. QED BY <1>3, <2>1 DEF Listed
<1>5. \E e \in start .. k - 1 : fits(e)
  <2>. HIDE DEF start, higher
  <2>. DEFINE S == {e \in start .. k - 1 : e + 1 < k => ~higher(e + 1)}
  <2>1. S \subseteq Nat /\ k - 1 \in S
    BY <1>3
  <2>2. PICK e \in S : \A d \in S : e <= d
    BY <2>1, LeastNat
  <2>3. ASSUME NEW p \in start + 1 .. e PROVE higher(p)
    <3>1. p - 1 \in start .. k - 1 /\ ~(e <= p - 1) /\ (p - 1) + 1 = p /\ p < k
      BY <1>3, <2>2, <2>3
    <3>2. p - 1 \notin S
      BY <2>2, <3>1
    <3>. QED BY <3>1, <3>2
  <2>. QED BY <2>2, <2>3
<1>6. end \in start .. k - 1
  <2>1. \E e \in start .. r.ChainCounter - 1 : fits(e)
    BY <1>5
  <2>2. end = CHOOSE e \in start .. r.ChainCounter - 1 : fits(e)
    OBVIOUS
  <2>. HIDE DEF fits, end, start
  <2>. QED BY <2>1, <2>2
<1>. HIDE DEF start, end
<1>7. start \in 0 .. k - 1 /\ end \in 0 .. k - 1 /\ end > 0
  BY <1>3, <1>4, <1>6
<1>8. Listed(k, M)
  BY <1>4, <1>7, MoveListed
<1>. QED BY <1>1, <1>8

(* links_to_main returns the path to the main chain.                       *)
LEMMA LinksToMain ==
    ASSUME NEW r, NEW s, Stored(r, s), NEW tip \in Headers(r), ChainIds(r)[tip] # 0
    PROVE  \E b : PathTo(Len(r.BlockHeaders), Prevs(r), ChainIds(r), Heights(r), tip,
                         links_to_main(r, tip), b)
<1>0. PICK N, P, C, H, k, B, T : /\ N = Len(r.BlockHeaders) /\ P = Prevs(r) /\ C = ChainIds(r)
                                 /\ H = Heights(r) /\ k = r.ChainCounter /\ B = Starts(r)
                                 /\ T = Tops(r)
  OBVIOUS
<1>1. Tree(N, P, C, H, k, B, T, s) /\ tip \in 1 .. N /\ C[tip] # 0
  BY <1>0 DEF Stored, TreeOf, Headers
<1>2. DOMAIN r.BlockHeaders = 1 .. N
  BY <1>0 DEF Stored, Shaped
<1>3. \A h \in 1 .. N : r.BlockHeaders[h].chain_id = C[h] /\ r.BlockHeaders[h].prev = P[h]
  BY <1>0 DEF ChainIds, Prevs, Headers
<1>. DEFINE links == CHOOSE F : F = [h \in DOMAIN r.BlockHeaders |->
                         IF r.BlockHeaders[h].chain_id = MAIN_CHAIN_ID THEN {}
                         ELSE {h} \cup F[r.BlockHeaders[h].prev]]
<1>4. links_to_main(r, tip) = links[tip]
  BY DEF links_to_main
<1>5. \E F : F = [h \in DOMAIN r.BlockHeaders |->
                         IF r.BlockHeaders[h].chain_id = MAIN_CHAIN_ID THEN {}
                         ELSE {h} \cup F[r.BlockHeaders[h].prev]]
  <2>1. PICK F : F = [h \in 1 .. N |-> IF C[h] = 0 THEN {} ELSE {h} \cup F[P[h]]]
    BY <1>1, LinksExist
  <2>2. F = [h \in DOMAIN r.BlockHeaders |->
                         IF r.BlockHeaders[h].chain_id = MAIN_CHAIN_ID THEN {}
                         ELSE {h} \cup F[r.BlockHeaders[h].prev]]
    BY <1>2, <1>3, <2>1 DEF MAIN_CHAIN_ID
  <2>. QED BY <2>2
<1>6. links = [h \in DOMAIN r.BlockHeaders |->
                         IF r.BlockHeaders[h].chain_id = MAIN_CHAIN_ID THEN {}
                         ELSE {h} \cup links[r.BlockHeaders[h].prev]]
  BY <1>5
<1>. HIDE DEF links
<1>7. \A h \in 1 .. N : links[h] = IF C[h] = 0 THEN {} ELSE {h} \cup links[P[h]]
  <2>1. \A h \in 1 .. N : links[h] = IF r.BlockHeaders[h].chain_id = MAIN_CHAIN_ID THEN {}
                                     ELSE {h} \cup links[r.BlockHeaders[h].prev]
    BY <1>2, <1>6
  <2>. QED BY <1>3, <2>1 DEF MAIN_CHAIN_ID
<1>8. \E b : PathTo(N, P, C, H, tip, links[tip], b)
  BY <1>1, <1>7, PathExists
<1>. QED BY <1>0, <1>4, <1>8

(* The headers after the swap.                                             *)
Relabelled(bh, M, R, f) ==
    [h \in DOMAIN bh |-> IF h \in M THEN [bh[h] EXCEPT !.chain_id = MAIN_CHAIN_ID]
                         ELSE IF h \in R THEN [bh[h] EXCEPT !.chain_id = f]
                         ELSE bh[h]]

(* The swap changes the chain of headers and nothing else in them.         *)
LEMMA RechainHeaders ==
    ASSUME NEW bh \in Seq(RichBlockHeader), NEW M, NEW R, NEW f \in Nat
    PROVE  LET G == Relabelled(bh, M, R, f)
               N == Len(bh)
           IN
           /\ G \in Seq(RichBlockHeader) /\ Len(G) = N
           /\ \A h \in 1 .. N : /\ SameHeader(G[h], bh[h])
                                /\ G[h].chain_id = IF h \in M THEN 0 ELSE IF h \in R THEN f
                                                   ELSE bh[h].chain_id
<1>0. PICK N, G : N = Len(bh) /\ G = Relabelled(bh, M, R, f)
  OBVIOUS
<1>1. DOMAIN bh = 1 .. N /\ N \in Nat /\ \A h \in 1 .. N : bh[h] \in RichBlockHeader
  BY <1>0
<1>2. ASSUME NEW h \in 1 .. N
      PROVE  /\ G[h] \in RichBlockHeader
             /\ SameHeader(G[h], bh[h])
             /\ G[h].chain_id = IF h \in M THEN 0 ELSE IF h \in R THEN f ELSE bh[h].chain_id
  <2>1. G[h] = IF h \in M THEN [bh[h] EXCEPT !.chain_id = MAIN_CHAIN_ID]
               ELSE IF h \in R THEN [bh[h] EXCEPT !.chain_id = f] ELSE bh[h]
    BY <1>0, <1>1 DEF Relabelled
  <2>2. PICK x, y : x = bh[h] /\ y = G[h]
    OBVIOUS
  <2>3. x \in RichBlockHeader
    BY <1>1, <2>2
  <2>4. CASE h \in M
    <3>1. y = [x EXCEPT !.chain_id = 0]
      BY <2>1, <2>2, <2>4 DEF MAIN_CHAIN_ID
    <3>2. y \in RichBlockHeader /\ SameHeader(y, x) /\ y.chain_id = 0
      BY <2>3, <3>1 DEF RichBlockHeader, SameHeader
    <3>. QED BY <2>2, <2>4, <3>2
  <2>5. CASE h \notin M /\ h \in R
    <3>1. y = [x EXCEPT !.chain_id = f]
      BY <2>1, <2>2, <2>5
    <3>2. y \in RichBlockHeader /\ SameHeader(y, x) /\ y.chain_id = f
      BY <2>3, <3>1 DEF RichBlockHeader, SameHeader
    <3>. QED BY <2>2, <2>5, <3>2
  <2>6. CASE h \notin M /\ h \notin R
    <3>1. y = x
      BY <2>1, <2>2, <2>6
    <3>. QED BY <2>2, <2>3, <2>6, <3>1 DEF SameHeader
  <2>. QED BY <2>4, <2>5, <2>6
<1>3. G = [h \in 1 .. N |-> G[h]]
  BY <1>0, <1>1 DEF Relabelled
<1>4. G \in [1 .. N -> RichBlockHeader]
  BY <1>2, <1>3
<1>5. G \in Seq(RichBlockHeader) /\ Len(G) = N
  BY <1>1, <1>4, SeqDef, LenProperties
<1>. QED BY <1>0, <1>2, <1>5

(* swap_main_blockchain keeps the tree and makes the end of the fork the   *)
(* best block.                                                             *)
LEMMA SwapStored ==
    ASSUME NEW r, NEW s, Stored(r, s), NEW f \in 1 .. r.ChainCounter - 1, NEW tip \in Headers(r),
           r.BlockHeaders[tip].chain_id = f, r.BlockHeaders[tip].block_height = max_height(r, f),
           max_height(r, 0) < max_height(r, f), \A h \in Headers(r) : r.BlockHeaders[h].prev # tip
    PROVE  LET q == swap_main_blockchain(r, f) IN
           /\ Stored(q, s) /\ Headed(q) /\ q.BestBlock = tip /\ q.BestBlockHeight = max_height(r, f)
           /\ Len(q.BlockHeaders) = Len(r.BlockHeaders)
           /\ \A h \in Headers(r) : SameHeader(q.BlockHeaders[h], r.BlockHeaders[h])
<1>0. PICK N, P, C, H, k, B, T, X :
         /\ N = Len(r.BlockHeaders) /\ P = Prevs(r) /\ C = ChainIds(r)
         /\ H = Heights(r) /\ k = r.ChainCounter /\ B = Starts(r)
         /\ T = Tops(r) /\ X = r.ChainsHashes
  OBVIOUS
<1>1. /\ Tree(N, P, C, H, k, B, T, s) /\ Indexed(N, C, H, X) /\ Listed(k, r.Chains) /\ Shaped(r)
      /\ N \in Nat /\ k \in Nat /\ r.BlockHeaders \in Seq(RichBlockHeader)
      /\ r.ChainsIndex \in [0 .. k - 1 -> BlockChain] /\ DOMAIN r.BlockHeaders = 1 .. N
      /\ DOMAIN r.ChainsIndex = 0 .. k - 1
  BY <1>0 DEF Stored, Shaped, TreeOf
<1>2. /\ \A h \in 1 .. N : /\ r.BlockHeaders[h].prev = P[h]
                           /\ r.BlockHeaders[h].chain_id = C[h]
                           /\ r.BlockHeaders[h].block_height = H[h]
      /\ \A i \in 0 .. k - 1 : /\ r.ChainsIndex[i].start_height = B[i]
                               /\ r.ChainsIndex[i].max_height = T[i]
  BY <1>0 DEF Prevs, ChainIds, Heights, Headers, Starts, Tops
<1>3. /\ f \in 1 .. k - 1 /\ f \in 0 .. k - 1 /\ f # 0 /\ f \in Nat /\ 0 \in 0 .. k - 1
      /\ tip \in 1 .. N
  BY <1>0, <1>1 DEF Headers
<1>4. /\ C[tip] = f /\ H[tip] = T[f] /\ T[0] < T[f] /\ \A h \in 1 .. N : P[h] # tip
      /\ max_height(r, f) = T[f]
  BY <1>0, <1>2, <1>3 DEF max_height, Headers
<1>5. X[<<f, T[f]>>] = tip
  <2>1. <<C[tip], H[tip]>> = <<f, T[f]>>
    BY <1>4
  <2>. QED BY <1>1, <1>3, <2>1 DEF Indexed
<1>6. PICK M : M = links_to_main(r, tip)
  OBVIOUS
<1>7. PICK b : PathTo(N, P, C, H, tip, M, b)
  <2>1. ChainIds(r)[tip] # 0
    BY <1>0, <1>3, <1>4
  <2>2. \E b : PathTo(Len(r.BlockHeaders), Prevs(r), ChainIds(r), Heights(r), tip,
                      links_to_main(r, tip), b)
    BY <2>1, LinksToMain
  <2>. QED BY <1>0, <1>6, <2>2
<1>8. Overtaking(N, P, C, H, k, B, T, s, f, tip, M, b)
  BY <1>1, <1>3, <1>4, <1>7 DEF Overtaking
<1>9. PICK R : R = {h \in 1 .. N : C[h] = 0 /\ H[b] < H[h]}
  OBVIOUS
<1>10. PICK D : D = Rechained(N, C, H, f, M, b)
  OBVIOUS
<1>11. /\ M \subseteq 1 .. N /\ R \subseteq 1 .. N /\ (\A h \in M : D[h] = 0 /\ h \notin R)
       /\ (\A h \in R : D[h] = f /\ h \notin M)
       /\ (\A h \in 1 .. N : D[h] = IF h \in M THEN 0 ELSE IF h \in R THEN f ELSE C[h])
  <2>1. M \subseteq 1 .. N /\ \A h \in M : C[h] # 0
    BY <1>8, PathFacts
  <2>2. \A h \in 1 .. N : D[h] = IF h \in M THEN 0 ELSE IF h \in R THEN f ELSE C[h]
    BY <1>9, <1>10 DEF Rechained
  <2>. QED BY <1>9, <2>1, <2>2
<1>12. \A x : x \in R <=> \E h \in M : <<0, H[h]>> \in DOMAIN X /\ x = X[<<0, H[h]>>]
  <2>1. ASSUME NEW x \in R PROVE \E h \in M : <<0, H[h]>> \in DOMAIN X /\ x = X[<<0, H[h]>>]
    <3>1. x \in 1 .. N /\ C[x] = 0 /\ H[b] < H[x]
      BY <1>9
    <3>2. H[x] \in Nat /\ H[x] <= T[0]
      BY <1>1, <3>1, TreeTypes DEF Tree, Filled
    <3>3. H[x] <= H[tip]
      BY <1>4, <1>8, <3>2, PathBase
    <3>4. PICK h \in M : H[h] = H[x]
      BY <1>7, <3>1, <3>2, <3>3 DEF PathTo
    <3>5. <<C[x], H[x]>> = <<0, H[h]>>
      BY <3>1, <3>4
    <3>6. <<C[x], H[x]>> \in DOMAIN X /\ X[<<C[x], H[x]>>] = x
      BY <1>1, <3>1 DEF Indexed
    <3>. QED BY <3>5, <3>6
  <2>2. ASSUME NEW h \in M, <<0, H[h]>> \in DOMAIN X PROVE X[<<0, H[h]>>] \in R
    <3>1. PICK x : x = X[<<0, H[h]>>]
      OBVIOUS
    <3>2. x \in 1 .. N /\ <<0, H[h]>> = <<C[x], H[x]>>
      BY <1>1, <2>2, <3>1 DEF Indexed
    <3>3. H[b] < H[h]
      BY <1>8, PathFacts
    <3>4. C[x] = 0 /\ H[x] = H[h]
      BY <3>2
    <3>. QED BY <1>9, <3>1, <3>2, <3>3, <3>4
  <2>. QED BY <2>1, <2>2
<1>. DEFINE top == max_height(r, f)
            head == r.ChainsHashes[<<f, top>>]
            moved == links_to_main(r, head)
            key(h) == <<r.BlockHeaders[h].chain_id, r.BlockHeaders[h].block_height>>
            parent(h) == r.BlockHeaders[r.BlockHeaders[h].prev]
            main_key(h) == <<MAIN_CHAIN_ID, r.BlockHeaders[h].block_height>>
            replaced == {r.ChainsHashes[x] : x \in DOMAIN r.ChainsHashes
                                                 \cap {main_key(h) : h \in moved}}
            new_key(h) == IF h \in moved THEN main_key(h)
                          ELSE <<f, r.BlockHeaders[h].block_height>>
            new_keys == {new_key(h) : h \in moved \cup replaced}
            branches(id) == {h \in moved : parent(h).chain_id = id
                                          /\ parent(h).chain_id # r.BlockHeaders[h].chain_id}
            start(id) == start_height_above(parent(CHOOSE h \in branches(id) : TRUE))
            index(id) ==
                IF id = MAIN_CHAIN_ID THEN [r.ChainsIndex[id] EXCEPT !.max_height = top]
                ELSE IF id = f
                THEN [r.ChainsIndex[MAIN_CHAIN_ID] EXCEPT !.start_height = start(MAIN_CHAIN_ID)]
                ELSE IF branches(id) # {} THEN [r.ChainsIndex[id] EXCEPT !.start_height = start(id)]
                ELSE r.ChainsIndex[id]
            headers == [h \in DOMAIN r.BlockHeaders |->
                           IF h \in moved THEN [r.BlockHeaders[h] EXCEPT !.chain_id = MAIN_CHAIN_ID]
                           ELSE IF h \in replaced THEN [r.BlockHeaders[h] EXCEPT !.chain_id = f]
                           ELSE r.BlockHeaders[h]]
            hashes == [x \in (DOMAIN r.ChainsHashes \ {key(h) : h \in moved}) \cup new_keys |->
                          IF x \in new_keys
                          THEN CHOOSE h \in moved \cup replaced : new_key(h) = x
                          ELSE r.ChainsHashes[x]]
            indices == [id \in DOMAIN r.ChainsIndex |-> index(id)]
            u == [r EXCEPT !.BestBlock = head, !.BestBlockHeight = top, !.BlockHeaders = headers,
                           !.ChainsHashes = hashes, !.ChainsIndex = indices]
<1>13. swap_main_blockchain(r, f) = resort(u, f)
  BY DEF swap_main_blockchain
<1>14. top = T[f] /\ head = tip /\ moved = M
  <2>1. top = T[f]
    BY <1>4
  <2>2. head = tip
    BY <1>0, <1>5, <2>1
  <2>. QED BY <1>6, <2>1, <2>2
<1>. HIDE DEF top, head, moved
<1>15. \A h \in 1 .. N : key(h) = <<C[h], H[h]>> /\ main_key(h) = <<0, H[h]>>
  BY <1>2 DEF MAIN_CHAIN_ID
<1>16. replaced = R
  <2>1. ASSUME NEW x PROVE x \in replaced <=> x \in R
    <3>1. x \in replaced <=> \E h \in M : main_key(h) \in DOMAIN X /\ x = X[main_key(h)]
      BY <1>0, <1>14
    <3>2. \A h \in M : main_key(h) = <<0, H[h]>>
      BY <1>11, <1>15
    <3>. HIDE DEF replaced, main_key
    <3>. QED BY <1>12, <3>1, <3>2, ZenonT(30)
  <2>. HIDE DEF replaced
  <2>. QED BY <2>1
<1>17. PICK G : G = headers
  OBVIOUS
<1>18. /\ G \in Seq(RichBlockHeader) /\ Len(G) = N
       /\ \A h \in 1 .. N : /\ SameHeader(G[h], r.BlockHeaders[h])
                            /\ G[h].chain_id = D[h]
  <2>1. G = Relabelled(r.BlockHeaders, M, R, f)
    <3>. HIDE DEF replaced
    <3>. QED BY <1>14, <1>16, <1>17 DEF Relabelled
  <2>2. PICK bh : bh = r.BlockHeaders
    OBVIOUS
  <2>3. bh \in Seq(RichBlockHeader) /\ N = Len(bh) /\ f \in Nat /\ G = Relabelled(bh, M, R, f)
    BY <1>0, <1>1, <1>3, <2>1, <2>2
  <2>4. /\ G \in Seq(RichBlockHeader) /\ Len(G) = N
        /\ \A h \in 1 .. N : /\ SameHeader(G[h], bh[h])
                             /\ G[h].chain_id = IF h \in M THEN 0 ELSE IF h \in R THEN f
                                                ELSE bh[h].chain_id
    BY <2>3, RechainHeaders
  <2>. QED BY <1>2, <1>11, <2>2, <2>4
<1>19. PICK K : K = {<<D[h], H[h]>> : h \in M \cup R}
  OBVIOUS
<1>20. \A h \in M \cup R : new_key(h) = <<D[h], H[h]>>
  BY <1>2, <1>11, <1>14, <1>15
<1>21. new_keys = K
  <2>. HIDE DEF new_key, replaced
  <2>. QED BY <1>14, <1>16, <1>19, <1>20
<1>22. PICK Y : Y = hashes
  OBVIOUS
<1>23. /\ DOMAIN Y = (DOMAIN X \ {<<C[h], H[h]>> : h \in M}) \cup K
       /\ \A x \in DOMAIN Y : IF x \in K THEN Y[x] \in M \cup R /\ <<D[Y[x]], H[Y[x]]>> = x
                              ELSE Y[x] = X[x]
  <2>1. {key(h) : h \in moved} = {<<C[h], H[h]>> : h \in M}
    <3>. HIDE DEF key
    <3>. QED BY <1>11, <1>14, <1>15
  <2>2. Y = [x \in (DOMAIN X \ {<<C[h], H[h]>> : h \in M}) \cup K |->
                IF x \in K THEN CHOOSE h \in M \cup R : new_key(h) = x ELSE X[x]]
    <3>. HIDE DEF key, new_key, new_keys, replaced
    <3>. QED BY <1>0, <1>14, <1>16, <1>21, <1>22, <2>1
  <2>3. ASSUME NEW x \in K
        PROVE  LET g == CHOOSE h \in M \cup R : new_key(h) = x
               IN  g \in M \cup R /\ <<D[g], H[g]>> = x
    <3>1. \E h \in M \cup R : new_key(h) = x
      BY <1>19, <1>20
    <3>. HIDE DEF new_key
    <3>. QED BY <1>20, <3>1
  <2>. HIDE DEF new_key
  <2>. QED BY <2>2, <2>3
<1>24. PICK I : I = indices
  OBVIOUS
<1>25. \A h \in M : /\ P[h] \in 1 .. N /\ parent(h).chain_id = C[P[h]]
                    /\ parent(h).block_height = H[P[h]]
  <2>1. \A h \in M : h \in 1 .. N /\ P[h] \in 1 .. N
    BY <1>8, PathFacts
  <2>. QED BY <1>2, <2>1
<1>26. \A i : branches(i) = {h \in M : C[P[h]] = i /\ C[h] # i}
  <2>1. \A h \in M : parent(h).chain_id = C[P[h]] /\ r.BlockHeaders[h].chain_id = C[h]
    BY <1>2, <1>11, <1>25
  <2>2. ASSUME NEW i, NEW h PROVE h \in branches(i) <=> h \in M /\ C[P[h]] = i /\ C[h] # i
    <3>. HIDE DEF parent
    <3>. QED BY <1>14, <2>1
  <2>. HIDE DEF branches
  <2>. QED BY <2>2
<1>27. \A i : branches(i) # {} => \E h \in branches(i) : start(i) = H[P[h]] + 1
  <2>. HIDE DEF parent
  <2>1. \A h \in M : start_height_above(parent(h)) = H[P[h]] + 1
    BY <1>25 DEF start_height_above
  <2>2. \A i : branches(i) \subseteq M
    BY <1>14
  <2>3. ASSUME NEW i, branches(i) # {} PROVE \E h \in branches(i) : start(i) = H[P[h]] + 1
    <3>1. (CHOOSE h \in branches(i) : TRUE) \in branches(i)
      BY <2>3
    <3>. HIDE DEF branches
    <3>. QED BY <2>1, <2>2, <3>1
  <2>. QED BY <2>3
<1>. HIDE DEF branches, start, parent
<1>28. I = [i \in 0 .. k - 1 |-> IF i = 0 THEN [r.ChainsIndex[0] EXCEPT !.max_height = T[f]]
            ELSE IF i = f THEN [r.ChainsIndex[0] EXCEPT !.start_height = start(0)]
            ELSE IF branches(i) # {} THEN [r.ChainsIndex[i] EXCEPT !.start_height = start(i)]
            ELSE r.ChainsIndex[i]]
  BY <1>1, <1>14, <1>24 DEF MAIN_CHAIN_ID
<1>29. start(0) = H[b] + 1
  <2>1. \E h \in M : C[P[h]] = 0
    BY <1>8, PathBase
  <2>2. \A h \in M : C[h] # 0
    BY <1>8, PathFacts
  <2>3. branches(0) # {}
    BY <1>26, <2>1, <2>2
  <2>4. PICK h \in branches(0) : start(0) = H[P[h]] + 1
    BY <1>27, <2>3
  <2>5. h \in M /\ C[P[h]] = 0
    BY <1>26
  <2>6. P[h] = b
    BY <1>8, <2>5, PathFacts
  <2>. QED BY <2>4, <2>6
<1>30. ASSUME NEW i \in 1 .. k - 1, branches(i) # {} PROVE start(i) \in Nat
  <2>1. PICK h \in branches(i) : start(i) = H[P[h]] + 1
    BY <1>27, <1>30
  <2>2. h \in M
    BY <1>26
  <2>3. H[P[h]] \in Nat
    BY <1>1, <1>25, <2>2, TreeTypes
  <2>. QED BY <2>1, <2>3
<1>31. PICK A, E : /\ A = r.ChainsIndex /\ E = [i \in 0 .. k - 1 |-> I[i].start_height]
  OBVIOUS
<1>32. /\ A \in [0 .. k - 1 -> BlockChain]
       /\ \A i \in 0 .. k - 1 : A[i].start_height = B[i] /\ A[i].max_height = T[i]
       /\ \A i \in 0 .. k - 1 : A[i] \in BlockChain /\ B[i] \in Nat /\ T[i] \in Nat
  <2>1. \A i \in 0 .. k - 1 : B[i] \in Nat /\ T[i] \in Nat
    BY <1>1, TreeTypes
  <2>. QED BY <1>1, <1>2, <1>31, <2>1
<1>33. H[b] + 1 \in Nat
  BY <1>8, PathBase
<1>34. /\ I[0] \in BlockChain /\ I[0].start_height = B[0] /\ I[0].max_height = T[f]
  <2>1. I[0] = [A[0] EXCEPT !.max_height = T[f]]
    BY <1>3, <1>28, <1>31
  <2>2. A[0] \in BlockChain /\ T[f] \in Nat /\ A[0].start_height = B[0]
    BY <1>3, <1>32
  <2>. QED BY <2>1, <2>2 DEF BlockChain
<1>35. /\ I[f] \in BlockChain /\ I[f].start_height = H[b] + 1 /\ I[f].max_height = T[0]
  <2>1. I[f] = [A[0] EXCEPT !.start_height = H[b] + 1]
    BY <1>3, <1>28, <1>29, <1>31
  <2>2. A[0] \in BlockChain /\ A[0].max_height = T[0]
    BY <1>3, <1>32
  <2>. QED BY <1>33, <2>1, <2>2 DEF BlockChain
<1>36. ASSUME NEW i \in 1 .. k - 1, i # f
       PROVE  /\ I[i] \in BlockChain /\ I[i].max_height = T[i]
              /\ NewStart(P, C, H, B, M, i, I[i].start_height)
  <2>0. i \in 0 .. k - 1 /\ i # 0 /\ A[i] \in BlockChain
    BY <1>1, <1>32
  <2>1. CASE branches(i) # {}
    <3>1. I[i] = [A[i] EXCEPT !.start_height = start(i)]
      BY <1>28, <1>31, <1>36, <2>0, <2>1
    <3>2. start(i) \in Nat
      BY <1>30, <2>1
    <3>3. I[i] \in BlockChain /\ I[i].max_height = A[i].max_height /\ I[i].start_height = start(i)
      BY <2>0, <3>1, <3>2 DEF BlockChain
    <3>4. \E h \in M : C[P[h]] = i /\ C[h] # i /\ start(i) = H[P[h]] + 1
      BY <1>26, <1>27, <2>1
    <3>. QED BY <1>32, <2>0, <3>3, <3>4 DEF NewStart
  <2>2. CASE branches(i) = {}
    <3>1. I[i] = A[i]
      BY <1>28, <1>31, <1>36, <2>0, <2>2
    <3>2. \A h \in M : C[P[h]] = i => C[h] = i
      BY <1>26, <2>2
    <3>. QED BY <1>32, <2>0, <3>1, <3>2 DEF NewStart
  <2>. QED BY <2>1, <2>2
<1>37. \A i \in 0 .. k - 1 : i = 0 \/ i = f \/ (i \in 1 .. k - 1 /\ i # f)
  BY <1>1
<1>38. I \in [0 .. k - 1 -> BlockChain]
  <2>1. \A i \in 0 .. k - 1 : I[i] \in BlockChain
    BY <1>34, <1>35, <1>36, <1>37
  <2>2. I = [i \in 0 .. k - 1 |-> I[i]]
    BY <1>28
  <2>. QED BY <2>1, <2>2
<1>39. Restarted(P, C, H, k, B, f, M, b, E)
  <2>1. E \in [0 .. k - 1 -> Nat]
    BY <1>31, <1>38 DEF BlockChain
  <2>2. E[0] = B[0] /\ E[f] = H[b] + 1
    BY <1>3, <1>31, <1>34, <1>35
  <2>3. \A i \in 1 .. k - 1 : i \in 0 .. k - 1
    BY <1>1
  <2>4. \A i \in 1 .. k - 1 : i # f => NewStart(P, C, H, B, M, i, E[i])
    BY <1>31, <1>36, <2>3
  <2>. QED BY <2>1, <2>2, <2>4 DEF Restarted
<1>40. [i \in 0 .. k - 1 |-> I[i].max_height] = Exchanged(k, T, f)
  BY <1>34, <1>35, <1>36, <1>37 DEF Exchanged
<1>41. Tree(N, P, D, H, k, E, Exchanged(k, T, f), s)
  BY <1>8, <1>10, <1>39, SwapTree
<1>42. Indexed(N, D, H, Y)
  <2>1. Unique(N, D, H) /\ Indexed(N, C, H, X)
    BY <1>1, <1>41 DEF Tree
  <2>2. Reindexed(C, D, H, M, Displaced(N, C, H, b), X, Y)
    <3>1. Displaced(N, C, H, b) = R
      BY <1>9 DEF Displaced
    <3>2. Reindexed(C, D, H, M, R, X, Y)
      BY <1>19, <1>23 DEF Reindexed
    <3>. QED BY <3>1, <3>2
  <2>. QED BY <1>8, <1>10, <2>1, <2>2, SwapIndexed
<1>43. u = [BlockHeaders |-> G, ChainCounter |-> k, Chains |-> r.Chains, ChainsIndex |-> I,
            ChainsHashes |-> Y, BestBlock |-> tip, BestBlockHeight |-> T[f]]
  <2>1. r = [BlockHeaders |-> r.BlockHeaders, ChainCounter |-> r.ChainCounter,
             Chains |-> r.Chains, ChainsIndex |-> r.ChainsIndex, ChainsHashes |-> r.ChainsHashes,
             BestBlock |-> r.BestBlock, BestBlockHeight |-> r.BestBlockHeight]
    BY <1>1 DEF Shaped
  <2>2. u = [r EXCEPT !.BestBlock = tip, !.BestBlockHeight = T[f], !.BlockHeaders = G,
                      !.ChainsHashes = Y, !.ChainsIndex = I]
    <3>. HIDE DEF headers, hashes, indices
    <3>. QED BY <1>14, <1>17, <1>22, <1>24
  <2>. HIDE DEF u
  <2>. QED BY <1>0, <2>1, <2>2
<1>. HIDE DEF u
<1>44. PICK Q : Listed(k, Q) /\ resort(u, f) = [u EXCEPT !.Chains = Q]
  <2>1. k \in Nat /\ Listed(k, r.Chains) /\ u.ChainCounter = k /\ u.Chains = r.Chains
    BY <1>1, <1>43
  <2>. QED BY <1>3, <2>1, ResortListed
<1>45. PICK q : q = [BlockHeaders |-> G, ChainCounter |-> k, Chains |-> Q, ChainsIndex |-> I,
                     ChainsHashes |-> Y, BestBlock |-> tip, BestBlockHeight |-> T[f]]
  OBVIOUS
<1>46. swap_main_blockchain(r, f) = q
  BY <1>13, <1>43, <1>44, <1>45
<1>47. /\ q.BlockHeaders = G /\ q.ChainCounter = k /\ q.Chains = Q /\ q.ChainsIndex = I
       /\ q.ChainsHashes = Y /\ q.BestBlock = tip /\ q.BestBlockHeight = T[f]
  BY <1>45
<1>48. \A h \in 1 .. N : G[h].prev = P[h] /\ G[h].block_height = H[h]
  BY <1>2, <1>18 DEF SameHeader
<1>49. Len(q.BlockHeaders) = N /\ Headers(q) = 1 .. N
  BY <1>18, <1>47 DEF Headers
<1>50. Prevs(q) = P /\ Heights(q) = H /\ ChainIds(q) = D
  <2>1. P = [h \in 1 .. N |-> P[h]] /\ H = [h \in 1 .. N |-> H[h]] /\ D = [h \in 1 .. N |-> D[h]]
    BY <1>0, <1>10 DEF Prevs, Heights, Headers, Rechained
  <2>2. Prevs(q) = [h \in 1 .. N |-> P[h]] /\ Heights(q) = [h \in 1 .. N |-> H[h]]
    BY <1>47, <1>48, <1>49 DEF Prevs, Heights
  <2>3. ChainIds(q) = [h \in 1 .. N |-> D[h]]
    BY <1>18, <1>47, <1>49 DEF ChainIds
  <2>. QED BY <2>1, <2>2, <2>3
<1>51. Starts(q) = E /\ Tops(q) = Exchanged(k, T, f)
  BY <1>31, <1>40, <1>47 DEF Starts, Tops
<1>52. Shaped(q)
  <2>1. q = [BlockHeaders |-> q.BlockHeaders, ChainCounter |-> q.ChainCounter,
             Chains |-> q.Chains, ChainsIndex |-> q.ChainsIndex, ChainsHashes |-> q.ChainsHashes,
             BestBlock |-> q.BestBlock, BestBlockHeight |-> q.BestBlockHeight]
    BY <1>45
  <2>2. /\ q.BlockHeaders \in Seq(RichBlockHeader) /\ q.ChainCounter \in Nat
        /\ q.ChainsIndex \in [0 .. q.ChainCounter - 1 -> BlockChain]
    BY <1>1, <1>18, <1>38, <1>47
  <2>. QED BY <2>1, <2>2 DEF Shaped
<1>53. Stored(q, s)
  <2>1. TreeOf(q, s)
    BY <1>41, <1>47, <1>49, <1>50, <1>51 DEF TreeOf
  <2>2. Indexed(Len(q.BlockHeaders), ChainIds(q), Heights(q), q.ChainsHashes)
    BY <1>42, <1>47, <1>49, <1>50
  <2>3. Listed(q.ChainCounter, q.Chains)
    BY <1>44, <1>47
  <2>. QED BY <1>52, <2>1, <2>2, <2>3 DEF Stored
<1>54. Headed(q)
  <2>1. tip \in 1 .. N /\ tip # 0 /\ k > 0 /\ T[f] \in Nat
    BY <1>1, <1>3, <1>32
  <2>2. D[tip] = 0
    BY <1>8, <1>11, PathFacts
  <2>3. Exchanged(k, T, f)[0] = T[f] /\ H[tip] = T[f]
    BY <1>3, <1>4 DEF Exchanged
  <2>. QED BY <1>47, <1>49, <1>50, <1>51, <2>1, <2>2, <2>3 DEF Headed
<1>55. \A h \in Headers(r) : SameHeader(q.BlockHeaders[h], r.BlockHeaders[h])
  BY <1>0, <1>18, <1>47 DEF Headers
<1>. QED BY <1>0, <1>4, <1>46, <1>47, <1>49, <1>53, <1>54, <1>55

(* The order of the chains is no part of the tree.                         *)
LEMMA ReorderStored ==
    ASSUME NEW r, NEW s, Stored(r, s), NEW M, Listed(r.ChainCounter, M)
    PROVE  LET q == [r EXCEPT !.Chains = M] IN
           /\ Stored(q, s) /\ q.BlockHeaders = r.BlockHeaders /\ q.ChainCounter = r.ChainCounter
           /\ q.ChainsIndex = r.ChainsIndex /\ q.ChainsHashes = r.ChainsHashes
           /\ q.BestBlock = r.BestBlock /\ q.BestBlockHeight = r.BestBlockHeight
           /\ Headed(r) => Headed(q)
<1>1. PICK q : q = [r EXCEPT !.Chains = M]
  OBVIOUS
<1>2. r = [BlockHeaders |-> r.BlockHeaders, ChainCounter |-> r.ChainCounter,
           Chains |-> r.Chains, ChainsIndex |-> r.ChainsIndex, ChainsHashes |-> r.ChainsHashes,
           BestBlock |-> r.BestBlock, BestBlockHeight |-> r.BestBlockHeight]
  BY DEF Stored, Shaped
<1>3. q = [BlockHeaders |-> r.BlockHeaders, ChainCounter |-> r.ChainCounter,
           Chains |-> M, ChainsIndex |-> r.ChainsIndex, ChainsHashes |-> r.ChainsHashes,
           BestBlock |-> r.BestBlock, BestBlockHeight |-> r.BestBlockHeight]
  BY <1>1, <1>2
<1>4. /\ q.BlockHeaders = r.BlockHeaders /\ q.ChainCounter = r.ChainCounter /\ q.Chains = M
      /\ q.ChainsIndex = r.ChainsIndex /\ q.ChainsHashes = r.ChainsHashes
      /\ q.BestBlock = r.BestBlock /\ q.BestBlockHeight = r.BestBlockHeight
  BY <1>3
<1>5. q = [BlockHeaders |-> q.BlockHeaders, ChainCounter |-> q.ChainCounter,
           Chains |-> q.Chains, ChainsIndex |-> q.ChainsIndex, ChainsHashes |-> q.ChainsHashes,
           BestBlock |-> q.BestBlock, BestBlockHeight |-> q.BestBlockHeight]
  BY <1>3, <1>4
<1>6. Shaped(q)
  BY <1>4, <1>5 DEF Stored, Shaped
<1>7. /\ Headers(q) = Headers(r) /\ Prevs(q) = Prevs(r) /\ ChainIds(q) = ChainIds(r)
      /\ Heights(q) = Heights(r) /\ Starts(q) = Starts(r) /\ Tops(q) = Tops(r)
  BY <1>4 DEF Headers, Prevs, ChainIds, Heights, Starts, Tops
<1>8. Stored(q, s)
  BY <1>4, <1>6, <1>7 DEF Stored, TreeOf
<1>9. Headed(r) => Headed(q)
  BY <1>4, <1>7 DEF Headed
<1>. QED BY <1>1, <1>4, <1>8, <1>9

(* reorganize_chains keeps the tree; it changes the chain of a header or   *)
(* the best block only if the best height grows by Confirmations.          *)
LEMMA ReorganizeStored ==
    ASSUME NEW r, NEW s, Stored(r, s), Headed(r), NEW f \in 1 .. r.ChainCounter - 1,
           NEW tip \in Headers(r), r.BlockHeaders[tip].chain_id = f,
           r.BlockHeaders[tip].block_height = max_height(r, f),
           \A h \in Headers(r) : r.BlockHeaders[h].prev # tip
    PROVE  LET q == reorganize_chains(r, f) IN
           /\ Stored(q, s) /\ Headed(q) /\ Len(q.BlockHeaders) = Len(r.BlockHeaders)
           /\ \A h \in Headers(r) : SameHeader(q.BlockHeaders[h], r.BlockHeaders[h])
           /\ \/ /\ q.BlockHeaders = r.BlockHeaders /\ q.BestBlock = r.BestBlock
                 /\ q.BestBlockHeight = r.BestBlockHeight
              \/ q.BestBlockHeight >= r.BestBlockHeight + Confirmations
<1>0. PICK k, L, T : k = r.ChainCounter /\ L = r.Chains /\ T = Tops(r)
  OBVIOUS
<1>1. /\ k \in Nat /\ Listed(k, L) /\ f \in 1 .. k - 1 /\ f # 0 /\ k > 0
      /\ \A i \in 0 .. k - 1 : T[i] \in Nat /\ max_height(r, i) = T[i]
  <2>1. k \in Nat /\ Listed(k, L) /\ TreeOf(r, s)
    BY <1>0 DEF Stored, Shaped
  <2>2. \A i \in 0 .. k - 1 : T[i] \in Nat
    BY <1>0, <2>1, TreeTypes DEF TreeOf
  <2>3. \A i \in 0 .. k - 1 : max_height(r, i) = T[i]
    BY <1>0 DEF Tops, max_height
  <2>. QED BY <1>0, <2>1, <2>2, <2>3
<1>2. /\ \A p \in 0 .. k - 1 : L[p] \in 0 .. k - 1
      /\ \E p \in 0 .. k - 1 : L[p] = f
      /\ L[0] = 0 /\ DOMAIN L = 0 .. k - 1
  <2>1. f \in 0 .. k - 1
    BY <1>1
  <2>. QED BY <1>1, <2>1 DEF Listed
<1>. DEFINE position == CHOOSE p \in DOMAIN r.Chains : r.Chains[p] = f
            height(p) == max_height(r, r.Chains[p])
            passes(p) == r.Chains[p] # MAIN_CHAIN_ID /\ height(p) < height(p + 1)
            fits(t) == /\ \A p \in t .. position - 1 : passes(p)
                       /\ t > 0 => ~passes(t - 1)
            top == CHOOSE t \in 0 .. position :
                      /\ \A p \in t .. position - 1 : passes(p)
                      /\ t > 0 => ~passes(t - 1)
            M == move(r.Chains, position, top)
            moved == [r EXCEPT !.Chains = M]
<1>3. position \in 0 .. k - 1 /\ L[position] = f
  BY <1>0, <1>2
<1>4. position > 0
  <2>. HIDE DEF position
  <2>. QED BY <1>1, <1>2, <1>3
<1>. HIDE DEF position
<1>5. \A p \in 0 .. k - 1 : height(p) = T[L[p]] /\ height(p) \in Nat
  BY <1>0, <1>1, <1>2
<1>6. \E t \in 0 .. position : fits(t)
  <2>. DEFINE S == {t \in 0 .. position : \A p \in t .. position - 1 : passes(p)}
  <2>. HIDE DEF passes
  <2>1. S \subseteq Nat /\ position \in S
    BY <1>1, <1>3
  <2>2. PICK t \in S : \A d \in S : t <= d
    BY <2>1, LeastNat
  <2>3. ASSUME t > 0, passes(t - 1) PROVE FALSE
    <3>1. t - 1 \in 0 .. position /\ ~(t <= t - 1) /\ position \in Nat
      BY <1>1, <1>3, <2>2, <2>3
    <3>2. \A p \in t - 1 .. position - 1 : p = t - 1 \/ p \in t .. position - 1
      BY <3>1
    <3>3. t - 1 \in S
      BY <2>2, <2>3, <3>1, <3>2
    <3>. QED BY <2>2, <3>1, <3>3
  <2>. QED BY <2>2, <2>3
<1>7. top \in 0 .. position /\ fits(top)
  <2>1. top = CHOOSE t \in 0 .. position : fits(t)
    OBVIOUS
  <2>. HIDE DEF fits, top
  <2>. QED BY <1>6, <2>1
<1>. HIDE DEF top
<1>8. top > 0
  <2>1. ~passes(0)
    BY <1>0, <1>2 DEF MAIN_CHAIN_ID
  <2>. HIDE DEF passes
  <2>2. top = 0 => 0 \in top .. position - 1
    BY <1>1, <1>3, <1>4
  <2>. QED BY <1>7, <2>1, <2>2
<1>9. position \in 0 .. k - 1 /\ top \in 0 .. k - 1 /\ top - 1 \in 0 .. k - 1 /\ top <= position
  BY <1>1, <1>3, <1>7, <1>8
<1>10. height(top) <= height(position)
  <2>. DEFINE S == {n \in Nat : n <= position - top => height(position - n) <= height(position)}
  <2>1. 0 \in S
    <3>1. position - 0 = position
      BY <1>1, <1>3
    <3>2. height(position) \in Nat
      BY <1>3, <1>5
    <3>. HIDE DEF height
    <3>. QED BY <3>1, <3>2
  <2>2. ASSUME NEW n \in Nat, n \in S PROVE n + 1 \in S
    <3>1. SUFFICES ASSUME n + 1 <= position - top
                   PROVE  height(position - (n + 1)) <= height(position)
      OBVIOUS
    <3>2. PICK p, q : p = position - (n + 1) /\ q = position - n
      OBVIOUS
    <3>3. /\ p \in top .. position - 1 /\ q = p + 1 /\ p \in 0 .. k - 1 /\ q \in 0 .. k - 1
          /\ n <= position - top
      BY <1>1, <1>3, <1>9, <3>1, <3>2
    <3>4. passes(p)
      BY <1>7, <3>3
    <3>5. height(p) < height(q)
      BY <3>3, <3>4
    <3>6. height(p) \in Nat /\ height(q) \in Nat /\ height(position) \in Nat
      BY <1>3, <1>5, <3>3
    <3>7. height(q) <= height(position)
      BY <2>2, <3>2, <3>3
    <3>. HIDE DEF height
    <3>. QED BY <3>2, <3>5, <3>6, <3>7
  <2>. HIDE DEF S
  <2>3. Nat \subseteq S
    BY <2>1, <2>2, NatSetInduction
  <2>4. position - top \in Nat /\ position - (position - top) = top
    BY <1>1, <1>3, <1>9
  <2>5. PICK n \in Nat : n = position - top /\ position - n = top
    BY <2>4
  <2>6. n \in S /\ n <= position - top
    BY <2>3, <2>5
  <2>7. height(position - n) <= height(position)
    BY <2>6 DEF S
  <2>. QED BY <2>5, <2>7
<1>11. Listed(k, M)
  BY <1>0, <1>1, <1>4, <1>8, <1>9, MoveListed
<1>. HIDE DEF M
<1>12. PICK m : m = moved
  OBVIOUS
<1>13. /\ Stored(m, s) /\ m.BlockHeaders = r.BlockHeaders /\ m.ChainCounter = r.ChainCounter
       /\ m.ChainsIndex = r.ChainsIndex /\ m.BestBlock = r.BestBlock
       /\ m.BestBlockHeight = r.BestBlockHeight /\ Headed(m)
  BY <1>0, <1>11, <1>12, ReorderStored
<1>14. reorganize_chains(r, f) =
           IF /\ top > 0 /\ r.Chains[top - 1] = MAIN_CHAIN_ID
              /\ overtakes(height(top), height(top - 1))
           THEN swap_main_blockchain(m, f) ELSE m
  BY <1>12 DEF reorganize_chains, position, top, M
<1>15. ASSUME r.Chains[top - 1] = MAIN_CHAIN_ID, overtakes(height(top), height(top - 1))
       PROVE  T[0] < T[f] /\ T[0] + Confirmations <= T[f]
  <2>1. height(top - 1) = T[0] /\ height(position) = T[f]
    BY <1>0, <1>3, <1>5, <1>9, <1>15 DEF MAIN_CHAIN_ID
  <2>2. height(top) \in Nat /\ height(position) \in Nat /\ T[0] \in Nat /\ Confirmations \in Nat
    BY <1>3, <1>5, <1>9, <2>1, RelayAssumption
  <2>. HIDE DEF height
  <2>. QED BY <1>10, <1>15, <2>1, <2>2 DEF overtakes
<1>16. CASE r.Chains[top - 1] = MAIN_CHAIN_ID /\ overtakes(height(top), height(top - 1))
  <2>1. reorganize_chains(r, f) = swap_main_blockchain(m, f)
    <3>. HIDE DEF height
    <3>. QED BY <1>8, <1>14, <1>16
  <2>2. PICK q : q = swap_main_blockchain(m, f)
    OBVIOUS
  <2>3. /\ \A i \in 0 .. k - 1 : max_height(m, i) = T[i]
        /\ Headers(m) = Headers(r)
    BY <1>1, <1>13 DEF max_height, Headers
  <2>4. 0 \in 0 .. k - 1 /\ f \in 0 .. k - 1
    BY <1>1
  <2>5. /\ f \in 1 .. m.ChainCounter - 1 /\ tip \in Headers(m) /\ m.BlockHeaders[tip].chain_id = f
        /\ m.BlockHeaders[tip].block_height = max_height(m, f)
        /\ max_height(m, 0) < max_height(m, f)
        /\ \A h \in Headers(m) : m.BlockHeaders[h].prev # tip
    <3>1. T[0] < T[f]
      BY <1>15, <1>16
    <3>. QED BY <1>1, <1>13, <2>3, <2>4, <3>1
  <2>6. /\ Stored(q, s) /\ Headed(q) /\ q.BestBlockHeight = max_height(m, f)
        /\ Len(q.BlockHeaders) = Len(m.BlockHeaders)
        /\ \A h \in Headers(m) : SameHeader(q.BlockHeaders[h], m.BlockHeaders[h])
    BY <1>13, <2>2, <2>5, SwapStored
  <2>7. r.BestBlockHeight = T[0]
    BY <1>0, <1>1, <2>4 DEF Headed
  <2>8. q.BestBlockHeight >= r.BestBlockHeight + Confirmations
    <3>1. q.BestBlockHeight = T[f] /\ T[f] \in Nat /\ T[0] \in Nat /\ Confirmations \in Nat
      BY <1>1, <2>3, <2>4, <2>6, RelayAssumption
    <3>2. T[0] + Confirmations <= T[f]
      BY <1>15, <1>16
    <3>. QED BY <2>7, <3>1, <3>2
  <2>. QED BY <1>13, <2>1, <2>2, <2>3, <2>6, <2>8
<1>17. CASE ~(r.Chains[top - 1] = MAIN_CHAIN_ID /\ overtakes(height(top), height(top - 1)))
  <2>1. reorganize_chains(r, f) = m
    <3>. HIDE DEF height
    <3>. QED BY <1>14, <1>17
  <2>2. \A h \in Headers(r) : SameHeader(m.BlockHeaders[h], r.BlockHeaders[h])
    BY <1>13 DEF SameHeader
  <2>. QED BY <1>13, <2>1, <2>2
<1>. QED BY <1>16, <1>17

(* update_chain_head leaves the tree alone.                                *)
LEMMA HeadStored ==
    ASSUME NEW r, NEW s, Stored(r, s), NEW hash, NEW n
    PROVE  LET q == update_chain_head(r, hash, n) IN
           /\ Stored(q, s) /\ q.BlockHeaders = r.BlockHeaders /\ q.ChainCounter = r.ChainCounter
           /\ q.ChainsIndex = r.ChainsIndex /\ q.BestBlock = hash /\ q.BestBlockHeight = n
<1>1. PICK q : q = update_chain_head(r, hash, n)
  OBVIOUS
<1>2. r = [BlockHeaders |-> r.BlockHeaders, ChainCounter |-> r.ChainCounter,
           Chains |-> r.Chains, ChainsIndex |-> r.ChainsIndex, ChainsHashes |-> r.ChainsHashes,
           BestBlock |-> r.BestBlock, BestBlockHeight |-> r.BestBlockHeight]
  BY DEF Stored, Shaped
<1>3. q = [BlockHeaders |-> r.BlockHeaders, ChainCounter |-> r.ChainCounter,
           Chains |-> r.Chains, ChainsIndex |-> r.ChainsIndex, ChainsHashes |-> r.ChainsHashes,
           BestBlock |-> hash, BestBlockHeight |-> n]
  BY <1>1, <1>2 DEF update_chain_head
<1>4. /\ q.BlockHeaders = r.BlockHeaders /\ q.ChainCounter = r.ChainCounter /\ q.Chains = r.Chains
      /\ q.ChainsIndex = r.ChainsIndex /\ q.ChainsHashes = r.ChainsHashes
      /\ q.BestBlock = hash /\ q.BestBlockHeight = n
  BY <1>3
<1>5. q = [BlockHeaders |-> q.BlockHeaders, ChainCounter |-> q.ChainCounter,
           Chains |-> q.Chains, ChainsIndex |-> q.ChainsIndex, ChainsHashes |-> q.ChainsHashes,
           BestBlock |-> q.BestBlock, BestBlockHeight |-> q.BestBlockHeight]
  BY <1>3, <1>4
<1>6. Shaped(q)
  BY <1>4, <1>5 DEF Stored, Shaped
<1>7. /\ Headers(q) = Headers(r) /\ Prevs(q) = Prevs(r) /\ ChainIds(q) = ChainIds(r)
      /\ Heights(q) = Heights(r) /\ Starts(q) = Starts(r) /\ Tops(q) = Tops(r)
  BY <1>4 DEF Headers, Prevs, ChainIds, Heights, Starts, Tops
<1>8. Stored(q, s)
  BY <1>4, <1>6, <1>7 DEF Stored, TreeOf
<1>. QED BY <1>1, <1>4, <1>8

(* A header that is not on the main chain leaves the head where it was.    *)
LEMMA StillHeaded ==
    ASSUME NEW r, NEW q, NEW s, Stored(r, s), Headed(r), r.BestBlock # 0, q.BestBlock = r.BestBlock,
           q.BestBlockHeight = r.BestBlockHeight, Len(q.BlockHeaders) = Len(r.BlockHeaders) + 1,
           \A h \in Headers(r) : q.BlockHeaders[h] = r.BlockHeaders[h],
           q.ChainCounter \in Nat, r.ChainCounter <= q.ChainCounter,
           q.ChainsIndex[0] = r.ChainsIndex[0]
    PROVE  Headed(q)
<1>1. PICK N, b, k, j : /\ N = Len(r.BlockHeaders) /\ b = r.BestBlock /\ k = r.ChainCounter
                        /\ j = q.ChainCounter
  OBVIOUS
<1>2. /\ N \in Nat /\ k \in Nat /\ b \in 1 .. N /\ b # 0 /\ k > 0 /\ r.BestBlockHeight \in Nat
      /\ ChainIds(r)[b] = 0 /\ r.BestBlockHeight = Tops(r)[0] /\ Heights(r)[b] = Tops(r)[0]
      /\ j \in Nat /\ k <= j
  <2>1. N \in Nat /\ k \in Nat
    BY <1>1 DEF Stored, Shaped
  <2>. QED BY <1>1, <2>1 DEF Headed, Headers
<1>3. /\ b \in 1 .. N + 1 /\ 0 \in 0 .. k - 1 /\ 0 \in 0 .. j - 1 /\ j > 0
  BY <1>2
<1>4. Headers(q) = 1 .. N + 1 /\ Headers(r) = 1 .. N
  BY <1>1 DEF Headers
<1>5. ChainIds(q)[b] = ChainIds(r)[b] /\ Heights(q)[b] = Heights(r)[b]
  BY <1>2, <1>3, <1>4 DEF ChainIds, Heights
<1>6. Tops(q)[0] = Tops(r)[0]
  BY <1>1, <1>3 DEF Tops
<1>. QED BY <1>1, <1>2, <1>3, <1>4, <1>5, <1>6 DEF Headed

-----------------------------------------------------------------------------
(* Steps                                                                   *)

(* What storing the header x does: no stored header changes but for its    *)
(* chain, the best height does not fall, and a header changes its chain    *)
(* only if the best height grows by Confirmations.                         *)
Grown(r, q, x) ==
    /\ Len(q.BlockHeaders) = Len(r.BlockHeaders) + 1
    /\ \A h \in Headers(r) : SameHeader(q.BlockHeaders[h], r.BlockHeaders[h])
    /\ SameHeader(q.BlockHeaders[Len(r.BlockHeaders) + 1], x)
    /\ q.BestBlock # 0
    /\ r.BestBlockHeight <= q.BestBlockHeight
    /\ \/ \A h \in Headers(r) : q.BlockHeaders[h].chain_id = r.BlockHeaders[h].chain_id
       \/ r.BestBlockHeight + Confirmations <= q.BestBlockHeight

(* A header that starts a fork.                                            *)
LEMMA NewForkGrown ==
    ASSUME NEW r, NEW s, Stored(r, s), Headed(r), NEW p \in Headers(r), NEW x \in RichBlockHeader,
           x.prev = p, x.block_height = r.BlockHeaders[p].block_height + 1,
           r.ChainsIndex[r.BlockHeaders[p].chain_id].max_height # r.BlockHeaders[p].block_height,
           NEW q, q = create_and_store_blockchain(r, x)
    PROVE  Stored(q, s) /\ Headed(q) /\ Grown(r, q, x)
<1>1. /\ Stored(q, s) /\ q.BestBlock = r.BestBlock /\ q.BestBlockHeight = r.BestBlockHeight
      /\ Len(q.BlockHeaders) = Len(r.BlockHeaders) + 1
      /\ \A h \in Headers(r) : q.BlockHeaders[h] = r.BlockHeaders[h]
      /\ q.ChainCounter = r.ChainCounter + 1
      /\ r.ChainCounter > 0 /\ q.ChainsIndex[0] = r.ChainsIndex[0]
      /\ SameHeader(q.BlockHeaders[Len(r.BlockHeaders) + 1], x)
  BY CreateStored
<1>2. r.ChainCounter \in Nat /\ r.BestBlock # 0 /\ r.BestBlockHeight \in Nat
  BY <1>1 DEF Headed, Stored, Shaped
<1>3. q.ChainCounter \in Nat /\ r.ChainCounter <= q.ChainCounter
  BY <1>1, <1>2
<1>4. Headed(q)
  BY <1>1, <1>2, <1>3, StillHeaded
<1>5. Grown(r, q, x)
  BY <1>1, <1>2 DEF Grown, SameHeader
<1>. QED BY <1>1, <1>4, <1>5

(* A header on top of the main chain.                                      *)
LEMMA MainGrown ==
    ASSUME NEW r, NEW s, Stored(r, s), Headed(r), NEW p \in Headers(r), NEW x \in RichBlockHeader,
           x.prev = p, x.block_height = r.BlockHeaders[p].block_height + 1,
           NEW i, i = r.BlockHeaders[p].chain_id,
           r.ChainsIndex[i].max_height = r.BlockHeaders[p].block_height,
           NEW e \in extend_blockchain(r, x, i),
           NEW q, q = update_chain_head(e, new_hash(r), x.block_height)
    PROVE  i = 0 => Stored(q, s) /\ Headed(q) /\ Grown(r, q, x)
<1>0. PICK N, n, k, tip : /\ N = Len(r.BlockHeaders) /\ n = x.block_height /\ k = r.ChainCounter
                          /\ tip = N + 1
  OBVIOUS
<1>91. /\ Stored(e, s) /\ e.BestBlock = r.BestBlock /\ e.BestBlockHeight = r.BestBlockHeight
      /\ Len(e.BlockHeaders) = N + 1
      /\ \A h \in Headers(r) : e.BlockHeaders[h] = r.BlockHeaders[h]
      /\ e.ChainCounter = k /\ i \in 0 .. k - 1
      /\ max_height(e, i) = n
      /\ e.BlockHeaders[tip].chain_id = i
      /\ e.BlockHeaders[tip].block_height = n
      /\ SameHeader(e.BlockHeaders[tip], x)
  BY <1>0, ExtendStored
<1>92. SUFFICES ASSUME i = 0 PROVE Stored(q, s) /\ Headed(q) /\ Grown(r, q, x)
  OBVIOUS
<1>1. /\ Stored(e, s) /\ e.BestBlock = r.BestBlock /\ e.BestBlockHeight = r.BestBlockHeight
      /\ Len(e.BlockHeaders) = N + 1
      /\ \A h \in Headers(r) : e.BlockHeaders[h] = r.BlockHeaders[h]
      /\ e.ChainCounter = r.ChainCounter /\ 0 \in 0 .. r.ChainCounter - 1
      /\ max_height(e, 0) = n
      /\ e.BlockHeaders[N + 1].chain_id = 0
      /\ e.BlockHeaders[N + 1].block_height = n
      /\ SameHeader(e.BlockHeaders[N + 1], x)
  BY <1>0, <1>91, <1>92
<1>2. /\ Stored(q, s) /\ q.BlockHeaders = e.BlockHeaders /\ q.ChainCounter = e.ChainCounter
      /\ q.ChainsIndex = e.ChainsIndex /\ q.BestBlock = N + 1 /\ q.BestBlockHeight = n
  BY <1>0, <1>1, HeadStored DEF new_hash
<1>3. N \in Nat /\ r.ChainCounter \in Nat /\ n \in Nat
  <2>1. N \in Nat /\ r.ChainCounter \in Nat
    BY <1>0 DEF Stored, Shaped
  <2>2. n \in Nat
    BY <1>0 DEF RichBlockHeader
  <2>. QED BY <2>1, <2>2
<1>4. N + 1 # 0 /\ N + 1 \in 1 .. N + 1 /\ r.ChainCounter > 0
  BY <1>1, <1>3
<1>5. Headers(q) = 1 .. N + 1
  BY <1>1, <1>2, SMTT(60) DEF Headers
<1>6. ChainIds(q)[N + 1] = 0 /\ Heights(q)[N + 1] = n
  BY <1>1, <1>2, <1>4, <1>5 DEF ChainIds, Heights
<1>7. Tops(q)[0] = n
  BY <1>1, <1>2 DEF Tops, max_height
<1>8. Headed(q)
  BY <1>1, <1>2, <1>3, <1>4, <1>5, <1>6, <1>7 DEF Headed
<1>9. r.BestBlockHeight <= n
  <2>1. r.BestBlock # 0 /\ r.BestBlockHeight = Tops(r)[0] /\ r.BestBlockHeight \in Nat
    BY <1>3, <1>4 DEF Headed
  <2>2. Tops(r)[0] = r.ChainsIndex[0].max_height
    BY <1>1, SMTT(60) DEF Tops
  <2>. QED BY <1>0, <1>92, <2>1, <2>2
<1>10. Grown(r, q, x)
  BY <1>0, <1>1, <1>2, <1>4, <1>9 DEF Grown, SameHeader
<1>. QED BY <1>2, <1>8, <1>10

(* A header on top of a fork.                                              *)
LEMMA ForkGrown ==
    ASSUME NEW r, NEW s, Stored(r, s), Headed(r), NEW p \in Headers(r), NEW x \in RichBlockHeader,
           x.prev = p, x.block_height = r.BlockHeaders[p].block_height + 1,
           NEW i, i = r.BlockHeaders[p].chain_id, i # 0,
           r.ChainsIndex[i].max_height = r.BlockHeaders[p].block_height,
           NEW e \in extend_blockchain(r, x, i),
           NEW q, q = reorganize_chains(e, i)
    PROVE  Stored(q, s) /\ Headed(q) /\ Grown(r, q, x)
<1>0. PICK N, n, k, tip : /\ N = Len(r.BlockHeaders) /\ n = x.block_height /\ k = r.ChainCounter
                          /\ tip = N + 1
  OBVIOUS
<1>1. /\ Stored(e, s) /\ e.BestBlock = r.BestBlock /\ e.BestBlockHeight = r.BestBlockHeight
      /\ Len(e.BlockHeaders) = N + 1
      /\ \A h \in Headers(r) : e.BlockHeaders[h] = r.BlockHeaders[h]
      /\ e.ChainCounter = k /\ i \in 0 .. k - 1
      /\ \A j \in 0 .. k - 1 : j # i => e.ChainsIndex[j] = r.ChainsIndex[j]
      /\ max_height(e, i) = n
      /\ e.BlockHeaders[tip].chain_id = i
      /\ e.BlockHeaders[tip].block_height = n
      /\ SameHeader(e.BlockHeaders[tip], x)
  BY <1>0, ExtendStored
<1>2. N \in Nat /\ k \in Nat /\ n \in Nat
  BY <1>0, SMTT(30) DEF Stored, Shaped, RichBlockHeader
<1>3. i \in 1 .. e.ChainCounter - 1 /\ 0 \in 0 .. k - 1 /\ k > 0 /\ k <= k
  BY <1>1, <1>2
<1>4. r.BestBlock # 0 /\ r.BestBlockHeight \in Nat
  BY <1>0, <1>3 DEF Headed
<1>5. Headed(e)
  <2>1. /\ e.ChainsIndex[0] = r.ChainsIndex[0] /\ e.ChainCounter \in Nat
        /\ r.ChainCounter <= e.ChainCounter
    BY <1>0, <1>1, <1>2, <1>3
  <2>. QED BY <1>0, <1>1, <1>4, <2>1, StillHeaded
<1>6. tip \in Headers(e) /\ Headers(e) = 1 .. tip
  BY <1>0, <1>1, <1>2 DEF Headers
<1>7. \A h \in Headers(e) : e.BlockHeaders[h].prev # tip
  <2>1. PICK P : P = Prevs(e)
    OBVIOUS
  <2>2. \A h \in Headers(e) : IF P[h] = 0 THEN TRUE ELSE P[h] < h
    BY <1>1, <1>6, <2>1 DEF Stored, TreeOf, Tree, Rooted, Headers
  <2>3. \A h \in Headers(e) : P[h] # tip
    <3>1. tip \in Nat /\ tip # 0
      BY <1>0, <1>2
    <3>2. ASSUME NEW h \in Headers(e), P[h] = tip PROVE FALSE
      <4>1. h \in 1 .. tip
        BY <1>6
      <4>. QED BY <2>2, <3>1, <3>2, <4>1
    <3>. QED BY <3>2
  <2>. QED BY <2>1, <2>3 DEF Prevs
<1>8. /\ Stored(q, s) /\ Headed(q) /\ Len(q.BlockHeaders) = Len(e.BlockHeaders)
      /\ \A h \in Headers(e) : SameHeader(q.BlockHeaders[h], e.BlockHeaders[h])
      /\ \/ /\ q.BlockHeaders = e.BlockHeaders /\ q.BestBlock = e.BestBlock
            /\ q.BestBlockHeight = e.BestBlockHeight
         \/ q.BestBlockHeight >= e.BestBlockHeight + Confirmations
  BY <1>1, <1>3, <1>5, <1>6, <1>7, ReorganizeStored
<1>9. \A h \in Headers(r) : h \in Headers(e) /\ e.BlockHeaders[h] = r.BlockHeaders[h]
  BY <1>0, <1>1, <1>2, <1>6 DEF Headers
<1>10. q.BestBlock # 0 /\ q.BestBlockHeight \in Nat /\ Confirmations \in Nat
  <2>1. Len(q.BlockHeaders) # 0
    BY <1>1, <1>2, <1>8
  <2>. QED BY <1>8, <2>1, RelayAssumption DEF Headed
<1>11. r.BestBlockHeight <= q.BestBlockHeight
  BY <1>1, <1>4, <1>8, <1>10
<1>12. \A h \in Headers(r) : SameHeader(q.BlockHeaders[h], r.BlockHeaders[h])
  BY <1>8, <1>9, SMTT(60)
<1>13. SameHeader(q.BlockHeaders[tip], x)
  BY <1>1, <1>6, <1>8 DEF SameHeader
<1>14. \/ \A h \in Headers(r) : q.BlockHeaders[h].chain_id = r.BlockHeaders[h].chain_id
       \/ r.BestBlockHeight + Confirmations <= q.BestBlockHeight
  BY <1>1, <1>4, <1>8, <1>9, <1>10, SMTT(60)
<1>15. Grown(r, q, x)
  BY <1>0, <1>1, <1>8, <1>10, <1>11, <1>12, <1>13, <1>14 DEF Grown
<1>. QED BY <1>8, <1>15

(* The first header.                                                       *)
LEMMA InitializeStored ==
    ASSUME NEW r, NEW s, Stored(r, s), Headed(r), r.BestBlock = 0,
           NEW x \in RichBlockHeader, x.prev = 0, NEW n, n = x.block_height,
           NEW q, q = update_chain_head(create_and_store_blockchain(r, x), new_hash(r), n)
    PROVE  /\ Stored(q, n) /\ Headed(q) /\ q.BestBlock = 1 /\ q.BestBlockHeight = n
           /\ Len(q.BlockHeaders) = 1 /\ q.BlockHeaders[1].prev = 0
<1>. DEFINE chain == [start_height |-> n, max_height |-> n]
            y == [x EXCEPT !.chain_id = 0]
            a == [r EXCEPT !.ChainCounter = @ + 1,
                           !.ChainsHashes = insert(@, <<0, n>>, new_hash(r)),
                           !.ChainsIndex = insert(@, 0, chain)]
            c == create_and_store_blockchain(r, x)
<1>1. /\ Shaped(r) /\ Listed(0, r.Chains) /\ r.ChainCounter = 0 /\ Len(r.BlockHeaders) = 0
      /\ Indexed(0, ChainIds(r), Heights(r), r.ChainsHashes)
      /\ r.BlockHeaders \in Seq(RichBlockHeader)
      /\ r.ChainsIndex \in [0 .. 0 - 1 -> BlockChain] /\ n \in Nat
  <2>1. n \in Nat
    BY DEF RichBlockHeader
  <2>2. r.ChainCounter = 0 /\ Len(r.BlockHeaders) = 0
    BY DEF Headed
  <2>. QED BY <2>1, <2>2 DEF Stored, Shaped
<1>2. a.ChainCounter = 0 + 1 /\ a.Chains = r.Chains
  BY <1>1 DEF Shaped
<1>3. PICK M : Listed(1, M) /\ insert_sorted(a, 0) = [a EXCEPT !.Chains = M]
  <2>. HIDE DEF a
  <2>1. PICK k : k = 0
    OBVIOUS
  <2>2. k \in Nat /\ Listed(k, r.Chains) /\ a.ChainCounter = k + 1 /\ a.Chains = r.Chains
    BY <1>1, <1>2, <2>1
  <2>3. \E M : Listed(k + 1, M) /\ insert_sorted(a, k) = [a EXCEPT !.Chains = M]
    BY <2>2, InsertSorted
  <2>. QED BY <2>1, <2>3
<1>4. c = [[a EXCEPT !.Chains = M] EXCEPT !.BlockHeaders = Append(@, y)]
  BY <1>1, <1>3 DEF create_and_store_blockchain, store_rich_header
<1>5. c = [BlockHeaders |-> Append(r.BlockHeaders, y), ChainCounter |-> 1,
           Chains |-> M, ChainsIndex |-> insert(r.ChainsIndex, 0, chain),
           ChainsHashes |-> insert(r.ChainsHashes, <<0, n>>, 1),
           BestBlock |-> r.BestBlock, BestBlockHeight |-> r.BestBlockHeight]
  <2>1. r = [BlockHeaders |-> r.BlockHeaders, ChainCounter |-> 0,
             Chains |-> r.Chains, ChainsIndex |-> r.ChainsIndex, ChainsHashes |-> r.ChainsHashes,
             BestBlock |-> r.BestBlock, BestBlockHeight |-> r.BestBlockHeight]
    BY <1>1 DEF Shaped
  <2>2. new_hash(r) = 1
    BY <1>1 DEF new_hash
  <2>3. a = [BlockHeaders |-> r.BlockHeaders, ChainCounter |-> 1,
             Chains |-> r.Chains, ChainsIndex |-> insert(r.ChainsIndex, 0, chain),
             ChainsHashes |-> insert(r.ChainsHashes, <<0, n>>, 1),
             BestBlock |-> r.BestBlock, BestBlockHeight |-> r.BestBlockHeight]
    <3>1. PICK bh, L, I, X, hash, height :
             /\ bh = r.BlockHeaders /\ L = r.Chains /\ I = r.ChainsIndex /\ X = r.ChainsHashes
             /\ hash = r.BestBlock /\ height = r.BestBlockHeight
      OBVIOUS
    <3>2. r = [BlockHeaders |-> bh, ChainCounter |-> 0, Chains |-> L, ChainsIndex |-> I,
               ChainsHashes |-> X, BestBlock |-> hash, BestBlockHeight |-> height]
      BY <2>1, <3>1
    <3>3. a = [r EXCEPT !.ChainCounter = 1, !.ChainsHashes = insert(X, <<0, n>>, 1),
                        !.ChainsIndex = insert(I, 0, chain)]
      <4>1. r.ChainCounter + 1 = 1
        BY <1>1
      <4>2. a = [r EXCEPT !.ChainCounter = r.ChainCounter + 1,
                          !.ChainsHashes = insert(r.ChainsHashes, <<0, n>>, new_hash(r)),
                          !.ChainsIndex = insert(r.ChainsIndex, 0, chain)]
        OBVIOUS
      <4>. HIDE DEF a
      <4>. QED BY <2>2, <3>1, <4>1, <4>2
    <3>. HIDE DEF a
    <3>. QED BY <3>1, <3>2, <3>3
  <2>. HIDE DEF a, c
  <2>. QED BY <1>4, <2>3
<1>. HIDE DEF c, a
<1>6. q = [BlockHeaders |-> Append(r.BlockHeaders, y), ChainCounter |-> 1,
           Chains |-> M, ChainsIndex |-> insert(r.ChainsIndex, 0, chain),
           ChainsHashes |-> insert(r.ChainsHashes, <<0, n>>, 1),
           BestBlock |-> 1, BestBlockHeight |-> n]
  <2>1. q = [c EXCEPT !.BestBlock = 1, !.BestBlockHeight = n]
    BY <1>1 DEF c, update_chain_head, new_hash
  <2>. QED BY <1>5, <2>1
<1>7. /\ q.BlockHeaders = Append(r.BlockHeaders, y) /\ q.ChainCounter = 1 /\ q.Chains = M
      /\ q.ChainsIndex = insert(r.ChainsIndex, 0, chain)
      /\ q.ChainsHashes = insert(r.ChainsHashes, <<0, n>>, 1)
      /\ q.BestBlock = 1 /\ q.BestBlockHeight = n
  BY <1>6
<1>8. y \in RichBlockHeader /\ y.prev = 0 /\ y.chain_id = 0 /\ y.block_height = n
  BY <1>1 DEF RichBlockHeader
<1>. HIDE DEF y
<1>9. /\ q.BlockHeaders \in Seq(RichBlockHeader)
      /\ Len(q.BlockHeaders) = 0 + 1
      /\ Prevs(q) = Extended(0, Prevs(r), 0)
      /\ ChainIds(q) = Extended(0, ChainIds(r), 0)
      /\ Heights(q) = Extended(0, Heights(r), n)
  BY <1>1, <1>7, <1>8, StoreHeader
<1>10. /\ Prevs(q) = [h \in 1 .. 1 |-> 0] /\ ChainIds(q) = [h \in 1 .. 1 |-> 0]
       /\ Heights(q) = [h \in 1 .. 1 |-> n]
  BY <1>9 DEF Extended
<1>11. chain \in BlockChain /\ chain.start_height = n /\ chain.max_height = n
  BY <1>1 DEF BlockChain
<1>. HIDE DEF chain
<1>12. q.ChainsIndex = [j \in 0 .. 0 |-> chain]
  <2>1. DOMAIN r.ChainsIndex = {}
    BY <1>1
  <2>. QED BY <1>7, <2>1 DEF insert
<1>13. Starts(q) = [i \in 0 .. 0 |-> n] /\ Tops(q) = [i \in 0 .. 0 |-> n]
  BY <1>7, <1>11, <1>12 DEF Starts, Tops
<1>14. TreeOf(q, n)
  <2>1. Tree(1, [h \in 1 .. 1 |-> 0], [h \in 1 .. 1 |-> 0], [h \in 1 .. 1 |-> n],
             1, [i \in 0 .. 0 |-> n], [i \in 0 .. 0 |-> n], n)
    BY <1>1, RootTree
  <2>. QED BY <1>7, <1>9, <1>10, <1>13, <2>1 DEF TreeOf
<1>15. Indexed(Len(q.BlockHeaders), ChainIds(q), Heights(q), q.ChainsHashes)
  <2>1. Indexed(0 + 1, ChainIds(q), Heights(q), insert(r.ChainsHashes, <<0, n>>, 0 + 1))
    <3>1. \A h \in 1 .. 0 : ~(ChainIds(r)[h] = 0 /\ Heights(r)[h] = n)
      OBVIOUS
    <3>. QED BY <1>1, <1>9, <3>1, IndexAppend
  <2>. QED BY <1>7, <1>9, <2>1
<1>16. Shaped(q)
  <2>1. q = [BlockHeaders |-> q.BlockHeaders, ChainCounter |-> q.ChainCounter,
            Chains |-> q.Chains, ChainsIndex |-> q.ChainsIndex, ChainsHashes |-> q.ChainsHashes,
            BestBlock |-> q.BestBlock, BestBlockHeight |-> q.BestBlockHeight]
    BY <1>6, <1>7
  <2>2. q.ChainsIndex \in [0 .. q.ChainCounter - 1 -> BlockChain]
    BY <1>7, <1>11, <1>12
  <2>. QED BY <1>7, <1>9, <2>1, <2>2 DEF Shaped
<1>17. Stored(q, n)
  BY <1>3, <1>7, <1>14, <1>15, <1>16 DEF Stored
<1>18. Headed(q)
  BY <1>1, <1>7, <1>9, <1>10, <1>13 DEF Headed, Headers
<1>19. q.BlockHeaders[1].prev = 0
  BY <1>9, <1>10 DEF Prevs, Headers
<1>. QED BY <1>7, <1>9, <1>17, <1>18, <1>19

(* The header a submission creates.                                        *)
LEMMA NewHeader ==
    ASSUME SecurityTypeOK, NEW p \in Nat, NEW t \in Timestamps, NEW x \in Targets, NEW n \in Nat
    PROVE  LET y == new_header(p, t, x, n) IN
           /\ y \in RichBlockHeader /\ y.prev = p /\ y.block_height = n /\ y.target = x
           /\ y.timestamp = t
  BY DEF SecurityTypeOK, new_header, RichBlockHeader, MAIN_CHAIN_ID

(* The invariant holds initially.                                          *)
LEMMA InitHolds == Init => RelayInv
<1>1. SUFFICES ASSUME Init PROVE RelayInv
  OBVIOUS
<1>2. /\ relay = [BlockHeaders |-> << >>, ChainCounter |-> 0, Chains |-> Empty,
                  ChainsIndex |-> Empty, ChainsHashes |-> Empty,
                  BestBlock |-> 0, BestBlockHeight |-> 0]
      /\ SecurityTypeOK /\ StartBlockHeight = 0 /\ DisableDifficultyCheck \in BOOLEAN
  BY <1>1 DEF Init, SecurityInit, SecurityTypeOK
<1>3. /\ relay.BlockHeaders = << >> /\ relay.ChainCounter = 0 /\ relay.Chains = Empty
      /\ relay.ChainsIndex = Empty /\ relay.ChainsHashes = Empty
      /\ relay.BestBlock = 0 /\ relay.BestBlockHeight = 0
  BY <1>2
<1>4. /\ Len(relay.BlockHeaders) = 0 /\ relay.BlockHeaders \in Seq(RichBlockHeader)
      /\ DOMAIN Empty = {} /\ 0 .. 0 - 1 = {} /\ 1 .. 0 = {}
      /\ \A S : Empty \in [0 .. 0 - 1 -> S]
  BY <1>3 DEF Empty
<1>5. Shaped(relay)
  BY <1>2, <1>3, <1>4 DEF Shaped
<1>6. TreeOf(relay, 0)
  <2>1. ASSUME NEW P \in [1 .. 0 -> 0 .. 0], NEW C \in [1 .. 0 -> 0 .. 0 - 1],
               NEW H \in [1 .. 0 -> Nat], NEW B \in [0 .. 0 - 1 -> Nat],
               NEW T \in [0 .. 0 - 1 -> Nat]
        PROVE  Tree(0, P, C, H, 0, B, T, 0)
    <3>1. Typed(0, P, C, H, 0, B, T, 0)
      BY DEF Typed
    <3>2. Rooted(0, P, C, H, 0) /\ Unique(0, C, H) /\ Linked(0, P, C, H, B, T)
      BY <1>4 DEF Rooted, Unique, Linked
    <3>3. Filled(0, C, H, 0, B, T)
      BY <1>4 DEF Filled
    <3>. QED BY <3>1, <3>2, <3>3 DEF Tree
  <2>2. /\ Prevs(relay) \in [1 .. 0 -> 0 .. 0] /\ ChainIds(relay) \in [1 .. 0 -> 0 .. 0 - 1]
        /\ Heights(relay) \in [1 .. 0 -> Nat]
    BY <1>4 DEF Prevs, ChainIds, Heights, Headers
  <2>3. Starts(relay) \in [0 .. 0 - 1 -> Nat] /\ Tops(relay) \in [0 .. 0 - 1 -> Nat]
    BY <1>3, <1>4 DEF Starts, Tops
  <2>4. Tree(0, Prevs(relay), ChainIds(relay), Heights(relay), 0, Starts(relay), Tops(relay), 0)
    BY <2>1, <2>2, <2>3
  <2>. QED BY <1>3, <1>4, <2>4 DEF TreeOf
<1>7. Indexed(Len(relay.BlockHeaders), ChainIds(relay), Heights(relay), relay.ChainsHashes)
  BY <1>3, <1>4 DEF Indexed
<1>8. Listed(relay.ChainCounter, relay.Chains)
  BY <1>3, <1>4 DEF Listed
<1>9. Headed(relay)
  BY <1>3, <1>4 DEF Headed
<1>. QED BY <1>2, <1>5, <1>6, <1>7, <1>8, <1>9 DEF RelayInv, Stored

(* The action initialize.                                                  *)
LEMMA InitializeStep ==
    ASSUME RelayInv, NEW t \in Timestamps, NEW x \in Targets, NEW n \in StartHeights,
           initialize(t, x, n)
    PROVE  /\ RelayInv' /\ relay.BestBlock = 0 /\ relay'.BestBlockHeight = n
           /\ Len(relay.BlockHeaders) = 0 /\ Len(relay'.BlockHeaders) = 1
           /\ relay'.BlockHeaders[1].prev = 0
           /\ UNCHANGED <<DisableDifficultyCheck, ActiveBlockCount>>
<1>1. PICK r, q, y : r = relay /\ q = relay' /\ y = new_header(0, t, x, n)
  OBVIOUS
<1>2. /\ Stored(r, StartBlockHeight) /\ Headed(r) /\ SecurityTypeOK
      /\ DisableDifficultyCheck \in BOOLEAN
  BY <1>1 DEF RelayInv
<1>3. /\ r.BestBlock = 0 /\ StartBlockHeight' = n
      /\ DisableDifficultyCheck' = DisableDifficultyCheck
      /\ ActiveBlockCount' = ActiveBlockCount /\ IsDeactivated' = IsDeactivated
      /\ q = update_chain_head(create_and_store_blockchain(r, y), new_hash(r), n)
  BY <1>1 DEF initialize, best_block_exists, securityVars
<1>4. n \in Nat
  BY RelayAssumption
<1>5. y \in RichBlockHeader /\ y.prev = 0 /\ y.block_height = n
  BY <1>1, <1>2, <1>4, NewHeader
<1>6. /\ Stored(q, n) /\ Headed(q) /\ q.BestBlockHeight = n
      /\ Len(q.BlockHeaders) = 1 /\ q.BlockHeaders[1].prev = 0
  BY <1>2, <1>3, <1>5, InitializeStored
<1>7. SecurityTypeOK'
  BY <1>2, <1>3 DEF SecurityTypeOK
<1>8. RelayInv'
  BY <1>1, <1>2, <1>3, <1>4, <1>6, <1>7 DEF RelayInv
<1>9. Len(r.BlockHeaders) = 0
  BY <1>2, <1>3 DEF Headed
<1>. QED BY <1>1, <1>3, <1>6, <1>8, <1>9

(* The action store_block_header.                                          *)
LEMMA StoreStep ==
    ASSUME RelayInv, NEW p \in DOMAIN relay.BlockHeaders, NEW t \in Timestamps, NEW x \in Targets,
           store_block_header(p, t, x)
    PROVE  /\ RelayInv' /\ relay.BestBlock # 0 /\ p \in Headers(relay)
           /\ Grown(relay, relay', new_header(p, t, x, relay.BlockHeaders[p].block_height + 1))
           /\ UNCHANGED <<StartBlockHeight, DisableDifficultyCheck, ActiveBlockCount>>
<1>1. PICK r, q, s, i, n, y : /\ r = relay /\ q = relay' /\ s = StartBlockHeight
                              /\ i = relay.BlockHeaders[p].chain_id
                              /\ n = relay.BlockHeaders[p].block_height + 1
                              /\ y = new_header(p, t, x, n)
  OBVIOUS
<1>2. /\ Stored(r, s) /\ Headed(r) /\ SecurityTypeOK /\ s \in Nat
      /\ DisableDifficultyCheck \in BOOLEAN
  BY <1>1 DEF RelayInv
<1>3. /\ StartBlockHeight' = s /\ DisableDifficultyCheck' = DisableDifficultyCheck
      /\ ActiveBlockCount' = ActiveBlockCount /\ IsDeactivated' = IsDeactivated
  BY <1>1 DEF store_block_header, securityVars
<1>4. q \in IF max_height(r, i) # r.BlockHeaders[p].block_height
            THEN {create_and_store_blockchain(r, y)}
            ELSE {IF i # MAIN_CHAIN_ID THEN reorganize_chains(e, i)
                  ELSE update_chain_head(e, new_hash(r), n) : e \in extend_blockchain(r, y, i)}
  BY <1>1 DEF store_block_header
<1>5. p \in Headers(r) /\ r.BlockHeaders[p] \in RichBlockHeader
  BY <1>1, <1>2 DEF Stored, Shaped, Headers
<1>6. n \in Nat /\ p \in Nat
  <2>1. Len(r.BlockHeaders) \in Nat
    BY <1>2 DEF Stored, Shaped
  <2>. QED BY <1>1, <1>5, <2>1 DEF RichBlockHeader, Headers
<1>7. y \in RichBlockHeader /\ y.prev = p /\ y.block_height = n
  BY <1>1, <1>2, <1>6, NewHeader
<1>8. n = r.BlockHeaders[p].block_height + 1 /\ i = r.BlockHeaders[p].chain_id
  BY <1>1
<1>9. Stored(q, s) /\ Headed(q) /\ Grown(r, q, y)
  <2>1. CASE max_height(r, i) # r.BlockHeaders[p].block_height
    <3>1. q = create_and_store_blockchain(r, y)
      BY <1>4, <2>1
    <3>2. r.ChainsIndex[r.BlockHeaders[p].chain_id].max_height # r.BlockHeaders[p].block_height
      BY <1>8, <2>1 DEF max_height
    <3>. QED BY <1>2, <1>5, <1>7, <1>8, <3>1, <3>2, NewForkGrown
  <2>2. CASE max_height(r, i) = r.BlockHeaders[p].block_height
    <3>1. PICK e \in extend_blockchain(r, y, i) :
             q = IF i # MAIN_CHAIN_ID THEN reorganize_chains(e, i)
                 ELSE update_chain_head(e, new_hash(r), n)
      BY <1>4, <2>2
    <3>2. r.ChainsIndex[i].max_height = r.BlockHeaders[p].block_height
      BY <2>2 DEF max_height
    <3>3. CASE i = 0
      <4>1. q = update_chain_head(e, new_hash(r), n)
        BY <3>1, <3>3 DEF MAIN_CHAIN_ID
      <4>2. i = 0 => Stored(q, s) /\ Headed(q) /\ Grown(r, q, y)
        BY <1>2, <1>5, <1>7, <1>8, <3>1, <3>2, <4>1, MainGrown
      <4>. QED BY <3>3, <4>2
    <3>4. CASE i # 0
      <4>1. q = reorganize_chains(e, i)
        BY <3>1, <3>4 DEF MAIN_CHAIN_ID
      <4>. QED BY <1>2, <1>5, <1>7, <1>8, <3>1, <3>2, <3>4, <4>1, ForkGrown
    <3>. QED BY <3>3, <3>4
  <2>. QED BY <2>1, <2>2
<1>10. SecurityTypeOK'
  BY <1>2, <1>3 DEF SecurityTypeOK
<1>11. RelayInv'
  BY <1>1, <1>2, <1>3, <1>9, <1>10 DEF RelayInv
<1>12. r.BestBlock # 0
  BY <1>2, <1>5 DEF Headed, Headers
<1>. QED BY <1>1, <1>3, <1>5, <1>9, <1>11, <1>12

(* The clock of the parachain.                                             *)
LEMMA SecurityStep ==
    ASSUME SecurityTypeOK, [SecurityNext]_securityVars
    PROVE  SecurityTypeOK' /\ ActiveBlockCount <= ActiveBlockCount'
<1>1. CASE \E b \in BOOLEAN : activate_counter(b)
  <2>1. IsDeactivated' \in BOOLEAN /\ ActiveBlockCount' = ActiveBlockCount
    BY <1>1 DEF activate_counter
  <2>. QED BY <2>1 DEF SecurityTypeOK
<1>2. CASE increment_active_block
  <2>1. IsDeactivated' = IsDeactivated /\ ActiveBlockCount' = ActiveBlockCount + 1
    BY <1>2 DEF increment_active_block
  <2>. QED BY <2>1 DEF SecurityTypeOK
<1>3. CASE UNCHANGED securityVars
  <2>1. IsDeactivated' = IsDeactivated /\ ActiveBlockCount' = ActiveBlockCount
    BY <1>3 DEF securityVars
  <2>. QED BY <2>1 DEF SecurityTypeOK
<1>. QED BY <1>1, <1>2, <1>3 DEF SecurityNext

(* A step that leaves the relay alone.                                     *)
LEMMA QuietStep ==
    ASSUME RelayInv, UNCHANGED relayVars, [SecurityNext]_securityVars
    PROVE  RelayInv' /\ ActiveBlockCount <= ActiveBlockCount'
<1>1. SecurityTypeOK' /\ ActiveBlockCount <= ActiveBlockCount'
  BY SecurityStep DEF RelayInv
<1>2. /\ relay' = relay /\ StartBlockHeight' = StartBlockHeight
      /\ DisableDifficultyCheck' = DisableDifficultyCheck
  BY DEF relayVars
<1>. QED BY <1>1, <1>2 DEF RelayInv

(* The steps of the specification.                                         *)
LEMMA NextCases ==
    ASSUME [Next]_vars
    PROVE  \/ \E t \in Timestamps, x \in Targets, h \in StartHeights : initialize(t, x, h)
           \/ \E p \in DOMAIN relay.BlockHeaders, t \in Timestamps, x \in Targets :
                 store_block_header(p, t, x)
           \/ UNCHANGED relayVars /\ [SecurityNext]_securityVars
  BY DEF Next, RelayNext, vars, relayVars, securityVars

(* Every step keeps the invariant.                                         *)
LEMMA NextHolds == RelayInv /\ [Next]_vars => RelayInv'
<1>1. SUFFICES ASSUME RelayInv, [Next]_vars PROVE RelayInv'
  OBVIOUS
<1>2. CASE \E t \in Timestamps, x \in Targets, h \in StartHeights : initialize(t, x, h)
  BY <1>1, <1>2, InitializeStep
<1>3. CASE \E p \in DOMAIN relay.BlockHeaders, t \in Timestamps, x \in Targets :
              store_block_header(p, t, x)
  BY <1>1, <1>3, StoreStep
<1>4. CASE UNCHANGED relayVars /\ [SecurityNext]_securityVars
  BY <1>1, <1>4, QuietStep
<1>. QED BY <1>1, <1>2, <1>3, <1>4, NextCases

(***************************************************************************)
(* In every reachable state the storage of the relay describes one tree of *)
(* headers, cut into chains, with the best block at the end of the main    *)
(* chain: initialize, store_block_header and the reorganisations it        *)
(* triggers keep it so, for any number of headers and forks.               *)
(***************************************************************************)
THEOREM RelayInvariant == Spec => []RelayInv
  BY InitHolds, NextHolds, PTL DEF Spec

-----------------------------------------------------------------------------
(* The properties                                                          *)

(* A chain has a header at each of its heights.                            *)
LEMMA ChainFound ==
    ASSUME NEW N, NEW P, NEW C, NEW H, NEW k, NEW B, NEW T, NEW s, Tree(N, P, C, H, k, B, T, s),
           NEW X, Indexed(N, C, H, X), NEW i \in 0 .. k - 1, NEW n \in Nat, B[i] <= n, n <= T[i],
           NEW h, h = X[<<i, n>>]
    PROVE  <<i, n>> \in DOMAIN X /\ h \in 1 .. N /\ C[h] = i /\ H[h] = n
<1>1. PICK g \in 1 .. N : C[g] = i /\ H[g] = n
  BY DEF Tree, Filled
<1>2. <<C[g], H[g]>> \in DOMAIN X /\ X[<<C[g], H[g]>>] = g
  BY DEF Indexed
<1>. QED BY <1>1, <1>2

(* It is the child of the one below.                                       *)
LEMMA ChainLine ==
    ASSUME NEW N, NEW P, NEW C, NEW H, NEW k, NEW B, NEW T, NEW s, Tree(N, P, C, H, k, B, T, s),
           NEW X, Indexed(N, C, H, X), NEW i \in 0 .. k - 1, NEW n \in Nat, B[i] <= n, n <= T[i],
           NEW h, h = X[<<i, n>>], B[i] < n
    PROVE  h \in 1 .. N /\ P[h] \in 1 .. N /\ P[h] = X[<<i, n - 1>>]
<1>1. h \in 1 .. N /\ C[h] = i /\ H[h] = n
  BY ChainFound
<1>2. P[h] # 0 /\ C[P[h]] = i
  BY <1>1 DEF Tree, Linked
<1>3. P[h] \in 1 .. N /\ H[h] = H[P[h]] + 1 /\ H[P[h]] \in Nat
  BY <1>1, <1>2, Parent
<1>4. <<C[P[h]], H[P[h]]>> = <<i, n - 1>>
  BY <1>1, <1>2, <1>3
<1>5. X[<<C[P[h]], H[P[h]]>>] = P[h]
  BY <1>3 DEF Indexed
<1>. QED BY <1>1, <1>3, <1>4, <1>5

(* A fork starts on another chain.                                         *)
LEMMA ChainStart ==
    ASSUME NEW N, NEW P, NEW C, NEW H, NEW k, NEW B, NEW T, NEW s, Tree(N, P, C, H, k, B, T, s),
           NEW X, Indexed(N, C, H, X), NEW i \in 0 .. k - 1, NEW n \in Nat, B[i] <= n, n <= T[i],
           NEW h, h = X[<<i, n>>], i # 0, n = B[i]
    PROVE  h \in 1 .. N /\ P[h] \in 1 .. N /\ C[P[h]] # i
<1>1. h \in 1 .. N /\ C[h] = i /\ H[h] = n
  BY ChainFound
<1>2. P[h] # 0 /\ C[P[h]] # i
  BY <1>1 DEF Tree, Linked
<1>3. P[h] \in 1 .. N
  BY <1>1, <1>2, Parent
<1>. QED BY <1>1, <1>2, <1>3

(* The invariant, spelled out for the proofs below.                        *)
LEMMA RelayFacts ==
    ASSUME RelayInv
    PROVE  \E N, P, C, H, k, B, T, X :
              /\ Tree(N, P, C, H, k, B, T, StartBlockHeight) /\ Indexed(N, C, H, X)
              /\ N \in Nat /\ k \in Nat
              /\ N = Len(relay.BlockHeaders) /\ DOMAIN relay.BlockHeaders = 1 .. N
              /\ relay.BlockHeaders \in Seq(RichBlockHeader)
              /\ \A h \in 1 .. N : /\ relay.BlockHeaders[h].prev = P[h]
                                   /\ relay.BlockHeaders[h].chain_id = C[h]
                                   /\ relay.BlockHeaders[h].block_height = H[h]
              /\ k = relay.ChainCounter /\ X = relay.ChainsHashes
              /\ relay.ChainsIndex \in [0 .. k - 1 -> BlockChain]
              /\ \A i \in 0 .. k - 1 : /\ relay.ChainsIndex[i].start_height = B[i]
                                       /\ relay.ChainsIndex[i].max_height = T[i]
              /\ Listed(k, relay.Chains)
              /\ relay.BestBlockHeight \in Nat
              /\ relay.BestBlock = 0 => k = 0 /\ N = 0
              /\ relay.BestBlock # 0 =>
                    /\ relay.BestBlock \in 1 .. N /\ C[relay.BestBlock] = 0 /\ k > 0
                    /\ relay.BestBlockHeight = T[0] /\ H[relay.BestBlock] = T[0]
<1>0. PICK N, P, C, H, k, B, T, X :
         /\ N = Len(relay.BlockHeaders) /\ P = Prevs(relay) /\ C = ChainIds(relay)
         /\ H = Heights(relay) /\ k = relay.ChainCounter /\ B = Starts(relay)
         /\ T = Tops(relay) /\ X = relay.ChainsHashes
  OBVIOUS
<1>1. Stored(relay, StartBlockHeight) /\ Headed(relay)
  BY DEF RelayInv
<1>2. /\ Tree(N, P, C, H, k, B, T, StartBlockHeight) /\ Indexed(N, C, H, X)
      /\ Listed(k, relay.Chains) /\ k \in Nat /\ N \in Nat /\ DOMAIN relay.BlockHeaders = 1 .. N
      /\ relay.BlockHeaders \in Seq(RichBlockHeader)
      /\ relay.ChainsIndex \in [0 .. k - 1 -> BlockChain]
  BY <1>0, <1>1 DEF Stored, TreeOf, Shaped
<1>3. /\ \A h \in 1 .. N : /\ relay.BlockHeaders[h].prev = P[h]
                           /\ relay.BlockHeaders[h].chain_id = C[h]
                           /\ relay.BlockHeaders[h].block_height = H[h]
      /\ \A i \in 0 .. k - 1 : /\ relay.ChainsIndex[i].start_height = B[i]
                               /\ relay.ChainsIndex[i].max_height = T[i]
  BY <1>0 DEF Prevs, ChainIds, Heights, Headers, Starts, Tops
<1>4. /\ relay.BestBlockHeight \in Nat
      /\ relay.BestBlock = 0 => k = 0 /\ N = 0
      /\ relay.BestBlock # 0 =>
            /\ relay.BestBlock \in 1 .. N /\ C[relay.BestBlock] = 0 /\ k > 0
            /\ relay.BestBlockHeight = T[0] /\ H[relay.BestBlock] = T[0]
  BY <1>0, <1>1 DEF Headed, Headers
<1>. QED BY <1>0, <1>2, <1>3, <1>4

(* The invariant implies HeaderTree.                                       *)
LEMMA TreeHolds == RelayInv => HeaderTree
<1>1. SUFFICES ASSUME RelayInv PROVE HeaderTree
  OBVIOUS
<1>2. PICK N, P, C, H, k, B, T, X :
              /\ Tree(N, P, C, H, k, B, T, StartBlockHeight) /\ Indexed(N, C, H, X)
              /\ N \in Nat /\ k \in Nat
              /\ N = Len(relay.BlockHeaders) /\ DOMAIN relay.BlockHeaders = 1 .. N
              /\ relay.BlockHeaders \in Seq(RichBlockHeader)
              /\ \A h \in 1 .. N : /\ relay.BlockHeaders[h].prev = P[h]
                                   /\ relay.BlockHeaders[h].chain_id = C[h]
                                   /\ relay.BlockHeaders[h].block_height = H[h]
              /\ k = relay.ChainCounter /\ X = relay.ChainsHashes
              /\ relay.ChainsIndex \in [0 .. k - 1 -> BlockChain]
              /\ \A i \in 0 .. k - 1 : /\ relay.ChainsIndex[i].start_height = B[i]
                                       /\ relay.ChainsIndex[i].max_height = T[i]
              /\ Listed(k, relay.Chains)
              /\ relay.BestBlockHeight \in Nat
              /\ relay.BestBlock = 0 => k = 0 /\ N = 0
              /\ relay.BestBlock # 0 =>
                    /\ relay.BestBlock \in 1 .. N /\ C[relay.BestBlock] = 0 /\ k > 0
                    /\ relay.BestBlockHeight = T[0] /\ H[relay.BestBlock] = T[0]
  BY <1>1, RelayFacts
<1>3. /\ \A h \in 1 .. N : C[h] \in 0 .. k - 1 /\ H[h] \in Nat
      /\ \A i \in 0 .. k - 1 : B[i] \in Nat /\ T[i] \in Nat /\ B[i] <= T[i]
      /\ \A h \in 1 .. N : B[C[h]] <= H[h] /\ H[h] <= T[C[h]]
      /\ k > 0 => B[0] = StartBlockHeight
  <2>1. Tree(N, P, C, H, k, B, T, StartBlockHeight)
    BY <1>2
  <2>2. Filled(N, C, H, k, B, T) /\ (k > 0 => B[0] = StartBlockHeight)
    BY <2>1 DEF Tree
  <2>3. /\ \A h \in 1 .. N : C[h] \in 0 .. k - 1 /\ H[h] \in Nat
        /\ \A i \in 0 .. k - 1 : B[i] \in Nat /\ T[i] \in Nat
    BY <2>1, TreeTypes
  <2>. QED BY <2>2, <2>3 DEF Filled
<1>4. /\ \A h \in 1 .. N : <<C[h], H[h]>> \in DOMAIN X /\ X[<<C[h], H[h]>>] = h
      /\ \A x \in DOMAIN X : X[x] \in 1 .. N /\ x = <<C[X[x]], H[X[x]]>>
  BY <1>2 DEF Indexed
<1>5. TypeOK
  <2>1. SecurityTypeOK /\ StartBlockHeight \in Nat /\ DisableDifficultyCheck \in BOOLEAN
    BY <1>1 DEF RelayInv
  <2>2. relay.Chains \in [0 .. k - 1 -> 0 .. k - 1]
    BY <1>2 DEF Listed
  <2>3. DOMAIN X \subseteq (0 .. k - 1) \X Nat
    BY <1>3, <1>4
  <2>4. \A x \in DOMAIN relay.ChainsHashes : relay.ChainsHashes[x] \in DOMAIN relay.BlockHeaders
    BY <1>2, <1>4
  <2>5. relay.BestBlock \in {0} \cup DOMAIN relay.BlockHeaders
    BY <1>2
  <2>. QED BY <1>2, <2>1, <2>2, <2>3, <2>4, <2>5 DEF TypeOK
<1>6. HeadersIndexed
  <2>1. \A h \in Hashes :
           LET key == <<relay.BlockHeaders[h].chain_id, relay.BlockHeaders[h].block_height>>
           IN  key \in DOMAIN relay.ChainsHashes /\ relay.ChainsHashes[key] = h
    <3>1. ASSUME NEW h \in 1 .. N, NEW key,
                 key = <<relay.BlockHeaders[h].chain_id, relay.BlockHeaders[h].block_height>>
          PROVE  key \in DOMAIN X /\ X[key] = h
      <4>1. key = <<C[h], H[h]>>
        BY <1>2, <3>1
      <4>. QED BY <1>4, <4>1
    <3>2. Hashes = 1 .. N /\ X = relay.ChainsHashes
      BY <1>2 DEF Hashes
    <3>. QED BY <3>1, <3>2
  <2>2. \A x, y \in DOMAIN X : X[x] = X[y] => x = y
    BY <1>4, SMTT(60)
  <2>. QED BY <1>2, <2>1, <2>2 DEF HeadersIndexed
<1>7. ChainsLinked
  <2>1. ASSUME NEW i \in 0 .. k - 1
        PROVE  {x[2] : x \in {x \in DOMAIN X : x[1] = i}} = B[i] .. T[i]
    <3>1. ASSUME NEW x \in DOMAIN X, x[1] = i PROVE x[2] \in B[i] .. T[i]
      <4>1. PICK g \in 1 .. N : x = <<C[g], H[g]>>
        BY <1>4
      <4>2. C[g] = i /\ x[2] = H[g]
        BY <3>1, <4>1
      <4>. QED BY <1>3, <4>2
    <3>2. ASSUME NEW n \in B[i] .. T[i] PROVE \E x \in DOMAIN X : x[1] = i /\ x[2] = n
      <4>1. n \in Nat /\ B[i] <= n /\ n <= T[i] /\ i \in 0 .. k - 1
        BY <1>3
      <4>2. Tree(N, P, C, H, k, B, T, StartBlockHeight) /\ Indexed(N, C, H, X)
        BY <1>2
      <4>3. PICK h : h = X[<<i, n>>]
        OBVIOUS
      <4>4. <<i, n>> \in DOMAIN X /\ h \in 1 .. N /\ C[h] = i /\ H[h] = n
        BY <4>1, <4>2, <4>3, ChainFound
      <4>. QED BY <4>4
    <3>. QED BY <3>1, <3>2
  <2>2. ASSUME NEW i \in 0 .. k - 1, NEW n \in B[i] + 1 .. T[i]
        PROVE  relay.BlockHeaders[X[<<i, n>>]].prev = X[<<i, n - 1>>]
    <3>1. n \in Nat /\ B[i] <= n /\ n <= T[i] /\ B[i] < n
      BY <1>3
    <3>2. PICK h : h = X[<<i, n>>]
      OBVIOUS
    <3>3. h \in 1 .. N /\ P[h] = X[<<i, n - 1>>]
      BY <1>2, <3>1, <3>2, ChainLine, SMTT(30)
    <3>. QED BY <1>2, <3>2, <3>3
  <2>3. ASSUME NEW i \in 0 .. k - 1, i = 0
        PROVE  /\ B[i] = StartBlockHeight /\ T[i] = relay.BestBlockHeight
               /\ X[<<i, T[i]>>] = relay.BestBlock
    <3>1. k > 0
      BY <1>2
    <3>2. /\ relay.BestBlock \in 1 .. N /\ C[relay.BestBlock] = 0
          /\ relay.BestBlockHeight = T[0] /\ H[relay.BestBlock] = T[0]
      BY <1>2, <3>1
    <3>3. X[<<C[relay.BestBlock], H[relay.BestBlock]>>] = relay.BestBlock
      BY <1>4, <3>2
    <3>. QED BY <1>3, <2>3, <3>1, <3>2, <3>3
  <2>4. ASSUME NEW i \in 0 .. k - 1, i # 0
        PROVE  /\ B[i] <= T[i]
               /\ relay.BlockHeaders[relay.BlockHeaders[X[<<i, B[i]>>]].prev].chain_id # i
    <3>1. PICK n \in Nat : n = B[i] /\ B[i] <= n /\ n <= T[i]
      BY <1>3
    <3>2. PICK h : h = X[<<i, n>>]
      OBVIOUS
    <3>3. h \in 1 .. N /\ P[h] \in 1 .. N /\ C[P[h]] # i
      <4>1. Tree(N, P, C, H, k, B, T, StartBlockHeight) /\ Indexed(N, C, H, X)
        BY <1>2
      <4>2. i \in 0 .. k - 1 /\ n \in Nat /\ B[i] <= n /\ n <= T[i] /\ h = X[<<i, n>>]
        BY <3>1, <3>2
      <4>3. i # 0 /\ n = B[i]
        BY <2>4, <3>1
      <4>. QED BY <4>1, <4>2, <4>3, ChainStart
    <3>. QED BY <1>2, <1>3, <3>1, <3>2, <3>3, SMTT(30)
  <2>5. best_block_exists => relay.Chains[0] = MAIN_CHAIN_ID
    BY <1>2 DEF best_block_exists, Listed, MAIN_CHAIN_ID
  <2>6. ASSUME NEW i \in DOMAIN relay.ChainsIndex
        PROVE  LET chain == relay.ChainsIndex[i]
                   hash(n) == relay.ChainsHashes[<<i, n>>]
                   prev(n) == relay.BlockHeaders[hash(n)].prev
               IN  /\ {x[2] : x \in {x \in DOMAIN relay.ChainsHashes : x[1] = i}}
                         = chain.start_height .. chain.max_height
                   /\ \A n \in chain.start_height + 1 .. chain.max_height : prev(n) = hash(n - 1)
                   /\ IF i = MAIN_CHAIN_ID
                      THEN /\ chain.start_height = StartBlockHeight
                           /\ chain.max_height = relay.BestBlockHeight
                           /\ hash(chain.max_height) = relay.BestBlock
                      ELSE /\ chain.start_height <= chain.max_height
                           /\ relay.BlockHeaders[prev(chain.start_height)].chain_id # i
    <3>1. i \in 0 .. k - 1 /\ X = relay.ChainsHashes
      BY <1>2
    <3>2. relay.ChainsIndex[i].start_height = B[i] /\ relay.ChainsIndex[i].max_height = T[i]
      BY <1>2, <3>1
    <3>3. {x[2] : x \in {x \in DOMAIN relay.ChainsHashes : x[1] = i}} = B[i] .. T[i]
      BY <2>1, <3>1
    <3>4. \A n \in B[i] + 1 .. T[i] : relay.BlockHeaders[relay.ChainsHashes[<<i, n>>]].prev
                                        = relay.ChainsHashes[<<i, n - 1>>]
      BY <2>2, <3>1
    <3>5. IF i = 0
          THEN /\ B[i] = StartBlockHeight /\ T[i] = relay.BestBlockHeight
               /\ relay.ChainsHashes[<<i, T[i]>>] = relay.BestBlock
          ELSE /\ B[i] <= T[i]
               /\ relay.BlockHeaders[
                     relay.BlockHeaders[relay.ChainsHashes[<<i, B[i]>>]].prev].chain_id # i
      BY <2>3, <2>4, <3>1
    <3>. QED BY <3>2, <3>3, <3>4, <3>5 DEF MAIN_CHAIN_ID
  <2>. QED BY <2>5, <2>6 DEF ChainsLinked
<1>. QED BY <1>5, <1>6, <1>7 DEF HeaderTree

(***************************************************************************)
(* Every stored header is found under its chain and height and nowhere     *)
(* else, chains have no gaps, each header is the child of the one below,   *)
(* and the best block ends the main chain: no swap_main_blockchain, not    *)
(* even of a fork of a fork, loses a header or leaves a stale entry.       *)
(***************************************************************************)
THEOREM HeaderTreeHolds == Spec => []HeaderTree
  BY RelayInvariant, TreeHolds, PTL

(* A line of parents from h determines Ancestor(h, n).                     *)
LEMMA AncestorOf ==
    ASSUME NEW h, NEW n \in Nat, NEW a, a[0] = h,
           \A i \in 1 .. n : a[i] = relay.BlockHeaders[a[i - 1]].prev
    PROVE  Ancestor(h, n) = a[n]
<1>. DEFINE up == CHOOSE F : F = [i \in 0 .. n |-> IF i = 0 THEN h
                                                   ELSE relay.BlockHeaders[F[i - 1]].prev]
<1>1. Ancestor(h, n) = up[n]
  BY DEF Ancestor
<1>2. \E F : F = [i \in 0 .. n |-> IF i = 0 THEN h ELSE relay.BlockHeaders[F[i - 1]].prev]
  <2>1. PICK F : F = [i \in 0 .. n |-> a[i]]
    OBVIOUS
  <2>2. ASSUME NEW i \in 0 .. n
        PROVE  F[i] = IF i = 0 THEN h ELSE relay.BlockHeaders[F[i - 1]].prev
    <3>1. i # 0 => i \in 1 .. n /\ i - 1 \in 0 .. n
      OBVIOUS
    <3>2. i # 0 => F[i - 1] = a[i - 1]
      BY <2>1, <3>1
    <3>. QED BY <2>1, <3>1, <3>2
  <2>3. F = [i \in 0 .. n |-> F[i]]
    BY <2>1
  <2>4. F = [i \in 0 .. n |-> IF i = 0 THEN h ELSE relay.BlockHeaders[F[i - 1]].prev]
    BY <2>2, <2>3
  <2>. QED BY <2>4
<1>3. up = [i \in 0 .. n |-> IF i = 0 THEN h ELSE relay.BlockHeaders[up[i - 1]].prev]
  BY <1>2
<1>. HIDE DEF up
<1>. DEFINE S == {i \in Nat : i <= n => up[i] = a[i]}
<1>4. 0 \in S
  <2>1. 0 \in 0 .. n
    OBVIOUS
  <2>. QED BY <1>3, <2>1
<1>5. ASSUME NEW i \in Nat, i \in S PROVE i + 1 \in S
  <2>1. SUFFICES ASSUME i + 1 <= n PROVE up[i + 1] = a[i + 1]
    OBVIOUS
  <2>2. PICK j : j = i + 1
    OBVIOUS
  <2>3. j \in 0 .. n /\ j # 0 /\ j \in 1 .. n /\ j - 1 = i /\ i <= n
    BY <2>1, <2>2
  <2>4. up[j] = relay.BlockHeaders[up[i]].prev /\ a[j] = relay.BlockHeaders[a[i]].prev
    BY <1>3, <2>3
  <2>. QED BY <1>5, <2>2, <2>3, <2>4
<1>. HIDE DEF S
<1>6. Nat \subseteq S
  BY <1>4, <1>5, NatSetInduction
<1>7. n \in S /\ n <= n
  BY <1>6
<1>8. up[n] = a[n]
  BY <1>7 DEF S
<1>. QED BY <1>1, <1>8

(* The invariant implies VerifiedIsBuried.                                 *)
LEMMA BuriedHolds == RelayInv => VerifiedIsBuried
<1>1. SUFFICES ASSUME RelayInv, NEW h \in Hashes, verify_block_header_inclusion(h)
               PROVE  LET header == relay.BlockHeaders[h]
                          depth == relay.BestBlockHeight - header.block_height
                      IN  /\ depth + 1 >= Confirmations
                          /\ Ancestor(relay.BestBlock, depth) = h
                          /\ ParachainConfirmations > 0 => header.para_height < ActiveBlockCount
  BY DEF VerifiedIsBuried
<1>2. PICK N, P, C, H, k, B, T, X :
              /\ Tree(N, P, C, H, k, B, T, StartBlockHeight) /\ Indexed(N, C, H, X)
              /\ N \in Nat /\ k \in Nat
              /\ DOMAIN relay.BlockHeaders = 1 .. N
              /\ relay.BlockHeaders \in Seq(RichBlockHeader)
              /\ \A g \in 1 .. N : /\ relay.BlockHeaders[g].prev = P[g]
                                   /\ relay.BlockHeaders[g].chain_id = C[g]
                                   /\ relay.BlockHeaders[g].block_height = H[g]
              /\ relay.BestBlockHeight \in Nat
              /\ relay.BestBlock = 0 => k = 0 /\ N = 0
              /\ relay.BestBlock # 0 =>
                    /\ relay.BestBlock \in 1 .. N /\ C[relay.BestBlock] = 0 /\ k > 0
                    /\ relay.BestBlockHeight = T[0] /\ H[relay.BestBlock] = T[0]
  BY <1>1, RelayFacts
<1>3. h \in 1 .. N /\ N # 0
  BY <1>1, <1>2 DEF Hashes
<1>4. PICK best, n : best = relay.BestBlock /\ n = relay.BestBlockHeight
  OBVIOUS
<1>5. /\ best \in 1 .. N /\ C[best] = 0 /\ k > 0 /\ n = T[0] /\ H[best] = n /\ n \in Nat
      /\ 0 \in 0 .. k - 1
  BY <1>2, <1>3, <1>4
<1>6. /\ C[h] = 0 /\ n >= H[h] + Confirmations - 1
      /\ relay.BlockHeaders[h].para_height + ParachainConfirmations <= ActiveBlockCount
  BY <1>1, <1>2, <1>3, <1>4
  DEF verify_block_header_inclusion, check_bitcoin_confirmations, check_parachain_confirmations,
      MAIN_CHAIN_ID
<1>7. H[h] \in Nat /\ B[0] \in Nat /\ B[0] <= H[h] /\ H[h] <= n
  <2>1. H[h] \in Nat /\ B[0] \in Nat
    BY <1>2, <1>3, <1>5, TreeTypes
  <2>2. B[C[h]] <= H[h] /\ H[h] <= T[C[h]]
    BY <1>2, <1>3 DEF Tree, Filled
  <2>. QED BY <1>5, <1>6, <2>1, <2>2
<1>8. PICK d \in Nat : d = n - H[h] /\ n - d = H[h]
  BY <1>5, <1>7
<1>9. d + 1 >= Confirmations
  BY <1>5, <1>6, <1>7, <1>8, RelayAssumption
<1>10. Ancestor(best, d) = h
  <2>1. PICK a : a = [i \in 0 .. d |-> X[<<0, n - i>>]]
    OBVIOUS
  <2>2. a[0] = best
    <3>1. 0 \in 0 .. d /\ n - 0 = n
      BY <1>5
    <3>2. <<C[best], H[best]>> = <<0, n>>
      BY <1>5
    <3>3. X[<<C[best], H[best]>>] = best
      BY <1>2, <1>5 DEF Indexed
    <3>. QED BY <2>1, <3>1, <3>2, <3>3
  <2>3. a[d] = h
    <3>1. d \in 0 .. d
      OBVIOUS
    <3>2. <<C[h], H[h]>> = <<0, n - d>>
      BY <1>6, <1>8
    <3>3. X[<<C[h], H[h]>>] = h
      BY <1>2, <1>3 DEF Indexed
    <3>. QED BY <2>1, <3>1, <3>2, <3>3
  <2>4. ASSUME NEW i \in 1 .. d PROVE a[i] = relay.BlockHeaders[a[i - 1]].prev
    <3>1. PICK m \in Nat : m = n - (i - 1)
      BY <1>5, <1>7, <1>8
    <3>2. i - 1 \in 0 .. d /\ i \in 0 .. d /\ m - 1 = n - i /\ B[0] < m /\ B[0] <= m /\ m <= T[0]
      BY <1>5, <1>7, <1>8, <3>1
    <3>3. a[i - 1] = X[<<0, m>>] /\ a[i] = X[<<0, m - 1>>]
      BY <2>1, <3>1, <3>2
    <3>4. PICK g, z : g = X[<<z, m>>] /\ z = 0
      OBVIOUS
    <3>5. g \in 1 .. N /\ P[g] = X[<<0, m - 1>>]
      <4>1. Tree(N, P, C, H, k, B, T, StartBlockHeight) /\ Indexed(N, C, H, X)
        BY <1>2
      <4>2. z \in 0 .. k - 1 /\ B[z] <= m /\ m <= T[z] /\ B[z] < m /\ g = X[<<z, m>>]
        BY <1>5, <3>2, <3>4
      <4>3. g \in 1 .. N /\ P[g] = X[<<z, m - 1>>]
        BY <4>1, <4>2, ChainLine
      <4>. QED BY <3>4, <4>3
    <3>. QED BY <1>2, <3>3, <3>4, <3>5
  <2>5. Ancestor(best, d) = a[d]
    BY <2>2, <2>4, AncestorOf
  <2>. QED BY <2>3, <2>5
<1>11. ParachainConfirmations > 0 => relay.BlockHeaders[h].para_height < ActiveBlockCount
  <2>1. relay.BlockHeaders[h].para_height \in Nat /\ ActiveBlockCount \in Nat
    <3>1. relay.BlockHeaders[h] \in RichBlockHeader
      BY <1>2, <1>3
    <3>. QED BY <1>1, <3>1 DEF RichBlockHeader, RelayInv, SecurityTypeOK
  <2>. QED BY <1>6, <2>1, RelayAssumption
<1>12. relay.BestBlockHeight - relay.BlockHeaders[h].block_height = d
  BY <1>2, <1>3, <1>4, <1>8
<1>. QED BY <1>4, <1>9, <1>10, <1>11, <1>12

(***************************************************************************)
(* A header that verify_block_header_inclusion accepts is an ancestor of   *)
(* the best block, with at least Confirmations headers from it to there,   *)
(* and is older than the current parachain block.                          *)
(***************************************************************************)
THEOREM VerifiedBlocksAreBuried == Spec => []VerifiedIsBuried
  BY RelayInvariant, BuriedHolds, PTL

(* A header leaves the main chain only in a reorganisation.                *)
LEMMA ReorgStep ==
    ASSUME RelayInv, [Next]_vars
    PROVE  (\E h \in Hashes : OnMain(h) /\ ~OnMain(h)')
              => relay'.BestBlockHeight >= relay.BestBlockHeight + Confirmations
<1>1. SUFFICES ASSUME NEW h \in Hashes, OnMain(h), ~OnMain(h)'
               PROVE  relay'.BestBlockHeight >= relay.BestBlockHeight + Confirmations
  OBVIOUS
<1>2. /\ relay.BlockHeaders[h].chain_id # relay'.BlockHeaders[h].chain_id
      /\ h \in DOMAIN relay.BlockHeaders
  BY <1>1 DEF OnMain, Hashes
<1>3. h \in Headers(relay)
  BY <1>2 DEF RelayInv, Stored, Shaped, Headers
<1>4. CASE \E t \in Timestamps, x \in Targets, n \in StartHeights : initialize(t, x, n)
  <2>1. Len(relay.BlockHeaders) = 0
    BY <1>4, InitializeStep
  <2>. QED BY <1>3, <2>1 DEF Headers
<1>5. CASE \E p \in DOMAIN relay.BlockHeaders, t \in Timestamps, x \in Targets :
              store_block_header(p, t, x)
  <2>1. PICK y : Grown(relay, relay', y) /\ RelayInv'
    BY <1>5, StoreStep
  <2>2. relay.BestBlockHeight + Confirmations <= relay'.BestBlockHeight
    BY <1>2, <1>3, <2>1 DEF Grown
  <2>3. /\ relay.BestBlockHeight \in Nat /\ relay'.BestBlockHeight \in Nat /\ Confirmations \in Nat
    BY <2>1, RelayAssumption DEF RelayInv, Headed
  <2>. QED BY <2>2, <2>3
<1>6. CASE UNCHANGED relayVars /\ [SecurityNext]_securityVars
  BY <1>2, <1>6 DEF relayVars
<1>. QED BY <1>4, <1>5, <1>6, NextCases

(***************************************************************************)
(* A header leaves the main chain only in a step that raises the best      *)
(* height by Confirmations.                                                *)
(***************************************************************************)
THEOREM ReorgsAreDeep == Spec => ReorgDepth
<1>1. RelayInv /\ [Next]_vars =>
         [(\E h \in Hashes : OnMain(h) /\ ~OnMain(h)')
             => relay'.BestBlockHeight >= relay.BestBlockHeight + Confirmations]_vars
  BY ReorgStep
<1>. QED BY <1>1, RelayInvariant, PTL DEF Spec, ReorgDepth

(* Once there is a best block, the best height and the clock never go      *)
(* back.                                                                   *)
LEMMA HeightGrows ==
    ASSUME RelayInv, [Next]_vars, best_block_exists
    PROVE  /\ relay.BestBlockHeight \in Nat /\ relay'.BestBlockHeight \in Nat
           /\ relay.BestBlockHeight <= relay'.BestBlockHeight
           /\ ActiveBlockCount \in Nat /\ ActiveBlockCount' \in Nat
           /\ ActiveBlockCount <= ActiveBlockCount'
<1>1. /\ RelayInv' /\ relay.BestBlockHeight \in Nat /\ relay'.BestBlockHeight \in Nat
      /\ ActiveBlockCount \in Nat /\ ActiveBlockCount' \in Nat
  BY NextHolds DEF RelayInv, Headed, SecurityTypeOK
<1>2. CASE \E t \in Timestamps, x \in Targets, n \in StartHeights : initialize(t, x, n)
  BY <1>2, InitializeStep DEF best_block_exists
<1>3. CASE \E p \in DOMAIN relay.BlockHeaders, t \in Timestamps, x \in Targets :
              store_block_header(p, t, x)
  <2>1. PICK y : Grown(relay, relay', y) /\ ActiveBlockCount' = ActiveBlockCount
    BY <1>3, StoreStep
  <2>. QED BY <1>1, <2>1 DEF Grown
<1>4. CASE UNCHANGED relayVars /\ [SecurityNext]_securityVars
  <2>1. ActiveBlockCount <= ActiveBlockCount' /\ relay' = relay
    BY <1>4, QuietStep DEF relayVars
  <2>. QED BY <1>1, <2>1
<1>. QED BY <1>2, <1>3, <1>4, NextCases

(***************************************************************************)
(* A request that has expired stays expired: neither a reorganisation nor  *)
(* the clock takes it back.                                                *)
(***************************************************************************)
THEOREM ExpiryHolds == Spec => ExpiryIsFinal
<1>1. ASSUME RelayInv, [Next]_vars
      PROVE  \A o \in 0 .. ActiveBlockCount, n \in StartBlockHeight .. relay.BestBlockHeight,
                p \in Periods :
                best_block_exists /\ has_request_expired(o, n, p) => has_request_expired(o, n, p)'
  <2>1. SUFFICES ASSUME NEW o \in 0 .. ActiveBlockCount,
                        NEW n \in StartBlockHeight .. relay.BestBlockHeight, NEW p \in Periods,
                        best_block_exists, has_request_expired(o, n, p)
                 PROVE  has_request_expired(o, n, p)'
    OBVIOUS
  <2>2. /\ relay.BestBlockHeight \in Nat /\ relay'.BestBlockHeight \in Nat
        /\ relay.BestBlockHeight <= relay'.BestBlockHeight
        /\ ActiveBlockCount \in Nat /\ ActiveBlockCount' \in Nat
        /\ ActiveBlockCount <= ActiveBlockCount'
    BY <1>1, <2>1, HeightGrows
  <2>3. o \in Nat /\ n \in Nat /\ p \in Nat /\ o + p \in Nat
    BY <1>1, <2>2, RelayAssumption DEF RelayInv
  <2>4. bitcoin_expiry_height(n, p) \in Int
    BY <2>3, RelayAssumption DEF bitcoin_expiry_height
  <2>5. ActiveBlockCount > o + p /\ relay.BestBlockHeight > bitcoin_expiry_height(n, p)
    BY <2>1 DEF has_request_expired, parachain_block_expired, bitcoin_block_expired
  <2>6. ActiveBlockCount' > o + p /\ relay'.BestBlockHeight > bitcoin_expiry_height(n, p)
    BY <2>2, <2>3, <2>4, <2>5
  <2>. QED BY <2>6 DEF has_request_expired, parachain_block_expired, bitcoin_block_expired,
                       bitcoin_expiry_height
<1>2. RelayInv /\ [Next]_vars =>
         [\A o \in 0 .. ActiveBlockCount, n \in StartBlockHeight .. relay.BestBlockHeight,
             p \in Periods :
             best_block_exists /\ has_request_expired(o, n, p)
                => has_request_expired(o, n, p)']_vars
  BY <1>1
<1>. QED BY <1>2, RelayInvariant, PTL DEF Spec, ExpiryIsFinal

(* a is the line of parents of h, Interval headers long.                   *)
LineOf(r, h, a) ==
    /\ a[0] = h
    /\ \A i \in 1 .. Interval : a[i - 1] \in Headers(r) /\ a[i] = r.BlockHeaders[a[i - 1]].prev
    /\ a[Interval] \in Headers(r)

(* The header h has the target that the headers below it ask for.          *)
RightTarget(r, h) ==
    LET header == r.BlockHeaders[h]
        parent == r.BlockHeaders[header.prev]
    IN  IF starts_period(header.block_height)
        THEN \E a : /\ LineOf(r, h, a)
                    /\ header.target = calculate_next_work_required(parent.target,
                                           r.BlockHeaders[a[Interval]].timestamp, parent.timestamp)
        ELSE header.target = parent.target

(* The inductive part of TargetsFollowConsensus.                           *)
TargetsRight ==
    ~DisableDifficultyCheck =>
        \A h \in Headers(relay) : relay.BlockHeaders[h].prev # 0 => RightTarget(relay, h)

(* A step that keeps the fields of headers keeps their targets right.      *)
LEMMA TargetKept ==
    ASSUME NEW r, NEW q, NEW h \in Headers(r), r.BlockHeaders[h].prev \in Headers(r),
           RightTarget(r, h), Headers(r) \subseteq Headers(q),
           \A g \in Headers(r) : SameHeader(q.BlockHeaders[g], r.BlockHeaders[g])
    PROVE  RightTarget(q, h)
<1>1. PICK g : g = r.BlockHeaders[h].prev
  OBVIOUS
<1>2. /\ q.BlockHeaders[h].prev = g /\ q.BlockHeaders[h].target = r.BlockHeaders[h].target
      /\ q.BlockHeaders[h].block_height = r.BlockHeaders[h].block_height
      /\ q.BlockHeaders[g].target = r.BlockHeaders[g].target
      /\ q.BlockHeaders[g].timestamp = r.BlockHeaders[g].timestamp
  BY <1>1 DEF SameHeader
<1>3. CASE starts_period(r.BlockHeaders[h].block_height)
  <2>1. PICK a : /\ LineOf(r, h, a)
                 /\ r.BlockHeaders[h].target =
                       calculate_next_work_required(r.BlockHeaders[g].target,
                           r.BlockHeaders[a[Interval]].timestamp, r.BlockHeaders[g].timestamp)
    BY <1>1, <1>3 DEF RightTarget
  <2>2. LineOf(q, h, a)
    BY <2>1 DEF LineOf, SameHeader
  <2>3. q.BlockHeaders[a[Interval]].timestamp = r.BlockHeaders[a[Interval]].timestamp
    BY <2>1 DEF LineOf, SameHeader
  <2>. QED BY <1>2, <1>3, <2>1, <2>2, <2>3 DEF RightTarget
<1>4. CASE ~starts_period(r.BlockHeaders[h].block_height)
  BY <1>1, <1>2, <1>4 DEF RightTarget
<1>. QED BY <1>3, <1>4

(* A header that passes verify_block_header has the right target: the      *)
(* first header of the period, looked up by height in the chain of the     *)
(* parent, is the one that the line of parents reaches.                    *)
LEMMA TargetStored ==
    ASSUME RelayInv, NEW q, NEW p \in Headers(relay), NEW N, N = Len(relay.BlockHeaders),
           NEW x, x.prev = p, x.block_height = relay.BlockHeaders[p].block_height + 1,
           x.target \in expected_target(relay, relay.BlockHeaders[p], x.block_height),
           Grown(relay, q, x)
    PROVE  RightTarget(q, N + 1)
<1>1. PICK M, P, C, H, k, B, T, X :
              /\ Tree(M, P, C, H, k, B, T, StartBlockHeight) /\ Indexed(M, C, H, X)
              /\ M \in Nat /\ k \in Nat /\ M = Len(relay.BlockHeaders)
              /\ \A g \in 1 .. M : /\ relay.BlockHeaders[g].prev = P[g]
                                   /\ relay.BlockHeaders[g].chain_id = C[g]
                                   /\ relay.BlockHeaders[g].block_height = H[g]
              /\ X = relay.ChainsHashes
  BY RelayFacts
<1>2. /\ N = M /\ N \in Nat /\ Headers(relay) = 1 .. N /\ p \in 1 .. N
      /\ Len(q.BlockHeaders) = N + 1 /\ Headers(q) = 1 .. N + 1
  BY <1>1 DEF Headers, Grown
<1>3. PICK i, n, r, y : /\ i = C[p] /\ n = x.block_height /\ r = relay.BlockHeaders[p]
                        /\ y = q.BlockHeaders[N + 1]
  OBVIOUS
<1>4. /\ i \in 0 .. k - 1 /\ H[p] \in Nat /\ n = H[p] + 1 /\ n \in Nat /\ r.chain_id = i
      /\ B[i] \in Nat /\ T[i] \in Nat /\ B[i] <= H[p] /\ H[p] <= T[i]
  <2>1. i \in 0 .. k - 1 /\ H[p] \in Nat
    BY <1>1, <1>2, <1>3, TreeTypes
  <2>2. B[C[p]] <= H[p] /\ H[p] <= T[C[p]]
    BY <1>1, <1>2 DEF Tree, Filled
  <2>3. B[i] \in Nat /\ T[i] \in Nat
    BY <1>1, <2>1, TreeTypes
  <2>. QED BY <1>1, <1>2, <1>3, <2>1, <2>2, <2>3, SMTT(30)
<1>5. y.prev = p /\ y.block_height = n /\ y.target = x.target
  BY <1>2, <1>3 DEF Grown, SameHeader
<1>6. \A g \in 1 .. N : SameHeader(q.BlockHeaders[g], relay.BlockHeaders[g]) /\ g \in 1 .. N + 1
  BY <1>2 DEF Grown
<1>7. /\ q.BlockHeaders[p].target = r.target /\ q.BlockHeaders[p].timestamp = r.timestamp
  BY <1>2, <1>3, <1>6 DEF SameHeader
<1>8. x.target \in expected_target(relay, r, n)
  BY <1>3
<1>9. CASE starts_period(n)
  <2>1. Interval \in Nat /\ Interval > 0 /\ n >= Interval
    BY <1>9, RelayAssumption DEF starts_period
  <2>2. PICK m \in Nat : m = n - Interval
    BY <1>4, <2>1
  <2>3. /\ <<i, m>> \in DOMAIN X
        /\ x.target = calculate_next_work_required(r.target,
                          relay.BlockHeaders[X[<<i, m>>]].timestamp, r.timestamp)
    BY <1>1, <1>4, <1>8, <1>9, <2>2, SMTT(60) DEF expected_target, get_last_retarget_time
  <2>4. X[<<i, m>>] \in 1 .. N /\ B[i] <= m
    <3>1. PICK g \in 1 .. N : g = X[<<i, m>>] /\ <<i, m>> = <<C[g], H[g]>>
      BY <1>1, <1>2, <2>3 DEF Indexed
    <3>2. C[g] = i /\ H[g] = m
      BY <3>1
    <3>3. B[C[g]] <= H[g]
      BY <1>1, <1>2 DEF Tree, Filled
    <3>. QED BY <3>1, <3>2, <3>3
  <2>5. PICK a : a = [j \in 0 .. Interval |-> IF j = 0 THEN N + 1 ELSE X[<<i, n - j>>]]
    OBVIOUS
  <2>6. a[0] = N + 1 /\ \A j \in 1 .. Interval : a[j] = X[<<i, n - j>>]
    BY <2>1, <2>5
  <2>7. a[1] = p
    <3>1. <<C[p], H[p]>> = <<i, n - 1>>
      BY <1>3, <1>4, SMTT(30)
    <3>2. X[<<C[p], H[p]>>] = p
      BY <1>1, <1>2 DEF Indexed
    <3>3. 1 \in 1 .. Interval
      BY <2>1
    <3>. QED BY <2>6, <3>1, <3>2, <3>3
  <2>8. ASSUME NEW j \in 1 .. Interval, j # 1
        PROVE  a[j - 1] \in 1 .. N /\ a[j] = relay.BlockHeaders[a[j - 1]].prev
    <3>1. PICK l \in Nat : l = n - (j - 1)
      BY <1>4, <2>1
    <3>2. j - 1 \in 1 .. Interval /\ l - 1 = n - j /\ B[i] < l /\ B[i] <= l /\ l <= T[i]
      <4>1. PICK b, u, c : b = B[i] /\ u = T[i] /\ c = H[p]
        OBVIOUS
      <4>2. /\ b \in Nat /\ u \in Nat /\ c \in Nat /\ n = c + 1 /\ c <= u
            /\ b <= m /\ m = n - Interval
        BY <1>4, <2>2, <2>4, <4>1
      <4>3. j \in Nat /\ 2 <= j /\ j <= Interval
        BY <2>1, <2>8
      <4>4. l - 1 = n - j /\ b < l /\ l <= u /\ j - 1 \in 1 .. Interval
        BY <2>1, <3>1, <4>2, <4>3
      <4>. QED BY <3>1, <4>1, <4>2, <4>4, SMTT(30)
    <3>3. PICK g : g = X[<<i, l>>]
      OBVIOUS
    <3>4. g \in 1 .. N /\ P[g] = X[<<i, l - 1>>]
      <4>1. Tree(N, P, C, H, k, B, T, StartBlockHeight) /\ Indexed(N, C, H, X) /\ i \in 0 .. k - 1
        BY <1>1, <1>2, <1>4
      <4>2. B[i] <= l /\ l <= T[i] /\ B[i] < l
        BY <3>2
      <4>. QED BY <3>3, <4>1, <4>2, ChainLine
    <3>5. a[j - 1] = g /\ a[j] = P[g]
      BY <2>6, <3>1, <3>2, <3>3, <3>4
    <3>. QED BY <1>1, <1>2, <3>4, <3>5
  <2>9. LineOf(q, N + 1, a)
    <3>1. N + 1 \in 1 .. N + 1
      BY <1>2
    <3>2. ASSUME NEW j \in 1 .. Interval
          PROVE  a[j - 1] \in Headers(q) /\ a[j] = q.BlockHeaders[a[j - 1]].prev
      <4>1. CASE j = 1
        <5>1. j - 1 = 0
          BY <4>1
        <5>2. a[j - 1] = N + 1 /\ a[j] = p
          BY <2>6, <2>7, <4>1, <5>1
        <5>. QED BY <1>2, <1>3, <1>5, <3>1, <5>2
      <4>2. CASE j # 1
        <5>1. a[j - 1] \in 1 .. N /\ a[j] = relay.BlockHeaders[a[j - 1]].prev
          BY <2>8, <4>2
        <5>. QED BY <1>2, <1>6, <5>1 DEF SameHeader
      <4>. QED BY <4>1, <4>2
    <3>3. a[Interval] \in Headers(q)
      <4>1. Interval \in 1 .. Interval
        BY <2>1
      <4>. QED BY <1>2, <1>6, <2>2, <2>4, <2>6, <4>1
    <3>. QED BY <2>6, <3>2, <3>3 DEF LineOf
  <2>10. q.BlockHeaders[a[Interval]].timestamp = relay.BlockHeaders[X[<<i, m>>]].timestamp
    <3>1. Interval \in 1 .. Interval
      BY <2>1
    <3>2. a[Interval] = X[<<i, m>>]
      BY <2>2, <2>6, <3>1
    <3>. QED BY <1>6, <2>4, <3>2 DEF SameHeader
  <2>. QED BY <1>3, <1>5, <1>7, <1>9, <2>3, <2>9, <2>10 DEF RightTarget
<1>10. CASE ~starts_period(n)
  <2>1. x.target = r.target
    BY <1>8, <1>10 DEF expected_target
  <2>. QED BY <1>3, <1>5, <1>7, <1>10, <2>1 DEF RightTarget
<1>. QED BY <1>9, <1>10

(* Every step keeps the targets right.                                     *)
LEMMA TargetsStep ==
    ASSUME RelayInv, TargetsRight, [Next]_vars
    PROVE  TargetsRight'
<1>1. CASE \E t \in Timestamps, x \in Targets, n \in StartHeights : initialize(t, x, n)
  <2>1. Len(relay'.BlockHeaders) = 1 /\ relay'.BlockHeaders[1].prev = 0
    BY <1>1, InitializeStep
  <2>2. \A h \in Headers(relay') : h = 1
    BY <2>1 DEF Headers
  <2>. QED BY <2>1, <2>2 DEF TargetsRight
<1>2. CASE \E p \in DOMAIN relay.BlockHeaders, t \in Timestamps, x \in Targets :
              store_block_header(p, t, x)
  <2>1. PICK p \in DOMAIN relay.BlockHeaders, t \in Timestamps, x \in Targets :
           store_block_header(p, t, x)
    BY <1>2
  <2>2. PICK r, q, N, n, y :
           /\ r = relay /\ q = relay' /\ N = Len(relay.BlockHeaders)
           /\ n = relay.BlockHeaders[p].block_height + 1 /\ y = new_header(p, t, x, n)
    OBVIOUS
  <2>3. /\ p \in Headers(r) /\ Grown(r, q, y) /\ DisableDifficultyCheck' = DisableDifficultyCheck
    BY <2>1, <2>2, StoreStep
  <2>4. N \in Nat /\ n \in Nat /\ p \in Nat /\ r.BlockHeaders \in Seq(RichBlockHeader)
    <3>1. r.BlockHeaders \in Seq(RichBlockHeader) /\ N \in Nat /\ p \in 1 .. N
      BY <2>2, <2>3 DEF RelayInv, Stored, Shaped, Headers
    <3>2. r.BlockHeaders[p] \in RichBlockHeader
      BY <2>2, <3>1
    <3>3. r.BlockHeaders[p].block_height \in Nat /\ n = r.BlockHeaders[p].block_height + 1
      BY <2>2, <3>2 DEF RichBlockHeader
    <3>4. n \in Nat /\ p \in Nat
      BY <3>1, <3>3
    <3>. QED BY <3>1, <3>4
  <2>5. y.prev = p /\ y.block_height = n /\ y.target = x
    BY <2>2, <2>4, NewHeader DEF RelayInv
  <2>6. SUFFICES ASSUME ~DisableDifficultyCheck,
                        NEW h \in Headers(q), q.BlockHeaders[h].prev # 0
                 PROVE  RightTarget(q, h)
    BY <2>2, <2>3 DEF TargetsRight
  <2>7. Headers(r) = 1 .. N /\ Headers(q) = 1 .. N + 1 /\ Headers(r) \subseteq Headers(q)
    BY <2>2, <2>3, <2>4 DEF Grown, Headers
  <2>8. CASE h = N + 1
    <3>1. x \in expected_target(relay, relay.BlockHeaders[p], n)
      BY <2>1, <2>2, <2>6 DEF store_block_header, verify_block_header
    <3>2. /\ p \in Headers(relay) /\ y.prev = p
          /\ y.block_height = relay.BlockHeaders[p].block_height + 1
          /\ y.target \in expected_target(relay, relay.BlockHeaders[p], y.block_height)
          /\ Grown(relay, q, y)
      BY <2>2, <2>3, <2>5, <3>1
    <3>3. RightTarget(q, N + 1)
      BY <2>2, <3>2, TargetStored
    <3>. QED BY <2>8, <3>3
  <2>9. CASE h # N + 1
    <3>1. h \in Headers(r)
      BY <2>4, <2>7, <2>9
    <3>2. \A g \in Headers(r) : SameHeader(q.BlockHeaders[g], r.BlockHeaders[g])
      BY <2>3 DEF Grown
    <3>3. r.BlockHeaders[h].prev # 0
      BY <2>6, <3>1, <3>2 DEF SameHeader
    <3>4. RightTarget(r, h)
      BY <2>2, <2>6, <3>1, <3>3 DEF TargetsRight
    <3>5. r.BlockHeaders[h].prev \in Headers(r)
      <4>1. PICK P : P = Prevs(r)
        OBVIOUS
      <4>2. P[h] \in 0 .. N /\ P[h] = r.BlockHeaders[h].prev
        BY <2>2, <2>7, <3>1, <4>1, TreeTypes DEF RelayInv, Stored, TreeOf, Prevs
      <4>. QED BY <2>4, <2>7, <3>3, <4>2
    <3>. QED BY <2>7, <3>1, <3>2, <3>4, <3>5, TargetKept
  <2>. QED BY <2>8, <2>9
<1>3. CASE UNCHANGED relayVars /\ [SecurityNext]_securityVars
  BY <1>3 DEF relayVars, TargetsRight
<1>. QED BY <1>1, <1>2, <1>3, NextCases

(* The line of parents is what Ancestor follows.                           *)
LEMMA TargetsHold == RelayInv /\ TargetsRight => TargetsFollowConsensus
<1>1. SUFFICES ASSUME RelayInv, TargetsRight, ~DisableDifficultyCheck,
                      NEW h \in Hashes, relay.BlockHeaders[h].prev # 0
               PROVE  LET header == relay.BlockHeaders[h]
                          parent == relay.BlockHeaders[header.prev]
                      IN  header.target =
                             IF starts_period(header.block_height)
                             THEN calculate_next_work_required(parent.target,
                                      relay.BlockHeaders[Ancestor(h, Interval)].timestamp,
                                      parent.timestamp)
                             ELSE parent.target
  BY DEF TargetsFollowConsensus
<1>2. h \in Headers(relay)
  BY <1>1 DEF Hashes, RelayInv, Stored, Shaped, Headers
<1>3. RightTarget(relay, h)
  BY <1>1, <1>2 DEF TargetsRight
<1>4. PICK g : g = relay.BlockHeaders[h].prev
  OBVIOUS
<1>5. CASE starts_period(relay.BlockHeaders[h].block_height)
  <2>1. PICK a : /\ LineOf(relay, h, a)
                 /\ relay.BlockHeaders[h].target =
                       calculate_next_work_required(relay.BlockHeaders[g].target,
                           relay.BlockHeaders[a[Interval]].timestamp,
                           relay.BlockHeaders[g].timestamp)
    BY <1>3, <1>4, <1>5 DEF RightTarget
  <2>2. Interval \in Nat
    BY RelayAssumption
  <2>3. a[0] = h /\ \A i \in 1 .. Interval : a[i] = relay.BlockHeaders[a[i - 1]].prev
    BY <2>1 DEF LineOf
  <2>4. Ancestor(h, Interval) = a[Interval]
    BY <2>2, <2>3, AncestorOf
  <2>. QED BY <1>4, <1>5, <2>1, <2>4
<1>6. CASE ~starts_period(relay.BlockHeaders[h].block_height)
  BY <1>3, <1>6 DEF RightTarget
<1>. QED BY <1>5, <1>6

(***************************************************************************)
(* With the difficulty check, every stored header has the target that its  *)
(* own line of ancestors asks for, whatever chains they are kept in and    *)
(* whichever were swapped since.                                           *)
(***************************************************************************)
THEOREM TargetsAreRight == Spec => []TargetsFollowConsensus
<1>1. Init => TargetsRight
  <2>1. SUFFICES ASSUME Init PROVE TargetsRight
    OBVIOUS
  <2>2. Len(relay.BlockHeaders) = 0
    BY <2>1 DEF Init
  <2>. QED BY <2>2 DEF TargetsRight, Headers
<1>2. RelayInv /\ TargetsRight /\ [Next]_vars => TargetsRight'
  BY TargetsStep
<1>. QED BY <1>1, <1>2, RelayInvariant, TargetsHold, PTL DEF Spec
=============================================================================
