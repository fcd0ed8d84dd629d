--------------------------- MODULE EscrowTheorems ---------------------------
(***************************************************************************)
(* What the operations of the escrow pallet do to its record: the types    *)
(* they keep, and the votes they give and take.                            *)
(***************************************************************************)
EXTENDS Escrow, DataTheorems

-----------------------------------------------------------------------------
(* Types, and what each operation does to reserved votes                   *)

PointType == [bias : Nat, slope : Nat, ts : Nat]
LockType == [amount : Nat, end : Nat]
Limits == {<<>>} \cup (Nat \X Nat)

EscrowType ==
    [locked : [Accounts -> LockType], user : [Accounts -> PointType], point : PointType,
     slope_changes : [Heights -> Nat], limits : [Accounts -> Limits], blocks : SUBSET Accounts,
     reserved : [Accounts -> Nat]]

LEMMA SaturatingNat ==
    ASSUME NEW x \in Nat, NEW y \in Nat
    PROVE  saturating_sub(x, y) \in Nat
BY DEF saturating_sub

LEMMA ProductNat ==
    ASSUME NEW x \in Nat, NEW y \in Nat
    PROVE  x * y \in Nat
OBVIOUS

LEMMA QuotientNat ==
    ASSUME NEW x \in Nat, NEW y \in Nat \ {0}
    PROVE  x \div y \in Nat
OBVIOUS

LEMMA PointTyped ==
    ASSUME NEW amount \in Nat, NEW start \in Nat, NEW end \in Nat, NEW period \in Nat
    PROVE  Point(amount, start, end, period) \in PointType
<1>1. PICK slope : slope = IF period = 0 THEN 0 ELSE amount \div period
  OBVIOUS
<1>2. slope \in Nat
  BY <1>1, QuotientNat
<1>3. slope * saturating_sub(end, start) \in Nat
  BY <1>2, SaturatingNat, ProductNat
<1>. QED BY <1>1, <1>2, <1>3 DEF Point, PointType

LEMMA ValueNat ==
    ASSUME NEW p \in PointType, NEW h \in Nat
    PROVE  value_at(p, h) \in Nat
<1>1. p.bias \in Nat /\ p.slope \in Nat /\ p.ts \in Nat
  BY DEF PointType
<1>2. p.slope * saturating_sub(h, p.ts) \in Nat
  BY <1>1, SaturatingNat, ProductNat
<1>. QED BY <1>1, <1>2, SaturatingNat DEF value_at

LEMMA RoundedNat ==
    ASSUME NEW h \in Nat
    PROVE  round_height(h) \in Nat
<1>1. h \div Span \in Nat
  BY EscrowAssumption, QuotientNat
<1>. QED BY <1>1, EscrowAssumption, ProductNat DEF round_height

(* One turn of the loop over the multiples of Span: the line goes on to    *)
(* the next multiple, or to the last block, and takes the change of slope. *)
turn(e, start, k, last, now) ==
    LET t == min(start + k * Span, now)
    IN  [bias |-> value_at(last, t),
         slope |-> last.slope + (IF start + k * Span > now THEN 0 ELSE e.slope_changes[t]),
         ts |-> t]

turns(start, now) == (now - start + Span - 1) \div Span

LEMMA TurnTyped ==
    ASSUME NEW e \in EscrowType, NEW start \in Nat, NEW now \in 0 .. MaxHeight,
           NEW k \in Nat, NEW p \in PointType
    PROVE  turn(e, start, k, p, now) \in PointType
<1>1. PICK x : x = start + k * Span
  OBVIOUS
<1>2. x \in Nat /\ now \in Nat /\ MaxHeight \in Nat /\ MaxPeriod \in Nat
  BY <1>1, EscrowAssumption, ProductNat
<1>3. PICK t : t = min(x, now)
  OBVIOUS
<1>4. t \in Nat /\ (~(x > now) => t \in Heights)
  BY <1>2, <1>3 DEF min, Heights
<1>5. p.slope \in Nat /\ (~(x > now) => e.slope_changes[t] \in Nat)
  BY <1>4 DEF PointType, EscrowType
<1>6. value_at(p, t) \in Nat
  BY <1>4, ValueNat
<1>7. p.slope + (IF x > now THEN 0 ELSE e.slope_changes[t]) \in Nat
  BY <1>5
<1>. QED BY <1>1, <1>3, <1>4, <1>6, <1>7 DEF PointType, turn

(* What the loop computes: its lines, one after another.                   *)
Follows(e, start, now, f, n) ==
    /\ f[0] = e.point
    /\ \A k \in 1 .. n : f[k] = turn(e, start, k, f[k - 1], now)
    /\ \A k \in 0 .. n : f[k] \in PointType

LEMMA AdvancedLine ==
    ASSUME NEW e \in EscrowType, NEW now \in 0 .. MaxHeight, NEW start,
           start = round_height(e.point.ts), ~(start >= now)
    PROVE  /\ start \in Nat /\ turns(start, now) \in Nat
           /\ \E f : /\ Follows(e, start, now, f, turns(start, now))
                     /\ advanced(e, now) = f[turns(start, now)]
<1>1. e.point \in PointType /\ e.slope_changes \in [Heights -> Nat] /\ start \in Nat
  BY RoundedNat DEF EscrowType, PointType
<1>2. Span \in Nat \ {0} /\ now \in Nat
  BY EscrowAssumption
<1>. DEFINE steps == turns(start, now)
            body(k, last) == turn(e, start, k, last, now)
            IsLine(f) == f = [k \in 0 .. steps |-> IF k = 0 THEN e.point ELSE body(k, f[k - 1])]
            line == CHOOSE f : IsLine(f)
            F == [p \in (1 .. steps) \X PointType |-> body(p[1], p[2])]
            T == [k \in 0 .. steps |-> PointType]
<1>3. advanced(e, now) = line[steps]
  BY <1>1 DEF advanced, turn, turns
<1>4. steps \in Nat
  <2>1. now - start + Span - 1 \in Nat
    BY <1>1, <1>2
  <2>. QED BY <1>2, <2>1, QuotientNat DEF turns
<1>5. ASSUME NEW k \in 1 .. steps, NEW p \in PointType
      PROVE  F[<<k, p>>] = body(k, p) /\ body(k, p) \in PointType
  <2>1. k \in Nat
    BY <1>4
  <2>2. body(k, p) \in PointType
    BY <1>1, <2>1, TurnTyped
  <2>3. <<k, p>> \in (1 .. steps) \X PointType
    BY <1>5
  <2>. HIDE DEF body, steps
  <2>. QED BY <2>2, <2>3
<1>. HIDE DEF body, steps, F
<1>6. ASSUME NEW f, \A k \in 0 .. steps : f[k] \in PointType
      PROVE  IsLine(f) <=> Recursion(f, e.point, F, steps)
  <2>1. \A k \in 0 .. steps : k # 0 => k \in 1 .. steps /\ k - 1 \in 0 .. steps
    BY <1>4
  <2>2. \A k \in 0 .. steps : k # 0 => F[<<k, f[k - 1]>>] = body(k, f[k - 1])
    BY <1>5, <1>6, <2>1
  <2>. QED BY <2>2, Zenon DEF Recursion
<1>7. e.point \in T[0] /\ \A k \in 1 .. steps : \A s \in T[k - 1] : F[<<k, s>>] \in T[k]
  BY <1>1, <1>4, <1>5
<1>8. PICK g : Recursion(g, e.point, F, steps)
  BY <1>4, RecursionExists
<1>9. \A k \in 0 .. steps : g[k] \in PointType
  <2>1. \A k \in 0 .. steps : g[k] \in T[k]
    BY <1>4, <1>7, <1>8, RecursionInvariant, Zenon
  <2>. QED BY <2>1
<1>10. IsLine(g)
  BY <1>6, <1>8, <1>9, Zenon
<1>11. IsLine(line)
  <2>. HIDE DEF IsLine
  <2>. QED BY <1>10, Zenon
<1>. HIDE DEF line
<1>12. line[0] = e.point /\ \A k \in 1 .. steps : line[k] = body(k, line[k - 1])
  BY <1>4, <1>11
<1>13. \A k \in 0 .. steps : line[k] \in PointType
  <2>. DEFINE S == {n \in Nat : n <= steps => line[n] \in PointType}
  <2>1. 0 \in S
    BY <1>1, <1>12
  <2>2. ASSUME NEW n \in Nat, n \in S PROVE n + 1 \in S
    <3>1. SUFFICES ASSUME n + 1 <= steps PROVE line[n + 1] \in PointType
      OBVIOUS
    <3>2. n + 1 \in 1 .. steps /\ (n + 1) - 1 = n /\ n <= steps
      BY <1>4, <3>1
    <3>3. line[n + 1] = body(n + 1, line[n])
      BY <1>12, <3>2
    <3>4. line[n] \in PointType
      BY <2>2, <3>2
    <3>. QED BY <1>5, <3>2, <3>3, <3>4
  <2>. HIDE DEF S
  <2>3. Nat \subseteq S
    BY <2>1, <2>2, NatSetInduction
  <2>. QED BY <1>4, <2>3 DEF S
<1>14. Follows(e, start, now, line, steps)
  BY <1>12, <1>13 DEF Follows, body
<1>. QED BY <1>1, <1>3, <1>4, <1>14 DEF steps

LEMMA AdvancedTyped ==
    ASSUME NEW e \in EscrowType, NEW now \in 0 .. MaxHeight
    PROVE  advanced(e, now) \in PointType
<1>1. PICK start : start = round_height(e.point.ts)
  OBVIOUS
<1>2. CASE start >= now
  BY <1>1, <1>2 DEF advanced, EscrowType
<1>3. CASE ~(start >= now)
  <2>1. PICK n, f : n \in Nat /\ Follows(e, start, now, f, n) /\ advanced(e, now) = f[n]
    BY <1>1, <1>3, AdvancedLine
  <2>2. n \in 0 .. n
    BY <2>1
  <2>. QED BY <2>1, <2>2 DEF Follows
<1>. QED BY <1>2, <1>3

LEMMA SupplyNat ==
    ASSUME NEW e \in EscrowType, NEW now \in 0 .. MaxHeight
    PROVE  total_supply(e, now) \in Nat
BY AdvancedTyped DEF total_supply, PointType

LEMMA CurrentLineTyped ==
    ASSUME NEW lock \in LockType, NEW now \in Nat
    PROVE  current_line(lock, now) \in PointType
<1>1. lock.amount \in Nat /\ lock.end \in Nat /\ MaxPeriod \in Nat
  BY EscrowAssumption DEF LockType
<1>2. NoPoint \in PointType
  BY DEF NoPoint, PointType
<1>. QED BY <1>1, <1>2, PointTyped DEF current_line

(* A checkpoint leaves reserved votes alone.                               *)
LEMMA CheckpointTyped ==
    ASSUME NEW e \in EscrowType, NEW who \in Accounts, NEW old \in LockType, NEW new \in LockType,
           NEW now \in 0 .. MaxHeight
    PROVE  /\ checkpoint(e, who, old, new, now) \in EscrowType
           /\ checkpoint(e, who, old, new, now).reserved = e.reserved
<1>1. PICK u_old, u_new, last :
          /\ u_old = current_line(old, now) /\ u_new = current_line(new, now)
          /\ last = advanced(e, now)
  OBVIOUS
<1>2. u_old \in PointType /\ u_new \in PointType /\ last \in PointType
  <2>1. now \in Nat
    BY EscrowAssumption
  <2>. QED BY <1>1, <2>1, CurrentLineTyped, AdvancedTyped
<1>3. PICK old_dslope : old_dslope = e.slope_changes[old.end] + u_old.slope
  OBVIOUS
<1>. DEFINE changed(c) ==
                 IF old.end <= now THEN c
                 ELSE IF new.end = old.end THEN saturating_sub(old_dslope, u_new.slope)
                 ELSE old_dslope
            first == [e.slope_changes EXCEPT ![old.end] = changed(@)]
            changes == [e.slope_changes EXCEPT
                ![old.end] =
                    IF old.end <= now THEN @
                    ELSE IF new.end = old.end THEN saturating_sub(old_dslope, u_new.slope)
                    ELSE old_dslope,
                ![new.end] =
                    IF new.end > now /\ new.end > old.end THEN saturating_sub(@, u_new.slope)
                    ELSE @]
            point == [last EXCEPT !.slope = @ + saturating_sub(u_new.slope, u_old.slope),
                                  !.bias = @ + saturating_sub(u_new.bias, u_old.bias)]
<1>4. checkpoint(e, who, old, new, now) =
          [e EXCEPT !.point = point, !.slope_changes = changes, !.user[who] = u_new]
  BY <1>1, <1>3 DEF checkpoint
<1>5. point \in PointType
  <2>1. /\ saturating_sub(u_new.slope, u_old.slope) \in Nat
        /\ saturating_sub(u_new.bias, u_old.bias) \in Nat
    BY <1>2, SaturatingNat DEF PointType
  <2>2. last.slope \in Nat /\ last.bias \in Nat
    BY <1>2 DEF PointType
  <2>3. PICK x, y : /\ x = last.slope + saturating_sub(u_new.slope, u_old.slope)
                    /\ y = last.bias + saturating_sub(u_new.bias, u_old.bias)
    OBVIOUS
  <2>4. x \in Nat /\ y \in Nat
    BY <2>1, <2>2, <2>3
  <2>5. point = [last EXCEPT !.slope = x, !.bias = y]
    BY <2>3
  <2>. HIDE DEF point
  <2>. QED BY <1>2, <2>4, <2>5 DEF PointType
<1>6. changes \in [Heights -> Nat]
  <2>0. e.slope_changes \in [Heights -> Nat] /\ u_old.slope \in Nat /\ u_new.slope \in Nat
    BY <1>2 DEF EscrowType, PointType
  <2>1. first \in [Heights -> Nat]
    <3>1. CASE old.end \in Heights
      <4>1. e.slope_changes[old.end] \in Nat /\ old_dslope \in Nat
        BY <1>3, <2>0, <3>1
      <4>2. saturating_sub(old_dslope, u_new.slope) \in Nat
        BY <2>0, <4>1, SaturatingNat
      <4>3. changed(e.slope_changes[old.end]) \in Nat
        BY <4>1, <4>2
      <4>. HIDE DEF changed
      <4>. QED BY <2>0, <3>1, <4>3
    <3>2. CASE old.end \notin Heights
      BY <2>0, <3>2
    <3>. QED BY <3>1, <3>2
  <2>4. changes = [first EXCEPT
            ![new.end] = IF new.end > now /\ new.end > old.end
                         THEN saturating_sub(@, u_new.slope) ELSE @]
    OBVIOUS
  <2>. HIDE DEF first, changes
  <2>2. CASE new.end \in Heights
    <3>1. saturating_sub(first[new.end], u_new.slope) \in Nat /\ first[new.end] \in Nat
      BY <2>0, <2>1, <2>2, SaturatingNat
    <3>. QED BY <2>1, <2>2, <2>4, <3>1
  <2>3. CASE new.end \notin Heights
    BY <2>1, <2>3, <2>4
  <2>. QED BY <2>2, <2>3
<1>. HIDE DEF point, changes
<1>7. PICK f : f = [e EXCEPT !.point = point, !.slope_changes = changes]
  OBVIOUS
<1>8. f \in EscrowType /\ f.reserved = e.reserved
  BY <1>5, <1>6, <1>7 DEF EscrowType
<1>9. checkpoint(e, who, old, new, now) = [f EXCEPT !.user[who] = u_new]
  BY <1>4, <1>7
<1>10. PICK u : u = [f.user EXCEPT ![who] = u_new]
  OBVIOUS
<1>11. u \in [Accounts -> PointType]
  BY <1>2, <1>8, <1>10 DEF EscrowType
<1>12. checkpoint(e, who, old, new, now) = [f EXCEPT !.user = u]
  BY <1>9, <1>10
<1>. QED BY <1>8, <1>11, <1>12 DEF EscrowType

(* Depositing into a lock, and ending it.                                  *)
LEMMA DepositForTyped ==
    ASSUME NEW e \in EscrowType, NEW who \in Accounts, NEW amount \in Nat, NEW unlock \in Nat,
           NEW free, NEW now \in 0 .. MaxHeight,
           NEW x \in deposit_for(e, who, amount, unlock, free, now)
    PROVE  x \in EscrowType /\ x.reserved = e.reserved
<1>1. PICK old, new : old = e.locked[who] /\ new = new_lock(old, amount, unlock)
  OBVIOUS
<1>2. old \in LockType
  BY <1>1 DEF EscrowType
<1>3. new \in LockType
  BY <1>1, <1>2 DEF new_lock, LockType
<1>4. PICK f : f = [e EXCEPT !.locked[who] = new]
  OBVIOUS
<1>5. f \in EscrowType /\ f.reserved = e.reserved
  BY <1>3, <1>4 DEF EscrowType
<1>6. x = checkpoint(f, who, old, new, now)
  BY <1>1, <1>4 DEF deposit_for, Try
<1>. QED BY <1>2, <1>3, <1>5, <1>6, CheckpointTyped

LEMMA IncreaseAmountTyped ==
    ASSUME NEW e \in EscrowType, NEW who \in Accounts, NEW amount \in Nat, NEW free,
           NEW now \in 0 .. MaxHeight, NEW x \in increase_amount(e, who, amount, free, now)
    PROVE  x \in EscrowType /\ x.reserved = e.reserved
<1>1. x \in deposit_for(e, who, amount, 0, free, now)
  BY DEF increase_amount
<1>. QED BY <1>1, DepositForTyped

LEMMA RemoveLockTyped ==
    ASSUME NEW e \in EscrowType, NEW who \in Accounts, NEW now \in 0 .. MaxHeight,
           NEW x \in remove_lock(e, who, now)
    PROVE  x \in EscrowType /\ x.reserved = e.reserved
<1>1. PICK old : old = e.locked[who]
  OBVIOUS
<1>2. old \in LockType /\ NoLock \in LockType
  BY <1>1 DEF EscrowType, LockType, NoLock
<1>3. PICK f : f = [e EXCEPT !.locked[who] = NoLock]
  OBVIOUS
<1>4. f \in EscrowType /\ f.reserved = e.reserved
  BY <1>2, <1>3 DEF EscrowType
<1>5. x = checkpoint(f, who, old, NoLock, now)
  BY <1>1, <1>3 DEF remove_lock, Try
<1>. QED BY <1>2, <1>4, <1>5, CheckpointTyped

LEMMA ReserveTyped ==
    ASSUME NEW e \in EscrowType, NEW who \in Accounts, NEW value \in Nat, NEW now,
           NEW x \in reserve(e, who, value, now)
    PROVE  /\ x \in EscrowType
           /\ \A a \in Accounts : x.reserved[a] = e.reserved[a] + (IF a = who THEN value ELSE 0)
<1>1. x = [e EXCEPT !.reserved[who] = @ + value]
  BY DEF reserve, Try
<1>2. e.reserved \in [Accounts -> Nat]
  BY DEF EscrowType
<1>3. PICK r : r = [e.reserved EXCEPT ![who] = @ + value]
  OBVIOUS
<1>4. /\ r \in [Accounts -> Nat]
      /\ \A a \in Accounts : r[a] = e.reserved[a] + (IF a = who THEN value ELSE 0)
  BY <1>2, <1>3
<1>5. x = [e EXCEPT !.reserved = r]
  BY <1>1, <1>3
<1>. QED BY <1>4, <1>5 DEF EscrowType

LEMMA UnreserveTyped ==
    ASSUME NEW e \in EscrowType, NEW who \in Accounts, NEW value \in Nat
    PROVE  LET x == unreserve(e, who, value) IN
           /\ x \in EscrowType
           /\ \A a \in Accounts : x.reserved[a] = IF a = who THEN saturating_sub(e.reserved[a], value)
                                                  ELSE e.reserved[a]
<1>1. e.reserved[who] \in Nat /\ saturating_sub(e.reserved[who], value) \in Nat
  BY SaturatingNat DEF EscrowType
<1>. QED BY <1>1 DEF EscrowType, unreserve

-----------------------------------------------------------------------------
(* The total's line: changes of slope are never negative, so that votes    *)
(* only decay faster than the last line says                               *)

LEMMA SaturatingSub ==
    ASSUME NEW x \in Nat, NEW y \in Nat
    PROVE  /\ saturating_sub(x, y) \in Nat /\ saturating_sub(x, y) <= x
           /\ y <= x => saturating_sub(x, y) = x - y
           /\ x <= y => saturating_sub(x, y) = 0
           /\ x <= saturating_sub(x, y) + y
BY DEF saturating_sub

LEMMA SlopeMonotone ==
    ASSUME NEW s \in Nat, NEW r \in Nat, NEW x \in Nat, NEW y \in Nat, s <= r
    PROVE  /\ s * x \in Nat /\ r * x \in Nat /\ s * x <= r * x
           /\ s * (x + y) = s * x + s * y /\ s * y \in Nat
BY SMT

(* A line that starts on or below another and falls at least as fast stays *)
(* on or below it.                                                         *)
LEMMA ValueBelow ==
    ASSUME NEW p \in PointType, NEW q \in PointType, NEW h \in Nat, p.ts <= q.ts, q.ts <= h,
           q.bias <= value_at(p, q.ts), p.slope <= q.slope
    PROVE  value_at(q, h) <= value_at(p, h)
<1>1. PICK b, s, c, r, x, y :
          /\ b = p.bias /\ s = p.slope /\ c = q.bias /\ r = q.slope
          /\ x = h - q.ts /\ y = q.ts - p.ts
  OBVIOUS
<1>2. /\ b \in Nat /\ s \in Nat /\ c \in Nat /\ r \in Nat /\ x \in Nat /\ y \in Nat /\ s <= r
      /\ x + y = h - p.ts /\ q.ts \in Nat /\ p.ts \in Nat
      /\ p.ts <= h
  BY <1>1 DEF PointType
<1>3. /\ saturating_sub(h, q.ts) = x /\ saturating_sub(q.ts, p.ts) = y
      /\ saturating_sub(h, p.ts) = x + y
  BY <1>1, <1>2 DEF saturating_sub
<1>4. PICK sx, rx, sy : sx = s * x /\ rx = r * x /\ sy = s * y
  OBVIOUS
<1>5. sx \in Nat /\ rx \in Nat /\ sy \in Nat /\ sx <= rx /\ s * (x + y) = sx + sy
  BY <1>2, <1>4, SlopeMonotone
<1>6. /\ value_at(q, h) = saturating_sub(c, rx)
      /\ value_at(p, q.ts) = saturating_sub(b, sy)
      /\ value_at(p, h) = saturating_sub(b, sx + sy)
  BY <1>1, <1>3, <1>4, <1>5 DEF value_at
<1>7. c <= saturating_sub(b, sy)
  BY <1>1, <1>6
<1>. QED BY <1>2, <1>5, <1>6, <1>7 DEF saturating_sub

LEMMA RoundedDown ==
    ASSUME NEW h \in Nat
    PROVE  round_height(h) \in Nat /\ round_height(h) <= h /\ h < round_height(h) + Span
<1>1. Span \in Nat \ {0}
  BY EscrowAssumption
<1>. QED BY <1>1, SMT DEF round_height

LEMMA TurnsReach ==
    ASSUME NEW start \in Nat, NEW now \in Nat, start < now
    PROVE  turns(start, now) \in Nat \ {0} /\ start + turns(start, now) * Span >= now
<1>1. Span \in Nat \ {0}
  BY EscrowAssumption
<1>2. PICK x : x = now - start + Span - 1
  OBVIOUS
<1>3. x \in Nat /\ x >= Span
  BY <1>1, <1>2
<1>4. x \div Span \in Nat /\ x < (x \div Span) * Span + Span
  BY <1>1, <1>3, SMT
<1>5. PICK n, m : n = x \div Span /\ m = n * Span
  OBVIOUS
<1>6. n = 0 => m = 0
  BY <1>1, <1>5
<1>7. n \in Nat \ {0} /\ start + m >= now
  <2>1. m \in Nat
    BY <1>1, <1>4, <1>5, ProductNat
  <2>. QED BY <1>1, <1>2, <1>3, <1>4, <1>5, <1>6, <2>1
<1>. QED BY <1>2, <1>5, <1>7 DEF turns

LEMMA AdvancedBelow ==
    ASSUME NEW e \in EscrowType, NEW now \in 0 .. MaxHeight, e.point.ts <= now
    PROVE  /\ advanced(e, now).ts = now
           /\ e.point.slope <= advanced(e, now).slope
           /\ advanced(e, now).bias <= value_at(e.point, now)
<1>1. PICK start, p : start = round_height(e.point.ts) /\ p = e.point
  OBVIOUS
<1>2. /\ p \in PointType /\ p.bias \in Nat /\ p.slope \in Nat /\ p.ts \in Nat /\ now \in Nat
      /\ p.ts <= now /\ Span \in Nat \ {0} /\ start \in Nat
      /\ start <= p.ts /\ p.ts < start + Span
  BY <1>1, EscrowAssumption, RoundedDown DEF EscrowType, PointType
<1>3. p.bias <= value_at(p, p.ts)
  <2>1. saturating_sub(p.ts, p.ts) = 0 /\ p.slope * 0 = 0
    BY <1>2 DEF saturating_sub
  <2>. QED BY <1>2, <2>1 DEF value_at, saturating_sub
<1>4. CASE start >= now
  <2>1. p.ts = now /\ advanced(e, now) = p
    BY <1>1, <1>2, <1>4 DEF advanced
  <2>. QED BY <1>1, <1>2, <1>3, <2>1
<1>5. CASE ~(start >= now)
  <2>1. PICK n, f : n = turns(start, now) /\ Follows(e, start, now, f, n) /\ advanced(e, now) = f[n]
    BY <1>1, <1>5, AdvancedLine
  <2>2. n \in Nat \ {0} /\ start + n * Span >= now
    BY <1>2, <1>5, <2>1, TurnsReach
  <2>. DEFINE Below(k) == /\ f[k].ts = IF k = 0 THEN p.ts ELSE min(start + k * Span, now)
                          /\ p.ts <= f[k].ts
                          /\ p.slope <= f[k].slope /\ f[k].bias <= value_at(p, f[k].ts)
              S == {k \in Nat : k <= n => Below(k)}
  <2>3. 0 \in S
    BY <1>1, <1>2, <1>3, <2>1 DEF Follows
  <2>4. ASSUME NEW k \in Nat, k \in S PROVE k + 1 \in S
    <3>1. SUFFICES ASSUME k + 1 <= n PROVE Below(k + 1)
      OBVIOUS
    <3>2. k + 1 \in 1 .. n /\ (k + 1) - 1 = k /\ k \in 0 .. n /\ k + 1 \in 0 .. n /\ k + 1 # 0 /\ k <= n
      BY <2>2, <3>1
    <3>3. PICK q, x, y, t : /\ q = f[k] /\ x = start + k * Span /\ y = start + (k + 1) * Span
                            /\ t = min(y, now)
      OBVIOUS
    <3>4. q \in PointType /\ f[k + 1] = turn(e, start, k + 1, q, now) /\ Below(k)
      BY <2>1, <2>4, <3>2, <3>3 DEF Follows
    <3>5. x \in Nat /\ y = x + Span
      <4>1. (k + 1) * Span = k * Span + Span /\ k * Span \in Nat
        BY <1>2, SMT
      <4>2. PICK u, v : u = k * Span /\ v = (k + 1) * Span
        OBVIOUS
      <4>. QED BY <1>2, <3>3, <4>1, <4>2
    <3>6. q.ts \in Nat /\ q.ts <= t /\ p.ts <= t /\ t \in Nat
      <4>1. k = 0 => q.ts = p.ts
        BY <3>3, <3>4
      <4>2. k # 0 => q.ts = min(x, now)
        BY <3>3, <3>4
      <4>3. start + Span <= y
        <5>1. start <= x
          <6>1. k * Span \in Nat
            BY <1>2, ProductNat
          <6>. QED BY <1>2, <3>3, <6>1
        <5>. QED BY <1>2, <3>5, <5>1
      <4>4. p.ts <= q.ts /\ q.ts \in Nat
        BY <3>3, <3>4 DEF PointType
      <4>5. CASE k = 0
        BY <1>2, <3>3, <3>5, <4>1, <4>3, <4>5 DEF min
      <4>6. CASE k # 0
        BY <1>2, <3>3, <3>5, <4>2, <4>4, <4>6 DEF min
      <4>. QED BY <4>5, <4>6
    <3>7. /\ f[k + 1].ts = t /\ f[k + 1].bias = value_at(q, t) /\ q.slope <= f[k + 1].slope
      <4>1. f[k + 1] = [bias |-> value_at(q, t),
                        slope |-> q.slope + (IF y > now THEN 0 ELSE e.slope_changes[t]), ts |-> t]
        BY <3>3, <3>4 DEF turn
      <4>2. ~(y > now) => t \in Heights
        <5>1. MaxHeight \in Nat /\ MaxPeriod \in Nat
          BY EscrowAssumption
        <5>. QED BY <1>2, <3>3, <3>6, <5>1 DEF min, Heights
      <4>3. q.slope \in Nat /\ (~(y > now) => e.slope_changes[t] \in Nat)
        BY <3>4, <4>2 DEF PointType, EscrowType
      <4>. QED BY <4>1, <4>3
    <3>8. value_at(q, t) <= value_at(p, t)
      <4>1. p.ts <= q.ts /\ p.slope <= q.slope /\ q.bias <= value_at(p, q.ts)
        BY <3>3, <3>4
      <4>. QED BY <1>2, <3>4, <3>6, <4>1, ValueBelow
    <3>9. p.slope <= f[k + 1].slope
      <4>1. p.slope <= q.slope /\ q.slope \in Nat /\ f[k + 1].slope \in Nat
        BY <2>1, <3>2, <3>3, <3>4 DEF Follows, PointType
      <4>. QED BY <1>2, <3>7, <4>1
    <3>. QED BY <3>2, <3>3, <3>6, <3>7, <3>8, <3>9
  <2>. HIDE DEF S
  <2>5. Nat \subseteq S
    BY <2>3, <2>4, NatSetInduction
  <2>6. n \in Nat /\ n <= n /\ n # 0
    BY <2>2
  <2>7. Below(n)
    BY <2>5, <2>6 DEF S
  <2>8. f[n].ts = now
    <3>1. PICK z : z = start + n * Span
      OBVIOUS
    <3>2. z >= now /\ z \in Nat
      <4>1. n * Span \in Nat
        BY <1>2, <2>6, ProductNat
      <4>. QED BY <1>2, <2>2, <3>1, <4>1
    <3>3. f[n].ts = min(z, now)
      BY <2>6, <2>7, <3>1
    <3>. QED BY <1>2, <3>2, <3>3 DEF min
  <2>. QED BY <1>1, <2>1, <2>7, <2>8
<1>. QED BY <1>4, <1>5

-----------------------------------------------------------------------------
(* No vote is counted twice                                                *)

votesAt(e, h) == [a \in Accounts |-> value_at(e.user[a], h)]
slopes(e) == [a \in Accounts |-> e.user[a].slope]

(* The line of an account is that of its lock while the lock lives, and    *)
(* has come to zero after that.                                            *)
LineKept(e, a, h) ==
    /\ e.user[a].ts <= h
    /\ e.locked[a].end \in Heights
    /\ IF e.locked[a].end > h
       THEN /\ e.locked[a].amount > 0
            /\ e.user[a] = Point(e.locked[a].amount, e.user[a].ts, e.locked[a].end, MaxPeriod)
       ELSE value_at(e.user[a], h) = 0

(* The total starts on or below the sum of the votes and falls as fast as  *)
(* all of them together.                                                   *)
VotesCounted(e, h) ==
    /\ e \in EscrowType
    /\ e.point.ts <= h
    /\ \A a \in Accounts : LineKept(e, a, h)
    /\ Total(slopes(e), Accounts) <= e.point.slope
    /\ value_at(e.point, h) <= Total(votesAt(e, h), Accounts)

(* A lock that still lives is only ever made larger and longer.            *)
Grows(old, new, h) ==
    /\ old.end > h => old.amount <= new.amount /\ old.end <= new.end
    /\ new.end > h => new.amount > 0

(* A line of slope s that reaches zero d blocks after its start.           *)
falling(s, d, start) == [bias |-> s * d, slope |-> s, ts |-> start]
rate(amount) == amount \div MaxPeriod

LEMMA PointFields ==
    ASSUME NEW amount \in Nat, NEW start \in Nat, NEW end \in Nat, start <= end
    PROVE  /\ Point(amount, start, end, MaxPeriod) = falling(rate(amount), end - start, start)
           /\ rate(amount) \in Nat
<1>1. MaxPeriod \in Nat \ {0}
  BY EscrowAssumption
<1>2. saturating_sub(end, start) = end - start
  BY DEF saturating_sub
<1>3. rate(amount) \in Nat
  BY <1>1, QuotientNat DEF rate
<1>. QED BY <1>1, <1>2, <1>3 DEF Point, falling, rate

(* The value of a line at its own start.                                   *)
LEMMA ValueAtStart ==
    ASSUME NEW p \in PointType
    PROVE  value_at(p, p.ts) = p.bias
<1>1. p.bias \in Nat /\ p.slope \in Nat /\ p.ts \in Nat
  BY DEF PointType
<1>2. saturating_sub(p.ts, p.ts) = 0 /\ p.slope * 0 = 0
  BY <1>1 DEF saturating_sub
<1>. QED BY <1>1, <1>2 DEF value_at, saturating_sub

LEMMA NowLine ==
    ASSUME NEW l \in LockType, NEW h \in Nat
    PROVE  LET u == current_line(l, h) IN
           /\ u \in PointType /\ u.ts <= h /\ value_at(u, h) = u.bias
           /\ l.end > h /\ l.amount > 0 => u = Point(l.amount, h, l.end, MaxPeriod)
           /\ ~(l.end > h /\ l.amount > 0) => u = NoPoint /\ u.bias = 0 /\ u.slope = 0
<1>1. PICK u : u = current_line(l, h)
  OBVIOUS
<1>2. l.amount \in Nat /\ l.end \in Nat /\ u \in PointType
  BY <1>1, CurrentLineTyped DEF LockType
<1>3. CASE l.end > h /\ l.amount > 0
  <2>1. u = Point(l.amount, h, l.end, MaxPeriod)
    BY <1>1, <1>3 DEF current_line
  <2>2. u.ts = h
    <3>1. h <= l.end
      BY <1>2, <1>3
    <3>2. u = falling(rate(l.amount), l.end - h, h)
      BY <1>2, <2>1, <3>1, PointFields
    <3>. QED BY <3>2 DEF falling
  <2>3. value_at(u, h) = u.bias
    BY <1>2, <2>2, ValueAtStart
  <2>. QED BY <1>1, <1>2, <1>3, <2>1, <2>2, <2>3
<1>4. CASE ~(l.end > h /\ l.amount > 0)
  <2>1. u = NoPoint
    BY <1>1, <1>4 DEF current_line
  <2>2. u.bias = 0 /\ u.slope = 0 /\ u.ts = 0
    BY <2>1 DEF NoPoint
  <2>3. value_at(u, h) = 0
    <3>1. saturating_sub(h, 0) = h /\ 0 * h = 0 /\ saturating_sub(0, 0) = 0
      BY DEF saturating_sub
    <3>. QED BY <2>2, <3>1 DEF value_at
  <2>. QED BY <1>1, <1>2, <1>4, <2>1, <2>2, <2>3
<1>. QED BY <1>3, <1>4

(* What the checkpoint takes for the old votes is what they are.           *)
LEMMA OldLine ==
    ASSUME NEW e \in EscrowType, NEW a \in Accounts, NEW h \in Nat, LineKept(e, a, h)
    PROVE  LET u == current_line(e.locked[a], h) IN
           u.bias = value_at(e.user[a], h) /\ u.slope <= e.user[a].slope
<1>1. PICK l, u, o : l = e.locked[a] /\ u = current_line(l, h) /\ o = e.user[a]
  OBVIOUS
<1>2. /\ l \in LockType /\ l.amount \in Nat /\ l.end \in Nat /\ o \in PointType
      /\ o.ts \in Nat /\ o.slope \in Nat /\ o.ts <= h
  BY <1>1 DEF EscrowType, LockType, PointType, LineKept
<1>3. CASE l.end > h
  <2>1. /\ l.amount > 0 /\ o = Point(l.amount, o.ts, l.end, MaxPeriod)
        /\ u = Point(l.amount, h, l.end, MaxPeriod)
    BY <1>1, <1>2, <1>3, NowLine DEF LineKept
  <2>2. PICK s, x, y : s = rate(l.amount) /\ x = l.end - h /\ y = h - o.ts
    OBVIOUS
  <2>3. /\ x \in Nat /\ y \in Nat /\ h <= l.end /\ o.ts <= l.end /\ x + y = l.end - o.ts
    BY <1>2, <1>3, <2>2
  <2>4. u.slope = s /\ u.bias = s * x /\ s \in Nat
    <3>1. u = falling(s, x, h) /\ s \in Nat
      BY <1>2, <2>1, <2>2, <2>3, PointFields
    <3>. QED BY <3>1 DEF falling
  <2>5. o.slope = s /\ o.bias = s * (x + y)
    <3>1. o = falling(s, x + y, o.ts)
      BY <1>2, <2>1, <2>2, <2>3, PointFields
    <3>. QED BY <3>1 DEF falling
  <2>6. PICK sx, sy : sx = s * x /\ sy = s * y
    OBVIOUS
  <2>7. sx \in Nat /\ sy \in Nat /\ s * (x + y) = sx + sy
    BY <2>3, <2>4, <2>6, SlopeMonotone
  <2>8. saturating_sub(h, o.ts) = y
    BY <1>2, <2>2 DEF saturating_sub
  <2>9. value_at(o, h) = saturating_sub(sx + sy, sy)
    BY <2>5, <2>6, <2>7, <2>8 DEF value_at
  <2>10. value_at(o, h) = sx
    BY <2>7, <2>9 DEF saturating_sub
  <2>. QED BY <1>1, <1>2, <2>4, <2>5, <2>6, <2>10
<1>4. CASE ~(l.end > h)
  <2>1. u.bias = 0 /\ u.slope = 0
    BY <1>1, <1>2, <1>4, NowLine
  <2>2. value_at(o, h) = 0
    BY <1>1, <1>4 DEF LineKept
  <2>. QED BY <1>1, <1>2, <2>1, <2>2
<1>. QED BY <1>3, <1>4

LEMMA QuotientMonotone ==
    ASSUME NEW x \in Nat, NEW y \in Nat, NEW z \in Nat \ {0}, x <= y
    PROVE  x \div z \in Nat /\ y \div z \in Nat /\ x \div z <= y \div z
BY SMT

LEMMA ProductsGrow ==
    ASSUME NEW s \in Nat, NEW r \in Nat, NEW x \in Nat, NEW y \in Nat, s <= r, x <= y
    PROVE  s * x <= r * y
BY SMT

LEMMA LineGrows ==
    ASSUME NEW old \in LockType, NEW new \in LockType, NEW h \in Nat, Grows(old, new, h)
    PROVE  current_line(old, h).bias <= current_line(new, h).bias
<1>1. PICK u, v : u = current_line(old, h) /\ v = current_line(new, h)
  OBVIOUS
<1>2. /\ old.amount \in Nat /\ old.end \in Nat /\ new.amount \in Nat /\ new.end \in Nat
      /\ v.bias \in Nat
  BY <1>1, NowLine DEF LockType, PointType
<1>3. CASE old.end > h /\ old.amount > 0
  <2>1. new.end > h /\ new.amount > 0 /\ old.amount <= new.amount /\ old.end <= new.end
    BY <1>2, <1>3 DEF Grows
  <2>2. u = Point(old.amount, h, old.end, MaxPeriod) /\ v = Point(new.amount, h, new.end, MaxPeriod)
    BY <1>1, <1>3, <2>1, NowLine
  <2>3. PICK s, r, x, y : /\ s = rate(old.amount) /\ r = rate(new.amount)
                          /\ x = old.end - h /\ y = new.end - h
    OBVIOUS
  <2>4. u.bias = s * x /\ v.bias = r * y
    <3>1. h <= old.end /\ h <= new.end
      BY <1>2, <1>3, <2>1
    <3>2. u = falling(s, x, h) /\ v = falling(r, y, h)
      BY <1>2, <2>2, <2>3, <3>1, PointFields
    <3>. QED BY <3>2 DEF falling
  <2>5. s \in Nat /\ r \in Nat /\ s <= r
    BY <1>2, <2>1, <2>3, QuotientMonotone, EscrowAssumption DEF rate
  <2>6. x \in Nat /\ y \in Nat /\ x <= y
    BY <1>2, <1>3, <2>1, <2>3
  <2>7. s * x <= r * y
    BY <2>5, <2>6, ProductsGrow
  <2>. QED BY <1>1, <2>4, <2>7
<1>4. CASE ~(old.end > h /\ old.amount > 0)
  <2>1. u.bias = 0
    BY <1>1, <1>4, NowLine
  <2>. QED BY <1>1, <1>2, <2>1
<1>. QED BY <1>3, <1>4

(* Time passes: lines fall by their slopes.                                *)
LEMMA ValueFalls ==
    ASSUME NEW p \in PointType, NEW h \in Nat, p.ts <= h
    PROVE  value_at(p, h + 1) = saturating_sub(value_at(p, h), p.slope)
<1>1. PICK b, s, x : b = p.bias /\ s = p.slope /\ x = h - p.ts
  OBVIOUS
<1>2. b \in Nat /\ s \in Nat /\ x \in Nat /\ p.ts \in Nat
  BY <1>1 DEF PointType
<1>3. saturating_sub(h, p.ts) = x /\ saturating_sub(h + 1, p.ts) = x + 1
  BY <1>1, <1>2 DEF saturating_sub
<1>4. PICK sx : sx = s * x
  OBVIOUS
<1>5. sx \in Nat /\ s * (x + 1) = sx + s
  BY <1>2, <1>4, SMT
<1>6. value_at(p, h) = saturating_sub(b, sx) /\ value_at(p, h + 1) = saturating_sub(b, sx + s)
  BY <1>1, <1>3, <1>4, <1>5 DEF value_at
<1>. QED BY <1>1, <1>2, <1>5, <1>6 DEF saturating_sub

LEMMA LineKeptOn ==
    ASSUME NEW e \in EscrowType, NEW a \in Accounts, NEW h \in Nat, LineKept(e, a, h)
    PROVE  LineKept(e, a, h + 1)
<1>1. PICK l, o : l = e.locked[a] /\ o = e.user[a]
  OBVIOUS
<1>2. /\ l \in LockType /\ l.amount \in Nat /\ l.end \in Nat /\ o \in PointType
      /\ o.ts \in Nat /\ o.slope \in Nat /\ o.ts <= h /\ o.ts <= h + 1
      /\ l.end \in Heights /\ value_at(o, h) \in Nat
  BY <1>1, ValueNat DEF EscrowType, LockType, PointType, LineKept
<1>3. CASE l.end > h + 1
  <2>1. l.end > h
    BY <1>2, <1>3
  <2>. QED BY <1>1, <1>2, <1>3, <2>1 DEF LineKept
<1>4. CASE l.end = h + 1
  <2>1. l.amount > 0 /\ o = Point(l.amount, o.ts, l.end, MaxPeriod)
    BY <1>1, <1>2, <1>4 DEF LineKept
  <2>2. PICK s, x : s = rate(l.amount) /\ x = (h + 1) - o.ts
    OBVIOUS
  <2>3. o = falling(s, x, o.ts) /\ s \in Nat /\ x \in Nat
    <3>1. o.ts <= l.end
      BY <1>2, <1>4
    <3>2. o = falling(rate(l.amount), l.end - o.ts, o.ts) /\ rate(l.amount) \in Nat
      BY <1>2, <2>1, <3>1, PointFields
    <3>. QED BY <1>2, <1>4, <2>2, <3>2
  <2>4. o.bias = s * x /\ o.slope = s /\ saturating_sub(h + 1, o.ts) = x
    BY <1>2, <2>2, <2>3 DEF falling, saturating_sub
  <2>5. value_at(o, h + 1) = saturating_sub(s * x, s * x) /\ s * x \in Nat
    BY <2>3, <2>4, ProductNat DEF value_at
  <2>6. value_at(o, h + 1) = 0
    BY <2>5 DEF saturating_sub
  <2>. QED BY <1>1, <1>2, <1>4, <2>6 DEF LineKept
<1>5. CASE l.end <= h
  <2>1. value_at(o, h) = 0
    BY <1>1, <1>2, <1>5 DEF LineKept
  <2>2. value_at(o, h + 1) = 0
    BY <1>2, <2>1, ValueFalls DEF saturating_sub
  <2>3. ~(l.end > h + 1)
    BY <1>2, <1>5
  <2>. QED BY <1>1, <1>2, <2>2, <2>3 DEF LineKept
<1>. QED BY <1>2, <1>3, <1>4, <1>5

LEMMA VotesAtTyped ==
    ASSUME NEW e \in EscrowType, NEW h \in Nat
    PROVE  \A a \in Accounts : /\ votesAt(e, h)[a] = value_at(e.user[a], h)
                               /\ votesAt(e, h)[a] \in Nat
                               /\ slopes(e)[a] = e.user[a].slope /\ slopes(e)[a] \in Nat
<1>1. \A a \in Accounts : e.user[a] \in PointType
  BY DEF EscrowType
<1>. QED BY <1>1, ValueNat DEF votesAt, slopes, PointType

LEMMA VotesDecay ==
    ASSUME IsFiniteSet(Accounts), NEW e, NEW h \in Nat, VotesCounted(e, h)
    PROVE  VotesCounted(e, h + 1)
<1>1. e \in EscrowType /\ e.point \in PointType /\ e.point.ts <= h /\ e.point.ts \in Nat
      /\ h + 1 \in Nat /\ e.point.slope \in Nat
  BY DEF VotesCounted, EscrowType, PointType
<1>2. \A a \in Accounts : LineKept(e, a, h + 1)
  BY <1>1, LineKeptOn DEF VotesCounted
<1>3. PICK v, w, s : v = votesAt(e, h) /\ w = votesAt(e, h + 1) /\ s = slopes(e)
  OBVIOUS
<1>4. \A a \in Accounts : w[a] \in Nat /\ s[a] \in Nat /\ v[a] \in Nat /\ v[a] <= w[a] + s[a]
  <2>1. SUFFICES ASSUME NEW a \in Accounts
                 PROVE  w[a] \in Nat /\ s[a] \in Nat /\ v[a] \in Nat /\ v[a] <= w[a] + s[a]
    OBVIOUS
  <2>2. e.user[a] \in PointType /\ e.user[a].ts <= h
    BY <1>1 DEF VotesCounted, LineKept, EscrowType
  <2>3. /\ w[a] = value_at(e.user[a], h + 1) /\ v[a] = value_at(e.user[a], h)
        /\ s[a] = e.user[a].slope /\ w[a] \in Nat /\ v[a] \in Nat /\ s[a] \in Nat
    BY <1>1, <1>3, VotesAtTyped
  <2>4. w[a] = saturating_sub(v[a], s[a])
    BY <2>2, <2>3, ValueFalls
  <2>. QED BY <2>3, <2>4, SaturatingSub
<1>5. Total(v, Accounts) <= Total(w, Accounts) + Total(s, Accounts)
  BY <1>4, TotalBounded
<1>6. Total(v, Accounts) \in Nat /\ Total(w, Accounts) \in Nat /\ Total(s, Accounts) \in Nat
  BY <1>4, TotalNat
<1>7. value_at(e.point, h + 1) = saturating_sub(value_at(e.point, h), e.point.slope)
      /\ value_at(e.point, h) \in Nat
  BY <1>1, ValueFalls, ValueNat
<1>8. value_at(e.point, h + 1) <= Total(w, Accounts)
  <2>1. value_at(e.point, h) <= Total(v, Accounts) /\ Total(s, Accounts) <= e.point.slope
    BY <1>3 DEF VotesCounted
  <2>2. PICK x, y, z : x = Total(v, Accounts) /\ y = Total(w, Accounts) /\ z = Total(s, Accounts)
    OBVIOUS
  <2>. QED BY <1>1, <1>5, <1>6, <1>7, <2>1, <2>2 DEF saturating_sub
<1>9. Total(slopes(e), Accounts) <= e.point.slope /\ e.point.ts <= h + 1
  BY <1>1 DEF VotesCounted
<1>. QED BY <1>1, <1>2, <1>3, <1>8, <1>9 DEF VotesCounted

LEMMA NewVotes == IsFiniteSet(Accounts) => VotesCounted(NewEscrow, 0)
<1>. SUFFICES ASSUME IsFiniteSet(Accounts) PROVE VotesCounted(NewEscrow, 0)
  OBVIOUS
<1>1. NewEscrow \in EscrowType
  BY DEF NewEscrow, EscrowType, NoLock, NoPoint, LockType, PointType, Limits
<1>2. /\ NewEscrow.point = NoPoint
      /\ \A a \in Accounts : NewEscrow.user[a] = NoPoint /\ NewEscrow.locked[a] = NoLock
  BY DEF NewEscrow
<1>3. NoPoint.ts = 0 /\ NoPoint.slope = 0 /\ NoPoint.bias = 0 /\ NoLock.end = 0
  BY DEF NoPoint, NoLock
<1>4. value_at(NoPoint, 0) = 0
  <2>1. NoPoint \in PointType
    BY DEF NoPoint, PointType
  <2>. QED BY <1>3, <2>1, ValueAtStart
<1>5. 0 \in Heights
  BY EscrowAssumption DEF Heights
<1>6. \A a \in Accounts : LineKept(NewEscrow, a, 0)
  BY <1>2, <1>3, <1>4, <1>5 DEF LineKept
<1>7. Total(slopes(NewEscrow), Accounts) = 0 /\ Total(votesAt(NewEscrow, 0), Accounts) = 0
  <2>1. \A a \in Accounts : slopes(NewEscrow)[a] = 0 /\ votesAt(NewEscrow, 0)[a] = 0
    BY <1>1, <1>2, <1>3, <1>4, VotesAtTyped
  <2>. QED BY <2>1, TotalZero
<1>. QED BY <1>1, <1>2, <1>3, <1>4, <1>6, <1>7 DEF VotesCounted

LEMMA CheckpointFields ==
    ASSUME NEW e \in EscrowType, NEW who \in Accounts, NEW old, NEW new, NEW now,
           NEW u_old, u_old = current_line(old, now), NEW u_new, u_new = current_line(new, now),
           NEW last, last = advanced(e, now), last \in PointType,
           NEW x, x = checkpoint(e, who, old, new, now)
    PROVE  /\ x.locked = e.locked
           /\ x.user = [e.user EXCEPT ![who] = u_new]
           /\ x.point.ts = last.ts
           /\ x.point.slope = last.slope + saturating_sub(u_new.slope, u_old.slope)
           /\ x.point.bias = last.bias + saturating_sub(u_new.bias, u_old.bias)
<1>1. PICK changes, point :
          x = [e EXCEPT !.point = point, !.slope_changes = changes, !.user[who] = u_new]
          /\ point = [last EXCEPT !.slope = @ + saturating_sub(u_new.slope, u_old.slope),
                                  !.bias = @ + saturating_sub(u_new.bias, u_old.bias)]
  BY DEF checkpoint
<1>2. x.locked = e.locked /\ x.point = point
  BY <1>1 DEF EscrowType
<1>3. x.user = [e.user EXCEPT ![who] = u_new]
  BY <1>1 DEF EscrowType
<1>4. /\ point.ts = last.ts
      /\ point.slope = last.slope + saturating_sub(u_new.slope, u_old.slope)
      /\ point.bias = last.bias + saturating_sub(u_new.bias, u_old.bias)
  BY <1>1 DEF PointType
<1>. QED BY <1>2, <1>3, <1>4

LEMMA OneChanges ==
    ASSUME IsFiniteSet(Accounts), NEW who \in Accounts, NEW f, NEW g,
           \A a \in Accounts : f[a] \in Nat /\ g[a] \in Nat /\ (a # who => g[a] = f[a])
    PROVE  Total(g, Accounts) = Total(f, Accounts) - f[who] + g[who]
BY TotalChange

(* A checkpoint that follows a change of one lock.                         *)
relocked(e, who, new) == [e EXCEPT !.locked[who] = new]

LEMMA CheckpointVotes ==
    ASSUME IsFiniteSet(Accounts), NEW e, NEW h \in 0 .. MaxHeight, VotesCounted(e, h),
           NEW who \in Accounts, NEW new \in LockType, new.end \in Heights,
           Grows(e.locked[who], new, h),
           NEW f, f = relocked(e, who, new),
           NEW x, x = checkpoint(f, who, e.locked[who], new, h)
    PROVE  /\ VotesCounted(x, h) /\ x.reserved = e.reserved
           /\ value_at(x.user[who], h) = x.user[who].bias
           /\ x.user[who] = current_line(new, h)
           /\ \A a \in Accounts : a # who => x.user[a] = e.user[a]
<1>1. PICK old, u_old, u_new, last :
          /\ old = e.locked[who] /\ u_old = current_line(old, h) /\ u_new = current_line(new, h)
          /\ last = advanced(f, h)
  OBVIOUS
<1>2. /\ e \in EscrowType /\ old \in LockType /\ h \in Nat /\ LineKept(e, who, h)
      /\ e.point \in PointType /\ e.point.ts <= h
  BY <1>1, EscrowAssumption DEF VotesCounted, EscrowType
<1>3. f \in EscrowType /\ f.point = e.point /\ f.user = e.user /\ f.reserved = e.reserved
      /\ f.locked = [e.locked EXCEPT ![who] = new]
  BY <1>2 DEF EscrowType, relocked
<1>4. /\ u_new \in PointType /\ u_new.ts <= h /\ value_at(u_new, h) = u_new.bias
      /\ new.end > h /\ new.amount > 0 => u_new = Point(new.amount, h, new.end, MaxPeriod)
      /\ ~(new.end > h /\ new.amount > 0) => u_new.bias = 0
      /\ u_old \in PointType
  BY <1>1, <1>2, NowLine
<1>5. u_old.bias = value_at(e.user[who], h) /\ u_old.slope <= e.user[who].slope
  BY <1>1, <1>2, OldLine
<1>6. u_old.bias <= u_new.bias
  BY <1>1, <1>2, LineGrows
<1>7. /\ last \in PointType /\ last.ts = h /\ e.point.slope <= last.slope
      /\ last.bias <= value_at(e.point, h)
  BY <1>1, <1>2, <1>3, AdvancedTyped, AdvancedBelow
<1>8. x \in EscrowType /\ x.reserved = e.reserved
  BY <1>1, <1>2, <1>3, CheckpointTyped
<1>9. /\ x.locked = f.locked /\ x.user = [f.user EXCEPT ![who] = u_new]
      /\ x.point.ts = last.ts
      /\ x.point.slope = last.slope + saturating_sub(u_new.slope, u_old.slope)
      /\ x.point.bias = last.bias + saturating_sub(u_new.bias, u_old.bias)
  BY <1>1, <1>3, <1>7, CheckpointFields
<1>10. /\ x.user[who] = u_new /\ x.locked[who] = new
       /\ \A a \in Accounts : a # who => x.user[a] = e.user[a] /\ x.locked[a] = e.locked[a]
  BY <1>2, <1>3, <1>9 DEF EscrowType
<1>11. ASSUME NEW a \in Accounts PROVE LineKept(x, a, h)
  <2>1. CASE a # who
    <3>1. LineKept(e, a, h) /\ x.user[a] = e.user[a] /\ x.locked[a] = e.locked[a]
      BY <1>10, <2>1 DEF VotesCounted
    <3>. QED BY <3>1 DEF LineKept
  <2>2. CASE a = who
    <3>1. CASE new.end > h
      <4>1. new.amount > 0 /\ u_new = Point(new.amount, h, new.end, MaxPeriod)
        BY <1>4, <3>1 DEF Grows
      <4>2. u_new.ts = h
        <5>1. new.amount \in Nat /\ new.end \in Nat /\ h <= new.end
          BY <1>2, <3>1 DEF LockType
        <5>2. u_new = falling(rate(new.amount), new.end - h, h)
          BY <1>2, <4>1, <5>1, PointFields
        <5>. QED BY <5>2 DEF falling
      <4>. QED BY <1>4, <1>10, <2>2, <3>1, <4>1, <4>2 DEF LineKept
    <3>2. CASE ~(new.end > h)
      BY <1>4, <1>10, <2>2, <3>2 DEF LineKept
    <3>. QED BY <3>1, <3>2
  <2>. QED BY <2>1, <2>2
<1>12. PICK v, w, s, r : v = votesAt(e, h) /\ w = votesAt(x, h) /\ s = slopes(e) /\ r = slopes(x)
  OBVIOUS
<1>13. \A a \in Accounts : /\ v[a] = value_at(e.user[a], h) /\ v[a] \in Nat
                           /\ w[a] = value_at(x.user[a], h) /\ w[a] \in Nat
                           /\ s[a] = e.user[a].slope /\ s[a] \in Nat
                           /\ r[a] = x.user[a].slope /\ r[a] \in Nat
  BY <1>2, <1>8, <1>12, VotesAtTyped
<1>14. Total(w, Accounts) = Total(v, Accounts) - v[who] + w[who]
  <2>1. \A a \in Accounts : v[a] \in Nat /\ w[a] \in Nat /\ (a # who => w[a] = v[a])
    BY <1>10, <1>13
  <2>. QED BY <2>1, OneChanges
<1>15. Total(r, Accounts) = Total(s, Accounts) - s[who] + r[who]
  <2>1. \A a \in Accounts : s[a] \in Nat /\ r[a] \in Nat /\ (a # who => r[a] = s[a])
    BY <1>10, <1>13
  <2>. QED BY <2>1, OneChanges
<1>16. Total(v, Accounts) \in Nat /\ Total(s, Accounts) \in Nat
  BY <1>13, TotalNat
<1>17. /\ v[who] = u_old.bias /\ w[who] = u_new.bias /\ r[who] = u_new.slope
       /\ u_old.slope <= s[who] /\ s[who] \in Nat
  BY <1>4, <1>5, <1>10, <1>13
<1>18. /\ u_old.bias \in Nat /\ u_new.bias \in Nat /\ u_old.slope \in Nat /\ u_new.slope \in Nat
       /\ last.bias \in Nat /\ last.slope \in Nat /\ e.point.slope \in Nat
       /\ value_at(e.point, h) \in Nat
  BY <1>2, <1>4, <1>7, ValueNat DEF PointType
<1>19. Total(s, Accounts) <= e.point.slope /\ value_at(e.point, h) <= Total(v, Accounts)
  BY <1>12 DEF VotesCounted
<1>20. Total(r, Accounts) <= x.point.slope
  <2>1. PICK R, S : R = Total(r, Accounts) /\ S = Total(s, Accounts)
    OBVIOUS
  <2>. QED BY <1>7, <1>9, <1>15, <1>16, <1>17, <1>18, <1>19, <2>1 DEF saturating_sub
<1>21. x.point.bias <= Total(w, Accounts)
  <2>1. PICK W, V : W = Total(w, Accounts) /\ V = Total(v, Accounts)
    OBVIOUS
  <2>. QED BY <1>6, <1>7, <1>9, <1>14, <1>16, <1>17, <1>18, <1>19, <2>1 DEF saturating_sub
<1>22. x.point \in PointType /\ x.point.ts = h /\ value_at(x.point, h) = x.point.bias
  BY <1>7, <1>8, <1>9, ValueAtStart DEF EscrowType
<1>23. VotesCounted(x, h)
  <2>1. x.point.ts <= h
    BY <1>2, <1>22
  <2>. QED BY <1>8, <1>11, <1>12, <1>20, <1>21, <1>22, <2>1 DEF VotesCounted
<1>. QED BY <1>1, <1>4, <1>8, <1>10, <1>23

(* What a change of who's lock leaves: the votes counted, who's line from  *)
(* now on, and the lines of the others.                                    *)
Relocks(e, x, who, h) ==
    /\ VotesCounted(x, h) /\ x.reserved = e.reserved
    /\ value_at(x.user[who], h) = x.user[who].bias
    /\ \A a \in Accounts : a # who => x.user[a] = e.user[a]

LEMMA DepositVotes ==
    ASSUME IsFiniteSet(Accounts), NEW e, NEW h \in 0 .. MaxHeight, VotesCounted(e, h),
           NEW who \in Accounts, NEW amount \in Nat, NEW unlock \in Heights,
           e.locked[who].end > h => unlock = 0 \/ unlock >= e.locked[who].end,
           NEW free, NEW x \in deposit_for(e, who, amount, unlock, free, h)
    PROVE  Relocks(e, x, who, h)
<1>1. PICK old, new : old = e.locked[who] /\ new = new_lock(old, amount, unlock)
  OBVIOUS
<1>2. /\ MaxPeriod \in Nat \ {0} /\ MaxHeight \in Nat /\ unlock \in Nat
      /\ old.amount \in Nat /\ old.end \in Nat /\ old.end \in Heights
  BY <1>1, EscrowAssumption DEF VotesCounted, EscrowType, LockType, LineKept, Heights
<1>3. /\ new.amount = old.amount + amount
      /\ new.end = IF unlock > 0 THEN unlock ELSE old.end
      /\ new \in LockType /\ new.end \in Heights
  BY <1>1, <1>2 DEF new_lock, LockType
<1>4. new.amount >= MaxPeriod /\ x = checkpoint(relocked(e, who, new), who, old, new, h)
  BY <1>1 DEF deposit_for, Try, relocked
<1>5. Grows(old, new, h)
  BY <1>1, <1>2, <1>3, <1>4 DEF Grows
<1>6. PICK f : f = relocked(e, who, new)
  OBVIOUS
<1>7. x = checkpoint(f, who, e.locked[who], new, h) /\ Grows(e.locked[who], new, h)
  BY <1>1, <1>4, <1>5, <1>6
<1>8. /\ VotesCounted(x, h) /\ x.reserved = e.reserved
      /\ value_at(x.user[who], h) = x.user[who].bias
      /\ \A a \in Accounts : a # who => x.user[a] = e.user[a]
  BY <1>3, <1>6, <1>7, CheckpointVotes
<1>. QED BY <1>8 DEF Relocks

LEMMA RoundedHeight ==
    ASSUME NEW h \in 0 .. MaxHeight, NEW u \in Heights, round_height(u) <= h + MaxPeriod
    PROVE  round_height(u) \in Heights
<1>1. u \in Nat /\ MaxHeight \in Nat /\ MaxPeriod \in Nat
  BY EscrowAssumption DEF Heights
<1>2. round_height(u) \in Nat
  BY <1>1, RoundedNat
<1>. QED BY <1>1, <1>2 DEF Heights

LEMMA CreateLockVotes ==
    ASSUME IsFiniteSet(Accounts), NEW e, NEW h \in 0 .. MaxHeight, VotesCounted(e, h),
           NEW who \in Accounts, NEW amount \in Nat, NEW u \in Heights, NEW free,
           NEW x \in create_lock(e, who, amount, u, free, h)
    PROVE  Relocks(e, x, who, h)
<1>1. PICK end : end = round_height(u)
  OBVIOUS
<1>2. /\ e.locked[who].amount = 0 /\ end <= h + MaxPeriod
      /\ x \in deposit_for(e, who, amount, end, free, h)
  BY <1>1 DEF create_lock
<1>3. end \in Heights
  BY <1>1, <1>2, RoundedHeight
<1>4. ~(e.locked[who].end > h)
  BY <1>2 DEF VotesCounted, LineKept
<1>. QED BY <1>2, <1>3, <1>4, DepositVotes

LEMMA ZeroHeight == 0 \in Heights
BY EscrowAssumption DEF Heights

LEMMA IncreaseAmountVotes ==
    ASSUME IsFiniteSet(Accounts), NEW e, NEW h \in 0 .. MaxHeight, VotesCounted(e, h),
           NEW who \in Accounts, NEW amount \in Nat, NEW free,
           NEW x \in increase_amount(e, who, amount, free, h)
    PROVE  Relocks(e, x, who, h)
<1>1. x \in deposit_for(e, who, amount, 0, free, h)
  BY DEF increase_amount
<1>. QED BY <1>1, DepositVotes, ZeroHeight

LEMMA IncreaseUnlockVotes ==
    ASSUME IsFiniteSet(Accounts), NEW e, NEW h \in 0 .. MaxHeight, VotesCounted(e, h),
           NEW who \in Accounts, NEW u \in Heights, NEW free,
           NEW x \in increase_unlock_height(e, who, u, free, h)
    PROVE  Relocks(e, x, who, h)
<1>1. PICK end : end = round_height(u)
  OBVIOUS
<1>2. /\ end > e.locked[who].end /\ end <= h + MaxPeriod
      /\ x \in deposit_for(e, who, 0, end, free, h)
  BY <1>1 DEF increase_unlock_height
<1>3. end \in Heights
  BY <1>1, <1>2, RoundedHeight
<1>4. end >= e.locked[who].end
  <2>1. end \in Nat /\ e.locked[who].end \in Nat
    BY <1>3, EscrowAssumption DEF VotesCounted, EscrowType, LockType, Heights
  <2>. QED BY <1>2, <2>1
<1>5. 0 \in Nat
  OBVIOUS
<1>. QED BY <1>2, <1>3, <1>4, <1>5, DepositVotes

LEMMA RemoveLockVotes ==
    ASSUME IsFiniteSet(Accounts), NEW e, NEW h \in 0 .. MaxHeight, VotesCounted(e, h),
           NEW who \in Accounts, NEW x \in remove_lock(e, who, h)
    PROVE  Relocks(e, x, who, h) /\ x.user[who].bias = 0
<1>1. PICK old : old = e.locked[who]
  OBVIOUS
<1>2. /\ old.end \in Nat /\ h \in Nat /\ NoLock \in LockType /\ NoLock.end = 0
  BY <1>1, EscrowAssumption DEF VotesCounted, EscrowType, LockType, NoLock
<1>3. h >= old.end /\ x = checkpoint(relocked(e, who, NoLock), who, old, NoLock, h)
  BY <1>1 DEF remove_lock, Try, relocked
<1>4. PICK f : f = relocked(e, who, NoLock)
  OBVIOUS
<1>5. /\ x = checkpoint(f, who, e.locked[who], NoLock, h) /\ NoLock.end \in Heights
      /\ Grows(e.locked[who], NoLock, h)
  BY <1>1, <1>2, <1>3, <1>4, ZeroHeight DEF Grows
<1>6. /\ VotesCounted(x, h) /\ x.reserved = e.reserved
      /\ value_at(x.user[who], h) = x.user[who].bias
      /\ x.user[who] = current_line(NoLock, h)
      /\ \A a \in Accounts : a # who => x.user[a] = e.user[a]
  BY <1>2, <1>4, <1>5, CheckpointVotes
<1>7. x.user[who].bias = 0
  <2>1. ~(NoLock.end > h /\ NoLock.amount > 0)
    BY <1>2
  <2>. QED BY <1>2, <1>6, <2>1, NowLine
<1>. QED BY <1>6, <1>7 DEF Relocks

(* Votes are counted as before when locks, lines and the total stay.       *)
LEMMA VotesSame ==
    ASSUME NEW e, NEW x \in EscrowType, NEW h, VotesCounted(e, h),
           x.user = e.user, x.locked = e.locked, x.point = e.point
    PROVE  VotesCounted(x, h)
<1>1. slopes(x) = slopes(e) /\ votesAt(x, h) = votesAt(e, h)
  BY DEF slopes, votesAt
<1>2. \A a \in Accounts : LineKept(x, a, h)
  BY DEF VotesCounted, LineKept
<1>. QED BY <1>1, <1>2 DEF VotesCounted

(* The total the referenda are measured against.                           *)
LEMMA SupplyBelowVotes ==
    ASSUME IsFiniteSet(Accounts), NEW e, NEW h \in 0 .. MaxHeight, VotesCounted(e, h)
    PROVE  total_supply(e, h) <= Total(votesAt(e, h), Accounts)
<1>1. e \in EscrowType /\ e.point.ts <= h /\ e.point \in PointType /\ h \in Nat
  BY EscrowAssumption DEF VotesCounted, EscrowType
<1>2. advanced(e, h).bias <= value_at(e.point, h) /\ advanced(e, h).bias \in Nat
  BY <1>1, AdvancedBelow, AdvancedTyped DEF PointType
<1>3. value_at(e.point, h) \in Nat /\ Total(votesAt(e, h), Accounts) \in Nat
  BY <1>1, ValueNat, VotesAtTyped, TotalNat
<1>4. value_at(e.point, h) <= Total(votesAt(e, h), Accounts)
  BY DEF VotesCounted
<1>. QED BY <1>2, <1>3, <1>4 DEF total_supply
=============================================================================
