------------------------------- MODULE Escrow --------------------------------
(***************************************************************************)
(* The escrow pallet (crates/escrow): native tokens are locked for votes   *)
(* that decay linearly to zero at the end of the lock.  A Point is such a  *)
(* line: its value (bias) at ts and its slope.  The pallet keeps one for   *)
(* each account and one for the total, whose slope is to change where      *)
(* locks end (SlopeChanges).                                               *)
(*                                                                         *)
(* The histories of points are only read at their last entry, which is     *)
(* what is kept here.  The operators work on a record                      *)
(*   [locked, user, point, slope_changes, limits, blocks, reserved].       *)
(***************************************************************************)
EXTENDS Amounts

CONSTANTS Accounts, Span, MaxPeriod,
          MaxHeight             \* bound: the last block

ASSUME EscrowAssumption ==
    Span \in Nat \ {0} /\ MaxPeriod \in Nat \ {0} /\ MaxHeight \in Nat

Heights == 0..(MaxHeight + MaxPeriod)

NoLock == [amount |-> 0, end |-> 0]
NoPoint == [bias |-> 0, slope |-> 0, ts |-> 0]

NewEscrow ==
    [locked |-> [a \in Accounts |-> NoLock], user |-> [a \in Accounts |-> NoPoint],
     point |-> NoPoint, slope_changes |-> [h \in Heights |-> 0],
     limits |-> [a \in Accounts |-> <<>>], blocks |-> {},
     reserved |-> [a \in Accounts |-> 0]]

(* Point::new; a division by zero gives a slope of zero.                   *)
Point(amount, start, end, period) ==
    LET slope == IF period = 0 THEN 0 ELSE amount \div period
    IN  [bias |-> slope * saturating_sub(end, start), slope |-> slope, ts |-> start]

value_at(point, height) ==
    saturating_sub(point.bias, point.slope * saturating_sub(height, point.ts))

reverse_balance_at(point, end, now) ==
    saturating_sub(point.bias, point.slope * saturating_sub(end, now))

balance_at(escrow, who, height) == value_at(escrow.user[who], height)

round_height(height) == (height \div Span) * Span

(* The loop of checkpoint and of supply_at: the total's line is followed   *)
(* to `now`, over every multiple of Span, and takes the changes of slope   *)
(* scheduled there.                                                        *)
advanced(escrow, now) ==
    LET start == round_height(escrow.point.ts)
        steps == (now - start + Span - 1) \div Span
        line[k \in 0..steps] ==
            IF k = 0 THEN escrow.point
            ELSE LET last == line[k - 1]
                     t == min(start + k * Span, now)
                 IN  [bias |-> value_at(last, t),
                      slope |-> last.slope + (IF start + k * Span > now THEN 0
                                              ELSE escrow.slope_changes[t]),
                      ts |-> t]
    IN  IF start >= now THEN escrow.point
        ELSE line[steps]

total_supply(escrow, height) == advanced(escrow, height).bias

current_line(lock, now) ==
    IF lock.end > now /\ lock.amount > 0
    THEN Point(lock.amount, now, lock.end, MaxPeriod) ELSE NoPoint

(* Mutant: the old votes are counted along with the new ones.              *)
checkpoint_counting_twice(escrow, who, old, new, now) ==
    LET last == advanced(escrow, now)
        u_new == current_line(new, now)
    IN  [escrow EXCEPT !.point = [last EXCEPT !.slope = @ + u_new.slope,
                                              !.bias = @ + u_new.bias],
                       !.user[who] = u_new]

(* Balances are unsigned and every operation on them saturates: where a    *)
(* lock ends the slope should decrease, and "0 - slope" is recorded as 0.  *)
checkpoint(escrow, who, old, new, now) ==
    LET u_old == current_line(old, now)
        u_new == current_line(new, now)
        last == advanced(escrow, now)
        old_dslope == escrow.slope_changes[old.end] + u_old.slope
        changes == [escrow.slope_changes EXCEPT
            ![old.end] =
                IF old.end <= now THEN @
                ELSE IF new.end = old.end THEN saturating_sub(old_dslope, u_new.slope)
                ELSE old_dslope,
            ![new.end] =
                IF new.end > now /\ new.end > old.end THEN saturating_sub(@, u_new.slope)
                ELSE @]
    IN  [escrow EXCEPT
            !.point = [last EXCEPT !.slope = @ + saturating_sub(u_new.slope, u_old.slope),
                                   !.bias = @ + saturating_sub(u_new.bias, u_old.bias)],
            !.slope_changes = changes,
            !.user[who] = u_new]

(* What an account may lock: nothing when it is blocked, and a share that  *)
(* grows with time when it is limited.                                     *)
get_free_balance(escrow, who, free, now) ==
    LET limit == escrow.limits[who] IN
    IF who \in escrow.blocks THEN 0
    ELSE IF limit = <<>> THEN free
    ELSE reverse_balance_at(
             Point(free, limit[1], limit[2], saturating_sub(limit[2], limit[1])), limit[2], now)

new_lock(old, amount, unlock_height) ==
    [amount |-> old.amount + amount,
     end |-> IF unlock_height > 0 THEN unlock_height ELSE old.end]

deposit_for(escrow, who, amount, unlock_height, free, now) ==
    LET old == escrow.locked[who]
        new == new_lock(old, amount, unlock_height)
    IN  Try(/\ new.amount >= MaxPeriod
            /\ get_free_balance(escrow, who, free, now) >= new.amount,
            checkpoint([escrow EXCEPT !.locked[who] = new], who, old, new, now))

create_lock(escrow, who, amount, unlock_height, free, now) ==
    LET end == round_height(unlock_height) IN
    IF /\ amount > 0
       /\ escrow.locked[who].amount = 0
       /\ end > now /\ end <= now + MaxPeriod
    THEN deposit_for(escrow, who, amount, end, free, now) ELSE {}

increase_amount(escrow, who, amount, free, now) ==
    IF amount > 0 /\ escrow.locked[who].amount > 0 /\ escrow.locked[who].end > now
    THEN deposit_for(escrow, who, amount, 0, free, now) ELSE {}

increase_unlock_height(escrow, who, unlock_height, free, now) ==
    LET end == round_height(unlock_height) IN
    IF /\ escrow.locked[who].end > now
       /\ escrow.locked[who].amount > 0
       /\ end > escrow.locked[who].end /\ end <= now + MaxPeriod
    THEN deposit_for(escrow, who, 0, end, free, now) ELSE {}

(* Of the account's history nothing is left.                               *)
remove_lock(escrow, who, now) ==
    LET old == escrow.locked[who] IN
    Try(now >= old.end,
        checkpoint([escrow EXCEPT !.locked[who] = NoLock], who, old, NoLock, now))

(* ReservableCurrency, as the democracy pallet uses it for its deposits.   *)
free_votes(escrow, who, now) ==
    saturating_sub(balance_at(escrow, who, now), escrow.reserved[who])

reserve(escrow, who, value, now) ==
    Try(value <= free_votes(escrow, who, now), [escrow EXCEPT !.reserved[who] = @ + value])

unreserve(escrow, who, value) ==
    [escrow EXCEPT !.reserved[who] = saturating_sub(@, value)]
=============================================================================
