-------------------------- MODULE CollatorSelection --------------------------
(***************************************************************************)
(* The collator selection pallet (crates/collator-selection): candidates   *)
(* reserve a bond of escrow votes, and at each new session those that      *)
(* authored no block for KickThreshold, or whose votes decayed below the   *)
(* bond, are removed.  The operators work on a record of the pallet's      *)
(* storage and on the escrow, [coll, escrow].                              *)
(***************************************************************************)
EXTENDS Escrow, Sequences

CONSTANTS MaxCandidates, MinCandidates, MaxInvulnerables, KickThreshold,
          ExistentialDeposit

ASSUME CollatorAssumption ==
    {MaxCandidates, MinCandidates, MaxInvulnerables, KickThreshold, ExistentialDeposit}
        \subseteq Nat

NewCollators(invulnerables, bond, desired, pot) ==
    [invulnerables |-> invulnerables, candidates |-> <<>>,
     last_authored |-> [a \in Accounts |-> 0], desired |-> desired, bond |-> bond, pot |-> pot]

positions(coll, who) == {i \in DOMAIN coll.candidates : coll.candidates[i].who = who}

(* The first authored block is put one threshold ahead, for the delay of   *)
(* the session.                                                            *)
register_as_candidate(coll, escrow, who, now) ==
    IF /\ Len(coll.candidates) < coll.desired
       /\ who \notin coll.invulnerables
       /\ positions(coll, who) = {}
       /\ Len(coll.candidates) < MaxCandidates
    THEN {[coll |-> [coll EXCEPT
                        !.candidates = Append(@, [who |-> who, deposit |-> coll.bond]),
                        !.last_authored[who] = now + KickThreshold],
           escrow |-> e] : e \in reserve(escrow, who, coll.bond, now)}
    ELSE {}

try_remove_candidate(coll, escrow, who) ==
    {[coll |-> [coll EXCEPT !.candidates = SubSeq(@, 1, i - 1) \o SubSeq(@, i + 1, Len(@)),
                            !.last_authored[who] = 0],
      escrow |-> unreserve(escrow, who, coll.candidates[i].deposit)] :
        i \in positions(coll, who)}

leave_intent(coll, escrow, who) ==
    IF Len(coll.candidates) > MinCandidates THEN try_remove_candidate(coll, escrow, who) ELSE {}

(* total_balance of the escrow counts reserved votes too.                  *)
is_good_collator(coll, escrow, who, now) ==
    /\ saturating_sub(now, coll.last_authored[who]) < KickThreshold
    /\ balance_at(escrow, who, now) >= coll.bond

(* Mutant: the surplus is that of before anyone was kicked.                *)
has_surplus_before(coll, before) == Len(before) > MinCandidates

(* Looked at again for each candidate, as candidates go.                   *)
has_surplus(coll, before) == Len(coll.candidates) > MinCandidates

(* new_session.                                                            *)
kick_stale_candidates(coll, escrow, now) ==
    LET before == coll.candidates
        kicked[k \in 0..Len(before)] ==
            IF k = 0 THEN [coll |-> coll, escrow |-> escrow]
            ELSE LET s == kicked[k - 1]
                     who == before[k].who
                 IN  IF is_good_collator(s.coll, s.escrow, who, now) \/ ~has_surplus(s.coll, before)
                     THEN s
                     ELSE CHOOSE r \in try_remove_candidate(s.coll, s.escrow, who) : TRUE
    IN  kicked[Len(before)]

(* Half of the pot above the existential deposit.                          *)
note_author(coll, author, now) ==
    [coll EXCEPT !.pot = @ - saturating_sub(@, ExistentialDeposit) \div 2,
                 !.last_authored[author] = now]
=============================================================================
