----------------------------- MODULE EscrowUsers -----------------------------
(***************************************************************************)
(* The two pallets that reserve escrow votes, together: democracy for its  *)
(* deposits and collator selection for its bonds.  Both take from the same *)
(* Reserved balance, which the escrow pallet keeps without saying for      *)
(* whom, and the votes under it decay.                                     *)
(***************************************************************************)
EXTENDS Democracy, CollatorSelection

CONSTANTS SessionPeriod, Bonds, DesiredCounts, Pot,
          Authors               \* accounts that author blocks

ASSUME EscrowUsersAssumption ==
    /\ IsFiniteSet(Accounts)
    /\ SessionPeriod \in Nat \ {0} /\ Authors \subseteq Accounts
    /\ Bonds \cup DesiredCounts \cup {Pot} \subseteq Nat

VARIABLE collators

vars == <<height, escrow, calls, democracyVars, collators>>

Init ==
    /\ DemocracyInit
    /\ \E bond \in Bonds, desired \in DesiredCounts :
          collators = NewCollators({}, bond, desired, Pot)

(* The author is noted, a session may begin, then democracy has its turn.  *)
Block(step, author) ==
    LET now == height + 1
        noted == note_author(collators, author, now)
        s == IF now % SessionPeriod = 0 THEN kick_stale_candidates(noted, escrow, now)
             ELSE [coll |-> noted, escrow |-> escrow]
    IN  on_initialize(step, s.escrow) /\ collators' = s.coll

CollatorCall(results) ==
    /\ Call
    /\ \E r \in results : escrow' = r.escrow /\ collators' = r.coll
    /\ UNCHANGED <<props, refs, votes, preimages, treasury>>

set_invulnerables(new) ==
    IF Cardinality(new) <= MaxInvulnerables
    THEN {[coll |-> [collators EXCEPT !.invulnerables = new], escrow |-> escrow]} ELSE {}

Next ==
    \/ \E s \in TimeSteps, a \in Authors : Block(s, a)
    \/ DemocracyCalls /\ UNCHANGED collators
    \/ \E a \in Accounts : CollatorCall(register_as_candidate(collators, escrow, a, height))
    \/ \E a \in Accounts : CollatorCall(leave_intent(collators, escrow, a))
    \/ \E new \in SUBSET Accounts : CollatorCall(set_invulnerables(new))
    \/ \E n \in DesiredCounts :
          CollatorCall({[coll |-> [collators EXCEPT !.desired = n], escrow |-> escrow]})
    \/ \E b \in Bonds :
          CollatorCall({[coll |-> [collators EXCEPT !.bond = b], escrow |-> escrow]})

Spec == Init /\ [][Next]_vars

-----------------------------------------------------------------------------
(* Properties                                                              *)

TypeOK ==
    /\ height \in 0..MaxHeight /\ calls \in 0..MaxCalls
    /\ \A p \in Proposals : preimages[p] \in Nat
    /\ \A a \in Accounts : escrow.reserved[a] \in Nat
    /\ \A i \in DOMAIN refs : Ongoing(refs[i]) => /\ refs[i].end \in Nat
                                                  /\ refs[i].tally.ayes \in Nat
                                                  /\ refs[i].tally.nays \in Nat
    /\ \A x \in DOMAIN props.public : props.public[x].index \in DOMAIN props.deposit
    /\ treasury \in 0..Treasury

(* What the accounts have on record for one side of a referendum.          *)
cast(i, side) ==
    Total([a \in Accounts |-> IF i \in DOMAIN votes[a] /\ votes[a][i].aye = side
                              THEN votes[a][i].balance ELSE 0], Accounts)

(* The tally of an open referendum is what its voters have on record,      *)
(* whatever was changed, withdrawn or decayed meanwhile.                   *)
TallyIsSum ==
    \A i \in DOMAIN refs : Ongoing(refs[i]) =>
        /\ refs[i].tally.ayes = cast(i, TRUE)
        /\ refs[i].tally.nays = cast(i, FALSE)
        /\ refs[i].tally.turnout = cast(i, TRUE) + cast(i, FALSE)

bonded(coll, a) ==
    Total([i \in DOMAIN coll.candidates |-> coll.candidates[i].deposit], positions(coll, a))

(* A depositor of a proposal deposits the amount each time it seconds it.  *)
times(whos, a) == Cardinality({k \in DOMAIN whos : whos[k] = a})
deposited(deposit, a) ==
    Total([i \in DOMAIN deposit |-> deposit[i].amount * times(deposit[i].whos, a)], DOMAIN deposit)

(* What an account has reserved is what it deposited for proposals that    *)
(* are on record, each deposit once, and for its candidacy, as the bond    *)
(* was then: neither pallet returns what the other one holds.              *)
DepositsReserved ==
    \A a \in Accounts :
        escrow.reserved[a] = bonded(collators, a) + deposited(props.deposit, a)

(* A proposal, an open referendum or a scheduled call holds its preimage,  *)
(* each with a hold of its own: what passes can still be read and run.     *)
PreimagesHeld ==
    \A p \in Proposals :
        preimages[p] >= Cardinality({x \in DOMAIN props.public : props.public[x].call = p})
                        + Cardinality({i \in DOMAIN refs : Ongoing(refs[i]) /\ refs[i].proposal = p})
                        + Cardinality({task \in agenda : task.call = p})

(* Votes are counted once, and what proposals and candidates hold, votes   *)
(* and preimages, is held once and given back once.                        *)
VotesHeldOnce == TypeOK /\ TallyIsSum /\ DepositsReserved /\ PreimagesHeld

(* A referendum is looked at in one block only, the one where it ends: an  *)
(* open one always has that block ahead.                                   *)
ReferendaMature ==
    \A i \in DOMAIN refs :
        Ongoing(refs[i]) => refs[i].end \in (height + 1)..(height + VotingPeriod)

(* However much of the voting power decayed since the votes were cast, a   *)
(* referendum passes only with more ayes than nays.                        *)
PassedByMajority ==
    \A i \in DOMAIN refs :
        Ongoing(refs[i]) /\ refs'[i].state = "finished" /\ refs'[i].approved
        => refs[i].tally.ayes > refs[i].tally.nays

(* "once every week": of two launches no two fall in one period, also when *)
(* blocks came late.                                                       *)
LaunchedOncePerPeriod ==
    last_launch' # last_launch
    => last_launch' \div LaunchPeriod > last_launch \div LaunchPeriod

(* Every referendum is launched, comes to its end and is decided as the    *)
(* voters were told, in whichever block a fast track or a delay puts it.   *)
ReferendaInOrder ==
    [][ ReferendaMature' /\ PassedByMajority /\ LaunchedOncePerPeriod ]_vars

(* Neither leaving nor a new session, however many candidates are stale in *)
(* it, brings the candidates below MinCandidates.                          *)
MinimumOfCandidates ==
    [][ Len(collators'.candidates) >= min(Len(collators.candidates), MinCandidates) ]_vars
=============================================================================
