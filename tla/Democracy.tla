------------------------------ MODULE Democracy ------------------------------
(***************************************************************************)
(* The democracy pallet (crates/democracy) on the votes of the escrow      *)
(* pallet: proposals are backed with deposits, once per LaunchPeriod the   *)
(* best backed ones become referenda, and a referendum is decided in the   *)
(* block where its voting period ends, against the votes that exist then.  *)
(* Votes decay while a referendum is open, so what was cast may be more    *)
(* than what is left.                                                      *)
(*                                                                         *)
(* The scheduler and the preimage pallet are external: a hold is counted   *)
(* for each proposal and dropped when the scheduled call has run.  What an *)
(* enacted call does is any of the calls of root below.                    *)
(***************************************************************************)
EXTENDS Escrow, Sequences, Sums

CONSTANTS Proposals,            \* the calls that may be proposed
          Deposits, VoteBalances, LockAmounts, UserFunds,
          Delays,               \* enactment delays of the fast track
          EnactmentPeriod, VotingPeriod, FastTrackVotingPeriod, LaunchPeriod,
          MinimumDeposit, MaxVotes, MaxProposals, MaxDeposits,
          TimeSteps,            \* seconds between two blocks
          Treasury,
          MaxCalls              \* bound: calls in a behaviour

ASSUME DemocracyAssumption ==
    /\ Deposits \cup VoteBalances \cup LockAmounts \cup Delays \cup TimeSteps \subseteq Nat
    /\ {VotingPeriod, FastTrackVotingPeriod, LaunchPeriod} \subseteq Nat \ {0}
    /\ FastTrackVotingPeriod <= VotingPeriod
    /\ {EnactmentPeriod, MinimumDeposit, MaxVotes, MaxProposals, MaxDeposits, Treasury,
        UserFunds, MaxCalls} \subseteq Nat

VARIABLES height, escrow,
          time,         \* what the timestamp pallet says at the start of the block
          props,        \* PublicPropCount, PublicProps and DepositOf
          refs,         \* ReferendumInfoOf; the count is its length
          votes,        \* VotingOf
          next_launch,  \* NextLaunchTimestamp
          last_launch,  \* history: when should_launch was last true
          preimages,    \* holds on each call
          agenda,       \* calls that are scheduled
          treasury, calls

democracyVars == <<time, props, refs, votes, next_launch, last_launch, preimages, agenda,
                   treasury>>

NoTally == [ayes |-> 0, nays |-> 0, turnout |-> 0]

(* What create_lock makes of NewEscrow when every account has locked its   *)
(* amount in block 0.                                                      *)
LockedEscrow(amount) ==
    LET end == round_height(MaxPeriod)
        line == [a \in Accounts |-> Point(amount[a], 0, end, MaxPeriod)]
    IN  [NewEscrow EXCEPT
            !.locked = [a \in Accounts |-> [amount |-> amount[a], end |-> end]],
            !.user = line,
            !.point = [bias |-> Total([a \in Accounts |-> line[a].bias], Accounts),
                       slope |-> Total([a \in Accounts |-> line[a].slope], Accounts),
                       ts |-> 0]]

(* Every account has had a lock since block 0.                             *)
DemocracyInit ==
    /\ height = 0 /\ time = 0 /\ calls = 0
    /\ \E amount \in [Accounts -> LockAmounts] :
          /\ \A a \in Accounts : create_lock(NewEscrow, a, amount[a], MaxPeriod, UserFunds, 0) # {}
          /\ escrow = LockedEscrow(amount)
    /\ props = [count |-> 0, public |-> <<>>, deposit |-> <<>>]
    /\ refs = <<>>
    /\ votes = [a \in Accounts |-> <<>>]
    /\ next_launch = LaunchPeriod /\ last_launch = -1
    /\ preimages = [p \in Proposals |-> 0]
    /\ agenda = {}
    /\ treasury = Treasury

-----------------------------------------------------------------------------
(* Tallies and thresholds                                                  *)

tally_change(tally, vote, sign) ==
    [ayes |-> tally.ayes + (IF vote.aye THEN sign * vote.balance ELSE 0),
     nays |-> tally.nays + (IF vote.aye THEN 0 ELSE sign * vote.balance),
     turnout |-> tally.turnout + sign * vote.balance]

tally_add(tally, vote) == {tally_change(tally, vote, 1)}

(* Checked subtractions.                                                   *)
tally_remove(tally, vote) ==
    LET t == tally_change(tally, vote, -1) IN
    Try(t.ayes >= 0 /\ t.nays >= 0 /\ t.turnout >= 0, t)

integer_sqrt(n) == CHOOSE r \in 0..n : r * r <= n /\ (r + 1) * (r + 1) > n

(* n1 / d1 < n2 / d2, by their continued fractions.                        *)
compare_rationals(n1, d1, n2, d2) ==
    LET less[q \in Nat \X (Nat \ {0}) \X Nat \X (Nat \ {0})] ==
            LET q1 == q[1] \div q[2]  r1 == q[1] % q[2]
                q2 == q[3] \div q[4]  r2 == q[3] % q[4]
            IN  IF q1 # q2 THEN q1 < q2
                ELSE r2 # 0 /\ (r1 = 0 \/ less[<<q[4], r2, q[2], r1>>])
    IN  less[<<n1, d1, n2, d2>>]

(* SuperMajorityApprove, the threshold of every referendum.                *)
approved(tally, electorate) ==
    LET v == integer_sqrt(tally.turnout)
        e == integer_sqrt(max(electorate, tally.turnout))
    IN  v # 0 /\ e # 0 /\ compare_rationals(tally.nays, v, tally.ayes, e)

-----------------------------------------------------------------------------
(* Proposals and referenda; the operators work on the parts they change.   *)

Ongoing(r) == r.state = "ongoing"
Cancelled == [state |-> "none"]
Finished(end, passed) == [state |-> "finished", end |-> end, approved |-> passed]

inject_referendum(rs, end, proposal, delay) ==
    Append(rs, [state |-> "ongoing", end |-> end, proposal |-> proposal, delay |-> delay,
                tally |-> NoTally])

unreserve_all(e, deposit) ==
    LET step[k \in 0..Len(deposit.whos)] ==
            IF k = 0 THEN e ELSE unreserve(step[k - 1], deposit.whos[k], deposit.amount)
    IN  step[Len(deposit.whos)]

swap_remove(s, i) == [k \in 1..(Len(s) - 1) |-> IF k = i THEN s[Len(s)] ELSE s[k]]
remove_at(s, i) == SubSeq(s, 1, i - 1) \o SubSeq(s, i + 1, Len(s))

without(f, x) == [y \in DOMAIN f \ {x} |-> f[y]]
with(f, x, v) == [y \in DOMAIN f \cup {x} |-> IF y = x THEN v ELSE f[y]]

backing_for(p, index) ==
    IF index \in DOMAIN p.deposit
    THEN p.deposit[index].amount * Len(p.deposit[index].whos) ELSE 0

(* Mutant: the deposits stay with the proposal that has gone.              *)
table_keeping_deposits(st, i, end, delay) ==
    LET prop == st.props.public[i] IN
    [props |-> [st.props EXCEPT !.public = swap_remove(@, i),
                                !.deposit = without(@, prop.index)],
     escrow |-> st.escrow,
     refs |-> inject_referendum(st.refs, end, prop.call, delay)]

(* A proposal leaves the queue, its depositors get their deposits back and *)
(* a referendum starts.                                                    *)
table(st, i, end, delay) ==
    LET prop == st.props.public[i] IN
    [props |-> [st.props EXCEPT !.public = swap_remove(@, i),
                                !.deposit = without(@, prop.index)],
     escrow |-> unreserve_all(st.escrow, st.props.deposit[prop.index]),
     refs |-> inject_referendum(st.refs, end, prop.call, delay)]

(* The best backed proposal, the last of equals.                           *)
launch_public(st, now) ==
    LET queue == st.props.public
        best == CHOOSE i \in DOMAIN queue : \A j \in DOMAIN queue :
                    LET bi == backing_for(st.props, queue[i].index)
                        bj == backing_for(st.props, queue[j].index)
                    IN  bi > bj \/ (bi = bj /\ i >= j)
    IN  IF queue = <<>> THEN st
        ELSE table(st, best, now + VotingPeriod, EnactmentPeriod)

next_launch_after(now) ==
    next_launch + ((now - next_launch) \div LaunchPeriod + 1) * LaunchPeriod

(* begin_block: up to two proposals are launched, and the referenda there  *)
(* were before whose voting ends now are decided.  A call that passed is   *)
(* scheduled and keeps its hold, one that failed loses it.  The scheduler  *)
(* drops the hold of a call it has run.  `e` is what the hooks that ran    *)
(* before in this block left of the escrow.                                *)
on_initialize(step, e) ==
    LET now == height + 1
        t == time + step
        should_launch == t >= next_launch
        start == [props |-> props, escrow |-> e, refs |-> refs]
        st == IF should_launch THEN launch_public(launch_public(start, now), now) ELSE start
        maturing == {i \in DOMAIN refs : Ongoing(refs[i]) /\ refs[i].end = now}
        passes == {i \in maturing : approved(refs[i].tally, total_supply(e, now))}
        due == {task \in agenda : task.when = now}
    IN
    /\ height < MaxHeight
    /\ height' = now /\ time' = t
    /\ next_launch' = IF should_launch THEN next_launch_after(t) ELSE next_launch
    /\ last_launch' = IF should_launch THEN t ELSE last_launch
    /\ props' = st.props /\ escrow' = st.escrow
    /\ refs' = [i \in DOMAIN st.refs |-> IF i \in maturing THEN Finished(now, i \in passes)
                                                           ELSE st.refs[i]]
    /\ agenda' = (agenda \ due)
                 \cup {[index |-> i, call |-> refs[i].proposal,
                        when |-> now + max(refs[i].delay, 1)] : i \in passes}
    /\ preimages' = [p \in Proposals |->
            preimages[p] - Cardinality({task \in due : task.call = p})
                         - Cardinality({i \in maturing \ passes : refs[i].proposal = p})]
    /\ UNCHANGED <<votes, treasury, calls>>

-----------------------------------------------------------------------------
(* Calls                                                                   *)

Call ==
    /\ calls < MaxCalls
    /\ calls' = calls + 1
    /\ UNCHANGED <<height, time, next_launch, last_launch, agenda>>

propose(who, proposal, value) ==
    LET index == props.count IN
    /\ Call
    /\ value >= MinimumDeposit
    /\ Len(props.public) < MaxProposals
    /\ escrow' \in reserve(escrow, who, value, height)
    /\ preimages' = [preimages EXCEPT ![proposal] = @ + 1]
    /\ props' = [count |-> index + 1,
                 public |-> Append(props.public,
                                   [index |-> index, call |-> proposal, proposer |-> who]),
                 deposit |-> with(props.deposit, index, [whos |-> <<who>>, amount |-> value])]
    /\ UNCHANGED <<refs, votes, treasury>>

(* The proposal is known by its deposits only.                             *)
second(who, index) ==
    /\ Call
    /\ index \in DOMAIN props.deposit
    /\ Len(props.deposit[index].whos) < MaxDeposits
    /\ escrow' \in reserve(escrow, who, props.deposit[index].amount, height)
    /\ props' = [props EXCEPT !.deposit[index].whos = Append(@, who)]
    /\ UNCHANGED <<refs, votes, preimages, treasury>>

(* try_vote: the vote replaces an earlier one of the account.              *)
vote(who, i, v) ==
    /\ Call
    /\ i \in DOMAIN refs /\ Ongoing(refs[i])
    /\ v.balance <= free_votes(escrow, who, height)
    /\ i \notin DOMAIN votes[who] => Cardinality(DOMAIN votes[who]) < MaxVotes
    /\ \E rest \in IF i \in DOMAIN votes[who] THEN tally_remove(refs[i].tally, votes[who][i])
                   ELSE {refs[i].tally} :
         \E tally \in tally_add(rest, v) : refs' = [refs EXCEPT ![i].tally = tally]
    /\ votes' = [votes EXCEPT ![who] = with(@, i, v)]
    /\ UNCHANGED <<escrow, props, preimages, treasury>>

remove_vote(who, i) ==
    /\ Call
    /\ i \in DOMAIN votes[who]
    /\ IF Ongoing(refs[i])
       THEN \E tally \in tally_remove(refs[i].tally, votes[who][i]) :
               refs' = [refs EXCEPT ![i].tally = tally]
       ELSE refs' = refs
    /\ votes' = [votes EXCEPT ![who] = without(@, i)]
    /\ UNCHANGED <<escrow, props, preimages, treasury>>

position(index) == {i \in DOMAIN props.public : props.public[i].index = index}

(* fast_track and table_proposal, by the technical committee.              *)
fast_track_with_voting_period(index, delay, voting_period) ==
    /\ Call
    /\ \E i \in position(index) :
         LET st == table([props |-> props, escrow |-> escrow, refs |-> refs], i,
                         height + voting_period, delay)
         IN  props' = st.props /\ escrow' = st.escrow /\ refs' = st.refs
    /\ UNCHANGED <<votes, preimages, treasury>>

(* Mutant: the voting ends at once.                                        *)
fast_track_referendum_now(i) ==
    /\ Call
    /\ i \in DOMAIN refs /\ Ongoing(refs[i])
    /\ refs' = [refs EXCEPT ![i].end = height]
    /\ UNCHANGED <<escrow, props, votes, preimages, treasury>>

fast_track_referendum(i) ==
    /\ Call
    /\ i \in DOMAIN refs /\ Ongoing(refs[i])
    /\ refs[i].end > height + FastTrackVotingPeriod
    /\ refs' = [refs EXCEPT ![i].end = height + FastTrackVotingPeriod]
    /\ UNCHANGED <<escrow, props, votes, preimages, treasury>>

(* The votes remain with the voters.  A finished referendum is removed too *)
(* and its scheduled call still runs.                                      *)
cancel_referendum(i) ==
    /\ Call
    /\ i \in DOMAIN refs
    /\ refs' = [refs EXCEPT ![i] = Cancelled]
    /\ preimages' = IF Ongoing(refs[i])
                    THEN [preimages EXCEPT ![refs[i].proposal] = @ - 1] ELSE preimages
    /\ UNCHANGED <<escrow, props, votes, treasury>>

(* Deposits and holds stay.                                                *)
clear_public_proposals ==
    /\ Call
    /\ props' = [props EXCEPT !.public = <<>>]
    /\ UNCHANGED <<escrow, refs, votes, preimages, treasury>>

(* By the proposer or by root.                                             *)
cancel_proposal(who, index) ==
    /\ Call
    /\ \E i \in position(index) :
          /\ who \in {"root", props.public[i].proposer}
          /\ props' = [props EXCEPT !.public = remove_at(@, i), !.deposit = without(@, index)]
          /\ preimages' = [preimages EXCEPT ![props.public[i].call] = @ - 1]
    /\ escrow' = unreserve_all(escrow, props.deposit[index])
    /\ UNCHANGED <<refs, votes, treasury>>

spend_from_treasury(value) ==
    /\ Call
    /\ value <= treasury
    /\ treasury' = treasury - value
    /\ UNCHANGED <<escrow, props, refs, votes, preimages>>

(* What the escrow pallet does to the votes meanwhile.                     *)
change_lock(who, results) ==
    /\ Call
    /\ escrow' \in results
    /\ UNCHANGED <<props, refs, votes, preimages, treasury>>

DemocracyCalls ==
    \/ \E who \in Accounts, p \in Proposals, v \in Deposits : propose(who, p, v)
    \/ \E who \in Accounts, i \in DOMAIN props.deposit : second(who, i)
    \/ \E who \in Accounts, i \in DOMAIN refs, aye \in BOOLEAN, b \in VoteBalances :
          vote(who, i, [aye |-> aye, balance |-> b])
    \/ \E who \in Accounts, i \in DOMAIN refs : remove_vote(who, i)
    \/ \E x \in DOMAIN props.public, d \in Delays, p \in {FastTrackVotingPeriod, VotingPeriod} :
          fast_track_with_voting_period(props.public[x].index, d, p)
    \/ \E i \in DOMAIN refs : fast_track_referendum(i)
    \/ \E i \in DOMAIN refs : cancel_referendum(i)
    \/ clear_public_proposals
    \/ \E who \in Accounts \cup {"root"}, x \in DOMAIN props.public :
          cancel_proposal(who, props.public[x].index)
    \/ spend_from_treasury(1)
    \/ \E who \in Accounts, a \in LockAmounts :
          change_lock(who, increase_amount(escrow, who, a, UserFunds, height))
    \/ \E who \in Accounts : change_lock(who, remove_lock(escrow, who, height))
=============================================================================
