------------------------------ MODULE MCFarming ------------------------------
EXTENDS Farming

PairAssetsValue == [AB |-> <<"A", "B">>, BC |-> <<"B", "C">>]
PathsValue == {<<"A", "B">>, <<"A", "B", "C">>, <<"A", "B", "A">>}

(* The reward of the first is an asset of the other pair.                  *)
BootstrapParamsValue ==
    {[target |-> <<2, 3>>, capacity |-> <<5, 5>>, end |-> 1, rewards |-> {"C"}, limits |-> <<>>],
     [target |-> <<6, 3>>, capacity |-> <<6, 5>>, end |-> 1, rewards |-> {"R"},
      limits |-> [A |-> 1]]}

-----------------------------------------------------------------------------
(* Warm initial states, each reached by calls in block 0: a fresh chain;   *)
(* two trading pairs; a bootstrap with the contributions of both users;    *)
(* and, in block 1, one that can end in success, with rewards in C, while  *)
(* contributions of C to another, which missed its target, wait for their  *)
(* refund in the same account.                                             *)
The(S) == CHOOSE x \in S : TRUE

Trade ==
    LET d1 == The(create_pair(FundedDex, "AB", 1, 0))
        d2 == The(create_pair(d1, "BC", 0, 0))
        d3 == The(add_liquidity(d2, "alice", "AB", 4, 6))
    IN  The(add_liquidity(d3, "bob", "BC", 5, 5))

Bootstrapping(params) ==
    LET d1 == The(bootstrap_create(FundedDex, "AB", params, 0))
        d2 == The(bootstrap_contribute(d1, "alice", "AB", 3, 1, 0))
    IN  The(bootstrap_contribute(d2, "bob", "AB", 1, 4, 0))

SharedAccount ==
    LET params(target) == [target |-> target, capacity |-> <<5, 5>>, end |-> 1,
                           rewards |-> {"C"}, limits |-> <<>>]
        d1 == Bootstrapping(params(<<2, 3>>))
        d2 == The(bootstrap_charge_reward(d1, "alice", "AB", 4))
        d3 == The(bootstrap_create(d2, "BC", params(<<5, 5>>), 0))
    IN  The(bootstrap_contribute(d3, "bob", "BC", 1, 2, 0))

MCInit ==
    /\ farm = NewFarm
    /\ promised = 0
    /\ paid = NothingPaid
    /\ \/ dex = FundedDex /\ height = 0 /\ calls = MaxCalls - 2
       \/ dex = Trade /\ height = 0 /\ calls = 0
       \/ dex \in {Bootstrapping(b) : b \in BootstrapParamsValue} /\ height = 0 /\ calls = 1
       \/ dex = SharedAccount /\ height = 1 /\ calls = 0

MCSpec == MCInit /\ [][Next]_vars
=============================================================================
