----------------------------- MODULE MCDexStable -----------------------------
EXTENDS DexStable

LpCurrenciesValue == <<"AB", "CAB">>
MultipliersValue == [A |-> 1, B |-> 10, C |-> 1, AB |-> 1, CAB |-> 1]
PoolCurrenciesValue == {<<"A", "B">>, <<"C", "AB">>}
DepositsValue == {<<60, 3>>, <<0, 11>>}

-----------------------------------------------------------------------------
(* Warm initial states: a fresh chain; a base and a meta pool with         *)
(* alice's liquidity, without and with a swap fee.                         *)
The(S) == CHOOSE x \in S : TRUE

WithBase(fee) ==
    LET s == The(create_base_pool(NewStable(StartTime), <<"A", "B">>, 10, fee, 50))
    IN  The(add_liquidity(s, "alice", 1, <<500, 60>>, "alice")).state

WithMeta(fee) ==
    LET s == The(create_meta_pool(WithBase(fee), <<"C", "AB">>, 10, fee, 50))
    IN  The(add_liquidity(s, "alice", 2, <<400, 300>>, "alice")).state

MCInit ==
    \/ stable = NewStable(StartTime) /\ calls = MaxCalls - 1
    \/ stable = WithBase(4) /\ calls = MaxCalls - 1
    \/ stable = WithMeta(0) /\ calls = MaxCalls - 1
    \/ stable = WithMeta(4) /\ calls = 0

MCSpec == MCInit /\ [][Next]_vars
=============================================================================
