------------------------------- MODULE MCLoans -------------------------------
EXTENDS Loans

(* With DIV = 1000: the factors of a market and a stricter setting; a jump *)
(* and a curve model.                                                      *)
NormalConfig ==
    [collateral_factor |-> 500, liquidation_threshold |-> 600, reserve_factor |-> 150,
     close_factor |-> 500, liquidate_incentive |-> 1100,
     liquidate_incentive_reserved_factor |-> 600, supply_cap |-> 50, borrow_cap |-> 30]

StrictConfig ==
    [NormalConfig EXCEPT !.collateral_factor = 250, !.liquidation_threshold = 300]

ConfigsValue == {NormalConfig, StrictConfig}

JumpModel == [kind |-> "jump", base |-> 20, jump |-> 100, full |-> 1320, jump_utilization |-> 400]

RateModelsValue == {JumpModel, [kind |-> "curve", base |-> 50]}

-----------------------------------------------------------------------------
(* The interesting cases need both markets, supply and collateral.  The    *)
(* warm initial states are reached by calls from an initial state in the   *)
(* first block: bob supplies ibtc; alice supplies dot, makes it collateral *)
(* and borrows ibtc; the dot market is made stricter and bob liquidates.   *)
The(S) == CHOOSE x \in S : TRUE

Markets ==
    [Genesis EXCEPT !.market = [a \in Assets |->
        [@[a] EXCEPT !.state = "active", !.config = NormalConfig, !.rate_model = JumpModel,
                     !.borrow_index = DIV, !.supply_speed = 40]]]
Supplied ==
    LET L == The(do_mint(Markets, "ibtc", "bob", 20))
        M == The(do_mint(L, "dot", "alice", 20))
    IN  The(do_deposit_collateral(M, "dot", "alice", balance(M, "dot", "alice")))
Borrowed == The(do_borrow(Supplied, "ibtc", "alice", 10))
Liquidated ==
    The(do_liquidate_borrow([Borrowed EXCEPT !.market["dot"].config = StrictConfig],
                            "ibtc", "dot", "bob", "alice", 4))

MCInit ==
    /\ now = 1
    /\ price = 1000
    /\ promised = 0
    /\ \/ loans = Genesis /\ calls = MaxLoanOperations - 1
       \/ loans \in {Supplied, Borrowed, Liquidated} /\ calls = 0

MCSpec == MCInit /\ [][Next]_vars
=============================================================================
