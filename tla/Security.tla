------------------------------ MODULE Security ------------------------------
(***************************************************************************)
(* The clock of the parachain (crates/security): the number of blocks in   *)
(* which block counting was active.  The periods of requests are measured  *)
(* with it.                                                                *)
(***************************************************************************)
EXTENDS Naturals

CONSTANT MaxActiveBlocks       \* bound: blocks that are counted

ASSUME SecurityAssumption == MaxActiveBlocks \in Nat

VARIABLES ActiveBlockCount, IsDeactivated

securityVars == <<ActiveBlockCount, IsDeactivated>>

SecurityTypeOK ==
    /\ ActiveBlockCount \in Nat
    /\ IsDeactivated \in BOOLEAN

SecurityInit ==
    /\ ActiveBlockCount = 0
    /\ IsDeactivated = FALSE

activate_counter(is_active) ==
    /\ IsDeactivated' = ~is_active
    /\ UNCHANGED ActiveBlockCount

(* on_initialize: a new block of the parachain.                            *)
increment_active_block ==
    /\ ~IsDeactivated
    /\ ActiveBlockCount < MaxActiveBlocks
    /\ ActiveBlockCount' = ActiveBlockCount + 1
    /\ UNCHANGED IsDeactivated

(* Strictly more than `period` blocks have passed.                         *)
parachain_block_expired(opentime, period) == ActiveBlockCount > opentime + period

SecurityNext ==
    \/ \E b \in BOOLEAN : activate_counter(b)
    \/ increment_active_block
=============================================================================
