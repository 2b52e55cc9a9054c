------------------------------ MODULE MCTxLoops ------------------------------
(* Instances of TxLoops: slots of 4 ticks for Normal and of 2 for Turbo,    *)
(* which has no heartbeats.                                                 *)
EXTENDS TxLoops

MCSubmodes   == {"Normal", "Turbo"}
MCPeriod     == [Normal |-> 4, Turbo |-> 2]
MCHbSubmodes == {"Normal"}
MCIntervals  == {0, 8}
MCApi        == {-8, 0, 8}
MCDelays     == {0, 1}

ClockAhead   == {0, 2}
ClockBehind  == {-2, 0}
NoDrift      == {0}
=============================================================================
