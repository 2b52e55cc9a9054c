--------------------------- MODULE MCTxSequencer ---------------------------
(* Instances of TxSequencer, with the PTT held between frames or not.       *)
EXTENDS TxSequencer

Either == BOOLEAN
=============================================================================
