--------------------------- MODULE MCTransceiver ---------------------------
(* Instances of Transceiver: two dial frequencies, each way to split.      *)
EXTENDS Transceiver

Dials == {100, 200}
Rigs  == {"none", "rig", "emulate"}
=============================================================================
