--------------------------- MODULE DecodeService ---------------------------
(***************************************************************************)
(* What the GUI thread of JS8Call relies on when it hands audio to the     *)
(* decoder (JS8::Decoder, src/JS8_Mode/JS8.cpp): there is at most one      *)
(* decoding run at any time, it works on one snapshot of the audio and of  *)
(* the requested ranges from its start to its end, and the next request is *)
(* made only after the completion of the previous one was acknowledged.    *)
(***************************************************************************)
EXTENDS Naturals

CONSTANT Input              \* what a request hands over

VARIABLES
    phase,                  \* where the one request is
    input                   \* the snapshot of the last request

svars == <<phase, input>>

Phase == {"free", "requested", "running", "finished", "closed"}

ServiceInit ==
    /\ phase = "free"
    /\ input \in Input

(* A request replaces the snapshot: the only step that may.                *)
Request ==
    /\ phase = "free"
    /\ phase' = "requested"
    /\ input' \in Input

Begin ==
    /\ phase = "requested"
    /\ phase' = "running"
    /\ UNCHANGED input

Finish ==
    /\ phase = "running"
    /\ phase' = "finished"
    /\ UNCHANGED input

Acknowledge ==
    /\ phase = "finished"
    /\ phase' = "free"
    /\ UNCHANGED input

Close ==
    /\ phase # "closed"
    /\ phase' = "closed"
    /\ UNCHANGED input

ServiceNext == Request \/ Begin \/ Finish \/ Acknowledge \/ Close

ServiceSpec == ServiceInit /\ [][ServiceNext]_svars
============================================================================
