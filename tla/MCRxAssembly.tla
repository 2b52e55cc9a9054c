---------------------------- MODULE MCRxAssembly ----------------------------
(* Instances of RxAssembly: two stations that take turns in one place, one  *)
(* of them with a compound callsign, and one far from them that sends when  *)
(* it likes.  All of them say the same.                                     *)
EXTENDS RxAssembly, TLC

CONSTANTS A, B, C

Turns     == {A, B}
Stations  == {A, B, C}
Distant   == {A, C}

(* Both are decoded at two neighbouring offsets, as a signal is that lies *)
(* between them.                                                           *)
Together  == (A :> {1, 2}) @@ (B :> {1, 2}) @@ (C :> {5})

(* One drifts, frame by frame, to where the other was.                     *)
Wandering == (A :> {1, 2, 3}) @@ (B :> {3})

(* Each at a place of his own.                                             *)
Apart     == (A :> {1}) @@ (C :> {5})

(* Every frame of text, and every command, says the same as any other.     *)
OneWord   == [n \in 1 .. MaxMessages |-> [i \in 0 .. MaxText |-> 0]]
=============================================================================
