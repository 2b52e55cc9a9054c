---------------------------- MODULE MCRxPipeline ----------------------------
(* Instances of RxPipeline: a minute of 12 seconds, one block each, Normal  *)
(* with cycles of 6 seconds and Ultra with cycles of 4, of which the signal *)
(* takes 5 and 2.                                                           *)
EXTENDS RxPipeline

MCSubmodes     == {"Normal", "Ultra"}
MCTurboOrUltra == {"Ultra"}
MCAutoSyncable == {"Normal"}
MCCycleFrames  == [Normal |-> 6, Ultra |-> 4]
MCCycleNeeded  == [Normal |-> 5, Ultra |-> 2]
MCStartKin     == {7}
MCPositions    == {1, 6, 10}

(* A shorter minute of two Normal cycles, as the longest of JS8, and four  *)
(* Ultra cycles for the runs in which the ring is repositioned, by a       *)
(* resumed audio stream or a changed drift.                                *)
ShortCycleFrames == [Normal |-> 4, Ultra |-> 2]
ShortCycleNeeded == [Normal |-> 3, Ultra |-> 1]
ShortStartKin    == {4}
ShortPositions   == {1, 4}

AllOptions     == [nSubMode : MCSubmodes, multi : BOOLEAN, autoSync : BOOLEAN]
FastOptions    == {[nSubMode |-> "Ultra", multi |-> TRUE, autoSync |-> TRUE]}
=============================================================================
