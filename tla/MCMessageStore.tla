-------------------------- MODULE MCMessageStore --------------------------
(* Instances of MessageStore: a station that asks with its base callsign   *)
(* and with a portable one, and a group.                                   *)
EXTENDS MessageStore

CONSTANTS home, portable

MCCalls == {home, portable}
MCBase  == [c \in MCCalls |-> home]
=============================================================================
