----------------------------- MODULE PttSwitch -----------------------------
(***************************************************************************)
(* What the GUI thread may rely on when it switches the PTT: its commands  *)
(* reach the radio one by one, in the order they were given, and nothing   *)
(* else keys it.  A rig is opened only when the PTT is off, and leaves it  *)
(* off when it is closed or found dead; a rig that has failed may ignore   *)
(* commands until it is opened again.                                      *)
(***************************************************************************)
EXTENDS Naturals, Sequences

VARIABLES
    commands,       \* "on", "off", "open" and "close" on their way to the rig
    on,             \* the PTT of the radio
    failed          \* the rig has failed

switch == <<commands, on, failed>>

PttSwitchInit ==
    /\ commands = <<"open">>
    /\ on = FALSE
    /\ failed = FALSE

(* Commands join the queue, in front of which nothing changes.             *)
Issue ==
    /\ Len(commands') > Len(commands)
    /\ SubSeq(commands', 1, Len(commands)) = commands
    /\ UNCHANGED <<on, failed>>

Take(some) == commands # << >> /\ Head(commands) \in some /\ commands' = Tail(commands)

Obey ==
    /\ Take({"on", "off"})
    /\ on' = (Head(commands) = "on")
    /\ UNCHANGED failed

(* A command meets a rig that fails, or one that has.                      *)
Ignore ==
    /\ Take({"on", "off"})
    /\ on' \in {on, FALSE}
    /\ failed'

(* The rig may fail at once.                                               *)
Open ==
    /\ Take({"open"})
    /\ ~on /\ ~on'
    /\ failed' \in BOOLEAN

Close ==
    /\ Take({"close"})
    /\ ~on'
    /\ UNCHANGED failed

(* The rig is polled and found dead.                                       *)
Fail ==
    /\ ~on' /\ failed'
    /\ UNCHANGED commands

PttSwitchNext == Issue \/ Obey \/ Ignore \/ Open \/ Close \/ Fail

PttSwitchSpec == PttSwitchInit /\ [][PttSwitchNext]_switch
=============================================================================
