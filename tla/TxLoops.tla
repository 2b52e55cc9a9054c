------------------------------ MODULE TxLoops ------------------------------
(***************************************************************************)
(* The two loops that transmit automatically, heartbeats ("hb") and CQ     *)
(* calls ("cq"): the TxLoop objects with their timers, the clock with the  *)
(* user's drift they follow, the two buttons that show and switch them,    *)
(* and everything else in the main window that switches them: selecting a  *)
(* station, the speed and the heartbeat mode, the idle watchdog, the API.  *)
(*                                                                         *)
(* All of it runs in the GUI thread, so a handler is one step with all the *)
(* signals it emits: what a handler does is an operator from the state of  *)
(* the window (the record State) to the next.  Time is the system's, in    *)
(* ticks; the application's clock is the drift ahead of it.                *)
(***************************************************************************)
EXTENDS Integers, Sequences, FiniteSets

CONSTANTS
    Submodes,       \* the speeds
    Period,         \* ticks of a slot of each
    HbSubmodes,     \* canCurrentModeSendHeartbeat
    Intervals,      \* ticks between transmissions to choose from, 0 for none
    ApiIntervals,   \* those that STATION.SET_HB_INTERVAL may store, also negative ones
    Delays,         \* values of the user's tx delay
    Drifts,         \* values of the drift
    ApiEnabled,     \* the configuration accepts requests of the API
    PastFires,      \* a QTimer that is started with a negative time fires at once
    MaxTime,        \* bound: ticks
    MaxLate,        \* bound: ticks a timer may be late
    MaxInputs,      \* bound: things the user or the API does
    MaxBoxes        \* bound: idle time-out boxes open

ASSUME SubmodesAssumption ==
    /\ HbSubmodes \subseteq Submodes
    /\ Period \in [Submodes -> Nat]
    /\ \A m \in Submodes : Period[m] > 0

(* Intervals are whole minutes, which every slot divides, and the delay is *)
(* at most a second, shorter than any slot.  The API's are any number of   *)
(* minutes; those of 25 days and more, which QTimer cuts, are left out.    *)
ASSUME TimesAssumption ==
    /\ Intervals \subseteq Nat
    /\ ApiIntervals \subseteq Int
    /\ Delays \subseteq Nat
    /\ Drifts \subseteq Int
    /\ 0 \in Drifts
    /\ \A m \in Submodes :
        /\ \A i \in Intervals \cup ApiIntervals : i % Period[m] = 0
        /\ \A d \in Delays : d < Period[m]

ASSUME BoundsAssumption ==
    /\ {ApiEnabled, PastFires} \subseteq BOOLEAN
    /\ {MaxTime, MaxLate, MaxInputs, MaxBoxes} \subseteq Nat

VARIABLES
    time,           \* the system's clock
    drift,          \* DriftingDateTimeSingleton::driftMS
    loop,           \* the two TxLoop objects and their buttons
    interval,       \* m_hbInterval and m_cqInterval
    selected,       \* a station is selected
    m_hbPaused,     \* the heartbeat was stopped by the selection
    pause,          \* heartbeat_qso_pause of the configuration
    hbMode,         \* actionModeJS8HB is checked
    m_nSubMode,     \* the speed
    m_submode,      \* the speed as last told to the loops
    m_tx_delay,     \* the tx delay as last told to the loops
    boxes,          \* the idle time-out boxes open, the last on top
    lastTrigger,    \* history: when a loop last asked for a transmission
    inputs          \* history: inputs made, for the bound

vars == <<time, drift, loop, interval, selected, m_hbPaused, pause, hbMode, m_nSubMode,
          m_submode, m_tx_delay, boxes, lastTrigger, inputs>>

Loops == {"hb", "cq"}
Other(l) == IF l = "hb" THEN "cq" ELSE "hb"

Unset == -1

(* The fields of TxLoop, and whether its macro button is checked.          *)
Loop == [active : BOOLEAN, next : Int, period : Int, timer : Int, checked : BOOLEAN]

Box == [hb : BOOLEAN, cq : BOOLEAN]

(* What the interval of a loop may be: the API's is the heartbeat's.       *)
Settable(l) == IF l = "hb" THEN Intervals \cup ApiIntervals ELSE Intervals

(* What becomes of a message that a handler sends: ensureCreateMessageReady *)
(* lets it go (or does not see it, as when another is being sent), refuses *)
(* it (TX is off, no callsign is set, a key is stuck), or finds the user   *)
(* idle, who is not when he does something.                                *)
Outcomes     == {"ready", "refused", "idle"}
UserOutcomes == {"ready", "refused"}

(* DriftingDateTime::currentMSecsSinceEpoch.                               *)
Drifted(t, d) == t + d

-----------------------------------------------------------------------------
(* What the handlers do to the window.                                     *)

State(outcome) ==
    [loop |-> loop, interval |-> interval, selected |-> selected, paused |-> m_hbPaused,
     speed |-> m_nSubMode, submode |-> m_submode, delay |-> m_tx_delay, boxes |-> boxes,
     outcome |-> outcome]

Becomes(s) ==
    /\ loop' = s.loop
    /\ interval' = s.interval
    /\ selected' = s.selected
    /\ m_hbPaused' = s.paused
    /\ m_nSubMode' = s.speed
    /\ m_submode' = s.submode
    /\ m_tx_delay' = s.delay
    /\ boxes' = s.boxes

(* TxLoop::onLoopCancel; canceled unchecks the button.                     *)
Cancel(s, l) ==
    IF s.loop[l].active
    THEN [s EXCEPT !.loop[l].active = FALSE, !.loop[l].timer = Unset,
                   !.loop[l].checked = FALSE]
    ELSE s

(* TxLoop::onTxLoopPeriodChangeStart: the clock it reads is the system's,  *)
(* not the drifted one (QDateTime::currentMSecsSinceEpoch is static).  So  *)
(* the next start always differs from the clock's, nextActivityChanged is  *)
(* always emitted, and it cancels the other loop.                          *)
NextSlotUnaligned(t, slot) == t     \* mutant: not rounded to a slot

NextSlot(t, slot) == IF t % slot = 0 THEN t ELSE t + (slot - (t % slot))

(* QTimer::start: a time that has passed starts no timer before Qt 6.10.   *)
TimerTo(at) == IF at >= time THEN at ELSE IF PastFires THEN time ELSE Unset

(* Mutants: the first slot is not a period away; the other loop goes on.   *)
StartAtOnce(s, l, period) ==
    LET next == NextSlot(time + 1, Period[s.submode])
    IN  Cancel([s EXCEPT !.loop[l].active = TRUE, !.loop[l].period = period,
                         !.loop[l].next = next, !.loop[l].timer = TimerTo(next - s.delay)],
               Other(l))

StartAlone(s, l, period) ==
    LET next == NextSlot(time + period, Period[s.submode])
    IN  [s EXCEPT !.loop[l].active = TRUE, !.loop[l].period = period,
                  !.loop[l].next = next, !.loop[l].timer = TimerTo(next - s.delay)]

Start(s, l, period) ==
    LET next == NextSlot(time + period, Period[s.submode])
    IN  Cancel([s EXCEPT !.loop[l].active = TRUE,
                         !.loop[l].period = period,
                         !.loop[l].next = next,
                         !.loop[l].timer = TimerTo(next - s.delay)],
               Other(l))

(* setChecked(false) of a button, with on_hbMacroButton_toggled(false).    *)
Uncheck(s, l) ==
    IF s.loop[l].checked THEN Cancel([s EXCEPT !.loop[l].checked = FALSE], l) ELSE s

(* tx_watchdog(true): the buttons are saved in a box and unchecked.        *)
TxWatchdog(s) ==
    LET box == [hb |-> s.loop["hb"].checked, cq |-> s.loop["cq"].checked]
    IN  Uncheck(Uncheck([s EXCEPT !.boxes = Append(s.boxes, box)], "hb"), "cq")

(* on_stopTxButton_clicked.                                                *)
Stop(s) == Cancel(Cancel(s, "hb"), "cq")

(* startTx by way of toggleTx, for a message in the composer.              *)
Transmit(s) ==
    CASE s.outcome = "ready"   -> s
      [] s.outcome = "refused" -> Stop(s)
      [] s.outcome = "idle"    -> Stop(TxWatchdog(s))

(* setChecked(true), with on_hbMacroButton_toggled(true).  Clearing the    *)
(* selection would check the button, which is checked by now.              *)
CheckHb(s) ==
    LET clears  == pause /\ s.selected
        checked == [s EXCEPT !.loop["hb"].checked = TRUE,
                             !.selected = s.selected /\ ~clears,
                             !.paused = s.paused /\ ~clears]
    IN  IF s.loop["hb"].checked THEN s
        ELSE IF s.interval["hb"] # 0
        THEN IF s.loop["hb"].active THEN checked
                                    ELSE Start(checked, "hb", s.interval["hb"])
        ELSE Uncheck(Transmit(Cancel(checked, "hb")), "hb")

(* clearCallsignSelected, with callsignSelectedChanged to no call.         *)
Deselect(s) ==
    IF ~s.selected THEN s
    ELSE IF s.paused THEN [CheckHb([s EXCEPT !.selected = FALSE]) EXCEPT !.paused = FALSE]
    ELSE [s EXCEPT !.selected = FALSE]

SendCQ(s, repeat) ==
    Transmit(Deselect(IF repeat THEN s ELSE Cancel(Cancel(s, "cq"), "hb")))

CheckCq(s) ==
    LET cleared == Deselect([s EXCEPT !.loop["cq"].checked = TRUE])
    IN  IF s.loop["cq"].checked THEN s
        ELSE IF s.interval["cq"] # 0 THEN Start(cleared, "cq", s.interval["cq"])
        ELSE Uncheck(SendCQ(Cancel(cleared, "cq"), FALSE), "cq")

SetChecked(s, l, checked) ==
    IF ~checked THEN Uncheck(s, l)
    ELSE IF l = "hb" THEN CheckHb(s) ELSE CheckCq(s)

(* callsignSelectedChanged to a call.                                      *)
SelectCallKeepsCq(s) ==    \* mutant: the CQ goes on, and counts as paused
    [(IF pause THEN Uncheck(s, "hb") ELSE s)
        EXCEPT !.selected = TRUE,
               !.paused = s.paused \/ (pause /\ \E l \in Loops : s.loop[l].checked)]

SelectCall(s) ==
    LET paused == pause /\ s.loop["hb"].checked
        stop(t, l) == IF pause THEN Uncheck(t, l) ELSE t
    IN  [stop(stop(s, "hb"), "cq") EXCEPT !.selected = TRUE,
                                          !.paused = s.paused \/ paused]

(* prepareHeartbeatMode.                                                   *)
PrepareHeartbeatMode(s, enabled) ==
    IF enabled THEN s ELSE Uncheck(Cancel(s, "hb"), "hb")

(* setupJS8 for a speed.                                                   *)
SetupJS8(s, m) ==
    PrepareHeartbeatMode([s EXCEPT !.speed = m], m \in HbSubmodes /\ hbMode)

(* A loop starts again from square one.                                    *)
Restart(s, l) == IF s.loop[l].active THEN Start(s, l, s.loop[l].period) ELSE s
-----------------------------------------------------------------------------
Init ==
    /\ time = 0
    /\ drift \in Drifts
    /\ loop = [l \in Loops |-> [active |-> FALSE, next |-> 0, period |-> 0,
                                timer |-> Unset, checked |-> FALSE]]
    /\ interval \in [Loops -> Intervals \cup ApiIntervals]
    /\ \A l \in Loops : interval[l] \in Settable(l)
    /\ selected = FALSE
    /\ m_hbPaused = FALSE
    /\ pause \in BOOLEAN
    /\ hbMode = TRUE
    /\ m_nSubMode \in Submodes
    /\ m_submode = m_nSubMode
    /\ m_tx_delay \in Delays
    /\ boxes = << >>
    /\ lastTrigger = Unset
    /\ inputs = 0

(* Timers are not later than MaxLate.                                      *)
Tick ==
    /\ time < MaxTime
    /\ \A l \in Loops : loop[l].timer # Unset => time < loop[l].timer + MaxLate
    /\ time' = time + 1
    /\ UNCHANGED <<drift, loop, interval, selected, m_hbPaused, pause, hbMode,
                   m_nSubMode, m_submode, m_tx_delay, boxes, lastTrigger, inputs>>

(* The division of C++, which truncates, for a >= 0 and b # 0.             *)
Quotient(a, b) == IF b > 0 THEN a \div b ELSE -(a \div (-b))

(* TxLoop::onTimer: the next start after the one that is due, or after the *)
(* clock if that has gone past it.                                         *)
NextActivity(l) ==
    LET now  == Drifted(time, drift)
        raw  == loop[l].next + loop[l].period
        next == raw - (raw % Period[m_submode])
        late == now - (next - m_tx_delay)
    IN  IF late > 0 THEN next + (Quotient(late, loop[l].period) + 1) * loop[l].period
                    ELSE next

(* There is room for another box, if one opens.                            *)
Possible(outcome) == outcome = "idle" => Len(boxes) < MaxBoxes

(* triggerTxNow is handled at once, and so is the message being refused.   *)
OnTimer(l, outcome) ==
    LET next == NextActivity(l)
        wait == next - Drifted(time, drift) - m_tx_delay
        rescheduled == [State(outcome) EXCEPT !.loop[l].next = next,
                                              !.loop[l].timer = TimerTo(time + wait)]
        told == Cancel(rescheduled, Other(l))
    IN  /\ Possible(outcome)
        /\ loop[l].timer # Unset
        /\ loop[l].timer =< time
        /\ lastTrigger' = time
        /\ UNCHANGED <<time, drift, pause, hbMode, inputs>>
        /\ Becomes(IF l = "cq" THEN SendCQ(told, TRUE) ELSE Transmit(told))

-----------------------------------------------------------------------------
(* What the user and the API do.  An open box takes the user's input: only *)
(* the API gets through.                                                   *)
Input == inputs < MaxInputs /\ inputs' = inputs + 1

UserInput == Input /\ boxes = << >>

ApiInput == Input /\ ApiEnabled

(* The button of a loop, shown in heartbeat mode only for the heartbeat.   *)
ButtonShown(l) == l = "hb" => hbMode /\ m_nSubMode \in HbSubmodes

MacroButtonToggled(l, outcome) ==
    /\ UserInput
    /\ ButtonShown(l)
    /\ Becomes(SetChecked(State(outcome), l, ~loop[l].checked))
    /\ UNCHANGED <<time, drift, pause, hbMode, lastTrigger>>

(* STATION.SET_HB_TIMER of the API.                                        *)
SetHbTimer(start, outcome) ==
    /\ ApiInput
    /\ Possible(outcome)
    /\ Becomes(SetChecked(State(outcome), "hb", start))
    /\ UNCHANGED <<time, drift, pause, hbMode, lastTrigger>>

(* The menu of the button.                                                 *)
RepeatMenu(l, i, outcome) ==
    LET set == [State(outcome) EXCEPT !.interval[l] = i]
    IN  /\ UserInput
        /\ ButtonShown(l)
        /\ Becomes(SetChecked(Uncheck(set, l), l, i > 0))
        /\ UNCHANGED <<time, drift, pause, hbMode, lastTrigger>>

(* STATION.SET_HB_INTERVAL of the API, which stores what it is given.      *)
SetHbIntervalOfBoth(i) ==   \* mutant: the CQ's interval is set with it
    /\ ApiInput
    /\ Becomes([State("ready") EXCEPT !.interval = [l \in Loops |-> i]])
    /\ UNCHANGED <<time, drift, pause, hbMode, lastTrigger>>

SetHbInterval(i) ==
    LET set == [State("ready") EXCEPT !.interval["hb"] = i]
    IN  /\ ApiInput
        /\ Becomes(IF loop["hb"].checked /\ i > 0 THEN Start(set, "hb", i) ELSE set)
        /\ UNCHANGED <<time, drift, pause, hbMode, lastTrigger>>

(* "Send CQ Now".                                                          *)
SendCQNow(outcome) ==
    /\ UserInput
    /\ Becomes(SendCQ(State(outcome), FALSE))
    /\ UNCHANGED <<time, drift, pause, hbMode, lastTrigger>>

SelectionChanged(call, outcome) ==
    /\ UserInput
    /\ Becomes(IF call THEN SelectCall(State(outcome)) ELSE Deselect(State(outcome)))
    /\ UNCHANGED <<time, drift, pause, hbMode, lastTrigger>>

(* setSubmode ("Jump to ... speed"), which tells the loops.  A loop with a *)
(* negative period throws in onModeChange, and nothing catches that.       *)
SetSubmode(m) ==
    LET setup == [SetupJS8(State("ready"), m) EXCEPT !.submode = m]
    IN  /\ UserInput
        /\ m # m_submode => \A l \in Loops : loop[l].period >= 0
        /\ Becomes(IF m # m_submode THEN Restart(Restart(setup, "hb"), "cq") ELSE setup)
        /\ UNCHANGED <<time, drift, pause, hbMode, lastTrigger>>

(* The speed menu and MODE.SET_SPEED of the API, which do not.             *)
SelectSpeed(m) ==
    /\ UserInput \/ ApiInput
    /\ Becomes(SetupJS8(State("ready"), m))
    /\ UNCHANGED <<time, drift, pause, hbMode, lastTrigger>>

(* on_stopTxButton_clicked, and refuseToSendIn30mWSPRBand; also a message  *)
(* of the queue or the composer that is refused when its time has come.    *)
StopTxButton ==
    /\ Input
    /\ Becomes(Stop(State("ready")))
    /\ UNCHANGED <<time, drift, pause, hbMode, lastTrigger>>

(* processRxActivity and processCommandActivity: "If we've received a      *)
(* message to be displayed, we should no longer call CQ".                  *)
MessageDisplayed ==
    /\ Input
    /\ Becomes(Cancel(State("ready"), "cq"))
    /\ UNCHANGED <<time, drift, pause, hbMode, lastTrigger>>

(* on_actionModeJS8HB_toggled, also by the API.                            *)
HbModeToggled ==
    /\ UserInput \/ ApiInput
    /\ hbMode' = ~hbMode
    /\ Becomes(PrepareHeartbeatMode(State("ready"), m_nSubMode \in HbSubmodes /\ hbMode'))
    /\ UNCHANGED <<time, drift, pause, lastTrigger>>

(* on_actionModeAutoreply_toggled and on_actionHeartbeatAcknowledgements_- *)
(* toggled, with the setupJS8 at their end.                                *)
Toggled(s) == PrepareHeartbeatMode(s, m_nSubMode \in HbSubmodes /\ hbMode)

AutoreplyToggled ==
    /\ UserInput \/ ApiInput
    /\ Becomes(Toggled(State("ready")))
    /\ UNCHANGED <<time, drift, pause, hbMode, lastTrigger>>

(* The configuration: the next guiUpdate tells the loops of the tx delay.  *)
TxDelayChange(d) ==
    LET set == [State("ready") EXCEPT !.delay = d]
    IN  /\ UserInput
        /\ d # m_tx_delay
        /\ Becomes(Restart(Restart(set, "hb"), "cq"))
        /\ UNCHANGED <<time, drift, pause, hbMode, lastTrigger>>

PauseChanged ==
    /\ UserInput
    /\ pause' = ~pause
    /\ Becomes(State("ready"))
    /\ UNCHANGED <<time, drift, hbMode, lastTrigger>>

(* TxLoop::onDriftChange of both loops.                                    *)
OnDriftChangeSmall(s, l, d) ==   \* mutant: every change counts as small
    IF s.loop[l].active
    THEN [s EXCEPT !.loop[l].timer = time + s.loop[l].next - s.delay - Drifted(time, d)]
    ELSE s

OnDriftChange(s, l, d) ==
    LET now  == Drifted(time, d)
        push == s.loop[l].next - s.delay
    IN  IF ~s.loop[l].active THEN s
        ELSE IF now < push /\ push < now + s.loop[l].period
        THEN [s EXCEPT !.loop[l].timer = time + (push - now)]
        ELSE Start(s, l, s.loop[l].period)

SetDrift(d) ==
    /\ Input
    /\ d # drift
    /\ drift' = d
    /\ Becomes(OnDriftChange(OnDriftChange(State("ready"), "cq", d), "hb", d))
    /\ UNCHANGED <<time, pause, hbMode, lastTrigger>>

(* minuteTimer finds the user idle.                                        *)
Watchdog ==
    /\ Input
    /\ Possible("idle")
    /\ Becomes(TxWatchdog(State("ready")))
    /\ UNCHANGED <<time, drift, pause, hbMode, lastTrigger>>

(* The box that is closed restores the auto replies, which may have been   *)
(* on, and the buttons.                                                    *)
BoxClosed(outcome, wasAuto) ==
    LET box    == boxes[Len(boxes)]
        closed == [State(outcome) EXCEPT !.boxes = SubSeq(boxes, 1, Len(boxes) - 1)]
        auto   == IF wasAuto THEN Toggled(closed) ELSE closed
    IN  /\ boxes # << >>
        /\ Becomes(SetChecked(SetChecked(auto, "hb", box.hb), "cq", box.cq))
        /\ UNCHANGED <<time, drift, pause, hbMode, lastTrigger, inputs>>

(* The bounds are reached.                                                 *)
Done == time = MaxTime /\ inputs = MaxInputs /\ UNCHANGED vars

Next ==
    \/ Tick
    \/ \E l \in Loops, outcome \in Outcomes : OnTimer(l, outcome)
    \/ \E l \in Loops, outcome \in UserOutcomes : MacroButtonToggled(l, outcome)
    \/ \E l \in Loops, i \in Intervals, outcome \in UserOutcomes : RepeatMenu(l, i, outcome)
    \/ \E i \in ApiIntervals : SetHbInterval(i)
    \/ \E start \in BOOLEAN, outcome \in Outcomes : SetHbTimer(start, outcome)
    \/ \E outcome \in UserOutcomes : SendCQNow(outcome)
    \/ \E call \in BOOLEAN, outcome \in UserOutcomes : SelectionChanged(call, outcome)
    \/ \E m \in Submodes : SetSubmode(m) \/ SelectSpeed(m)
    \/ StopTxButton
    \/ MessageDisplayed
    \/ HbModeToggled
    \/ AutoreplyToggled
    \/ PauseChanged
    \/ \E d \in Delays : TxDelayChange(d)
    \/ \E d \in Drifts : SetDrift(d)
    \/ Watchdog
    \/ \E outcome \in UserOutcomes, wasAuto \in BOOLEAN : BoxClosed(outcome, wasAuto)
    \/ Done

Spec == Init /\ [][Next]_vars

-----------------------------------------------------------------------------
(* Type invariant.                                                         *)
TypeOK ==
    /\ time \in Nat
    /\ drift \in Drifts
    /\ loop \in [Loops -> Loop]
    /\ interval \in [Loops -> Int]
    /\ \A l \in Loops : interval[l] \in Settable(l)
    /\ {selected, m_hbPaused, pause, hbMode} \subseteq BOOLEAN
    /\ {m_nSubMode, m_submode} \subseteq Submodes
    /\ m_tx_delay \in Delays
    /\ boxes \in Seq(Box)
    /\ lastTrigger \in Nat \cup {Unset}
    /\ inputs \in Nat

(* "Disable HB loop while CQ loop runs and vice versa" (UI_Constructor):   *)
(* whatever starts a loop, one runs at most; a button is checked exactly   *)
(* while its loop is active, and so is its timer set, unless an            *)
(* application stored a negative interval.                                 *)
OneLoop ==
    /\ ~(loop["hb"].active /\ loop["cq"].active)
    /\ \A l \in Loops : /\ loop[l].checked <=> loop[l].active
                        /\ loop[l].timer # Unset => loop[l].active
                        /\ loop[l].active /\ loop[l].period > 0 => loop[l].timer # Unset

(* A loop goes on after it has triggered a transmission that was not       *)
(* refused, with the next one ahead: the CQ's clears the selection, and    *)
(* that would start a paused heartbeat, which would end the CQ loop.  If   *)
(* the message was refused neither loop runs on, whatever the handler has  *)
(* started before that.                                                    *)
TriggerKeepsItsLoop ==
    [][\A l \in Loops, outcome \in Outcomes : OnTimer(l, outcome) =>
        IF outcome = "ready"
        THEN loop'[l].active /\ (loop[l].period > 0 => loop'[l].timer > time)
        ELSE \A k \in Loops : ~loop'[k].active /\ ~loop'[k].checked]_vars

(* The next start planned is the start of a slot of the speed the loops    *)
(* know of.                                                                *)
StartsWithSlot ==
    \A l \in Loops : loop[l].active => loop[l].next % Period[m_submode] = 0

(* "Propagate tx submode changes to the CQ and HB loop" (UI_Constructor):  *)
(* the loops know the speed.                                               *)
LoopsKnowTheSpeed ==
    \A l \in Loops : loop[l].active => loop[l].next % Period[m_nSubMode] = 0

(* "triggerTxNow will fire every loop_period_ms milliseconds" (TxLoop):    *)
(* an active loop is nearer to its next transmission than its period and   *)
(* the slot it waits for, if the period is one.                            *)
NextIsNear ==
    \A l \in Loops : loop[l].active /\ loop[l].period > 0 =>
        loop[l].timer - time < loop[l].period + Period[m_submode]

(* "Submode period does not fit tx schedule period" (TxLoop::onModeChange  *)
(* throws): the period of an active loop is a slot at least.               *)
PeriodsHoldASlot ==
    \A l \in Loops : loop[l].active => loop[l].period >= Period[m_submode]

(* "It is not advisable to send a HB in one period and a CQ in the very    *)
(* next, or a CQ first and then a HB too soon" (UI_Constructor): between   *)
(* a transmission of either loop and the next, of a loop with a period, is *)
(* the shortest period, but for the delay, a late timer and what the drift *)
(* has moved the clock.                                                    *)
Spread(S) == CHOOSE d \in {a - b : a, b \in S} : \A a, b \in S : a - b =< d

Periods == {i \in Intervals \cup ApiIntervals : i > 0}

ShortestInterval == CHOOSE i \in Periods : \A j \in Periods : i =< j

TransmissionsAreSpaced ==
    [][\A l \in Loops, outcome \in Outcomes :
        loop[l].period > 0 /\ lastTrigger # Unset /\ OnTimer(l, outcome) =>
            time - lastTrigger >=
                ShortestInterval - Spread(Delays \cup {0}) - MaxLate - Spread(Drifts)]_vars
=============================================================================
