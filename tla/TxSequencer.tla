---------------------------- MODULE TxSequencer ----------------------------
(***************************************************************************)
(* The transmit sequencer of JS8Call: the GUI thread cuts the text of the  *)
(* composer into frames and keys one of them in each period (startTx,      *)
(* prepareSending, stopTx, guiUpdate), the rig thread switches the PTT and *)
(* reports it, and the audio thread plays the tones when the rig has       *)
(* confirmed the PTT (handle_transceiver_update, Modulator).               *)
(*                                                                         *)
(* A frame is a number, in the order of typing; the text of the composer   *)
(* is what is not yet sent of it, as frames, and whether there is a part   *)
(* that is.  The period has four phases: the TX delay before it begins,    *)
(* the start, in which a frame may begin, the rest of the frame, in which  *)
(* it is too late to, and the gap between two frames.                      *)
(*                                                                         *)
(* The GUI thread's handlers call each other, so its variables are fields  *)
(* of one record and the functions of the code are operators on it; what   *)
(* they emit to the other threads is collected in it and queued when the   *)
(* handler returns.  Tuning and failures of the rig are left out: m_tune   *)
(* is false, and m_restart with it, as the start button is down during     *)
(* every other transmission.                                               *)
(***************************************************************************)
EXTENDS Integers, Sequences

CONSTANTS
    HoldPtt,        \* the values of the user's option to hold the PTT
    MaxFrames,      \* bound: frames typed, by the user or in messages
    MaxHalts,       \* bound: transmissions the user stops
    MaxChanges,     \* bound: changes of the frequency and of the TX switch
    MayRestart,     \* a transmission may begin as soon as another is stopped
    MayIdle         \* the idle watchdog may fire

ASSUME BoundAssumption ==
    /\ HoldPtt \subseteq BOOLEAN /\ HoldPtt # {}
    /\ {MaxFrames, MaxHalts, MaxChanges} \subseteq Nat
    /\ {MayRestart, MayIdle} \subseteq BOOLEAN

VARIABLES
    phase,          \* of the period
    polled,         \* guiUpdate has run in this phase
    ui,             \* the GUI thread
    hold,           \* Configuration's hold_ptt
    rigQ,           \* commands queued to the rig thread: the PTT
    rigPtt,         \* the PTT of the rig
    updates,        \* updates queued to the GUI thread
    modQ,           \* signals queued to the modulator: "start", "stop"
    modulator,      \* "idle", "active"
    \* history of the run and bounds
    onAir,          \* the frame being sent from its beginning
    aired,          \* frames sent in whole
    typed,          \* frames typed
    halts,
    changes

vars == <<phase, polled, ui, hold, rigQ, rigPtt, updates, modQ, modulator, onAir,
          aired, typed, halts, changes>>

rigVars == <<rigQ, rigPtt, updates>>
modVars == <<modQ, modulator>>

-----------------------------------------------------------------------------
None  == 0
Frame == 1 .. MaxFrames

Phases == {"delay", "start", "late", "gap"}

Message == [frames : Seq(Frame), high : BOOLEAN]     \* high: PriorityHigh

(* An update of the rig: the PTT, and whether no newer command was issued  *)
(* (the sequence number that Configuration compares).                      *)
Update == [ptt : BOOLEAN, current : BOOLEAN]

UI == [ auto : BOOLEAN,             \* m_auto
        button : BOOLEAN,           \* startTxButton is down
        enabled : BOOLEAN,          \* monitorTxButton: transmitting allowed
        autoreply : BOOLEAN,        \* actionModeAutoreply
        btxok : BOOLEAN,            \* m_btxok and its value at the last poll
        btxok0 : BOOLEAN,
        iptt : BOOLEAN,             \* m_iptt and its value at the last poll
        iptt0 : BOOLEAN,
        transmitting : BOOLEAN,     \* m_transmitting
        next : Frame \cup {None},   \* m_nextFreeTextMsg
        itone : Frame \cup {None},  \* the frame encoded in itone
        sent : BOOLEAN,             \* some of the composer's text is sent
        unsent : Seq(Frame),        \* the rest of it
        dirty : BOOLEAN,            \* it was edited
        queue : Seq(Frame),         \* m_txFrameQueue
        count : Nat,                \* m_txFrameCount
        messages : Seq(Message),    \* m_txMessageQueue, its top first
        timer : BOOLEAN,            \* pttReleaseTimer is running
        awaiting : BOOLEAN,         \* m_generateAudioWhenPttConfirmedByTX
        ptt : BOOLEAN,              \* the PTT in cached_rig_state_
        reported : BOOLEAN,         \* the PTT in m_rigState
        toRig : Seq(BOOLEAN),       \* emitted by this handler
        toModulator : Seq({"start", "stop"}) ]

HasText(s) == s.sent \/ s.unsent # << >>

(* isMessageQueuedForTransmit                                              *)
Queued(s) == s.transmitting \/ s.count > 0

EmitPtt(s, on) == [s EXCEPT !.ptt = on, !.toRig = Append(@, on)]

(* setRig: a command for the frequency, which carries the cached PTT.      *)
EmitFrequency(s) == EmitPtt(s, s.ptt)

(* addMessageText                                                          *)
AddMessageText(s, frames, clear) ==
    IF Queued(s) THEN s
    ELSE [s EXCEPT !.unsent = IF clear THEN frames ELSE @ \o frames,
                   !.sent   = IF clear THEN FALSE ELSE @,
                   !.dirty  = TRUE]

(* Mutants: an edit is seen when the frames run out; a frame stays queued.  *)
PrepareNextMessageFrameLate(s) ==
    LET t == IF s.dirty /\ HasText(s) /\ s.queue = << >>
             THEN [s EXCEPT !.queue = s.unsent, !.count = Len(s.unsent),
                            !.dirty = FALSE]
             ELSE s
    IN  IF t.queue = << >> THEN [t EXCEPT !.next = None]
        ELSE [t EXCEPT !.next = Head(t.queue), !.queue = Tail(@), !.sent = TRUE,
                       !.unsent = IF t.dirty THEN @ ELSE Tail(t.queue)]

PrepareNextMessageFrameAgain(s) ==
    LET t == IF s.dirty /\ HasText(s)
             THEN [s EXCEPT !.queue = s.unsent, !.count = Len(s.unsent),
                            !.dirty = FALSE]
             ELSE s
    IN  IF t.queue = << >> THEN [t EXCEPT !.next = None]
        ELSE [t EXCEPT !.next = Head(t.queue), !.sent = TRUE]

(* The frames of an edited text are built anew; then the next one is taken *)
(* and its text locked.                                                    *)
PrepareNextMessageFrame(s) ==
    LET t == IF s.dirty /\ HasText(s)
             THEN [s EXCEPT !.queue = s.unsent, !.count = Len(s.unsent),
                            !.dirty = FALSE]
             ELSE s
    IN  IF t.queue = << >> THEN [t EXCEPT !.next = None]
        ELSE [t EXCEPT !.next = Head(t.queue), !.queue = Tail(@), !.sent = TRUE,
                       !.unsent = Tail(t.queue)]

(* Mutants: m_iptt stays set; the PTT timer is not started; frames are     *)
(* counted down, also when none was sent.                                  *)
EndTransmitKeyed(s) ==
    [s EXCEPT !.btxok = FALSE, !.transmitting = FALSE,
              !.timer = TRUE, !.toModulator = Append(@, "stop")]

EndTransmitUntimed(s) ==
    [s EXCEPT !.btxok = FALSE, !.transmitting = FALSE, !.iptt = FALSE,
              !.toModulator = Append(@, "stop")]

(* stopTx, but for the next frame.                                         *)
EndTransmit(s) ==
    [s EXCEPT !.btxok = FALSE, !.transmitting = FALSE, !.iptt = FALSE,
              !.timer = TRUE, !.toModulator = Append(@, "stop")]

(* Mutants: m_sent, or m_txFrameCount, is not reset.                       *)
ResetMessageLocked(s) ==
    [s EXCEPT !.next = None, !.unsent = << >>, !.dirty = TRUE,
              !.queue = << >>, !.count = 0, !.button = FALSE]

ResetMessageCounted(s) ==
    [s EXCEPT !.next = None, !.sent = FALSE, !.unsent = << >>, !.dirty = TRUE,
              !.queue = << >>, !.button = FALSE]

(* resetMessage, but for what the button going up does.                    *)
ResetMessage(s) ==
    [s EXCEPT !.next = None, !.sent = FALSE, !.unsent = << >>, !.dirty = TRUE,
              !.queue = << >>, !.count = 0, !.button = FALSE]

(* on_stopTxButton_clicked.  The button goes up in resetMessage, and its   *)
(* handler calls stopTx, which finds nothing more to send.                 *)
StopTxButton(s) ==
    LET t == [ResetMessage(s) EXCEPT !.auto = FALSE, !.btxok = FALSE]
    IN  IF s.button THEN EndTransmit(t) ELSE t

StopTx(s) ==
    LET t == PrepareNextMessageFrame(EndTransmit(s))
    IN  IF t.next = None THEN StopTxButton(t) ELSE t

MayBegin == phase \in {"delay", "start"}

(* The steps of prepareSending, in their order.                            *)
StopWithoutMessage(s) == IF s.next = None THEN StopTxButton(s) ELSE s

\* Mutant: the audio does not wait for the PTT.
KeyWithAudio(s) ==
    IF ~s.iptt /\ MayBegin /\ s.next # None
    THEN EmitPtt([s EXCEPT !.iptt = TRUE, !.toModulator = Append(@, "start")], TRUE)
    ELSE s

Key(s) ==
    IF ~s.iptt /\ MayBegin /\ s.next # None
    THEN EmitPtt(EmitFrequency([s EXCEPT !.iptt = TRUE, !.awaiting = TRUE]), TRUE)
    ELSE s

\* Mutant: the time of a frame is the time in which it may begin.
TimeToStopEarly(s) == IF ~MayBegin THEN [s EXCEPT !.btxok = FALSE] ELSE s

TimeToStop(s) == IF phase = "gap" THEN [s EXCEPT !.btxok = FALSE] ELSE s

StartTransmitting(s) ==
    IF s.iptt /\ ~s.iptt0
    THEN [s EXCEPT !.itone = s.next, !.transmitting = TRUE, !.btxok = TRUE]
    ELSE s

StopWhenDone(s) == IF ~s.btxok /\ s.btxok0 /\ s.iptt THEN StopTx(s) ELSE s

PrepareSending(s) ==
    StopWhenDone(StartTransmitting(TimeToStop(Key(StopWithoutMessage(s)))))

StartTx(s) ==
    IF ~HasText(s) THEN s
    ELSE IF ~s.enabled THEN StopTxButton(s)
    ELSE LET t == PrepareNextMessageFrame(s)
         IN  IF t.next = None \/ t.auto THEN t
             ELSE PrepareSending([t EXCEPT !.auto = TRUE])

(* toggleTx(true)                                                          *)
ToggleTx(s) == IF s.button THEN s ELSE StartTx([s EXCEPT !.button = TRUE])

(* A message is put into the composer, and sent at once unless that is left *)
(* to the user.  The 30 seconds between messages of low priority are not    *)
(* modelled.                                                                *)
ProcessTxQueue(s) ==
    IF s.messages = << >> \/ s.queue # << >> \/ HasText(s) \/ Queued(s) THEN s
    ELSE LET m == Head(s.messages)
             t == AddMessageText([s EXCEPT !.messages = Tail(@)], m.frames, TRUE)
         IN  IF m.high \/ s.autoreply THEN ToggleTx(t) ELSE t
-----------------------------------------------------------------------------
Idle == [auto |-> FALSE, button |-> FALSE, enabled |-> TRUE,
         autoreply |-> FALSE, btxok |-> FALSE,
         btxok0 |-> FALSE, iptt |-> FALSE, iptt0 |-> FALSE, transmitting |-> FALSE,
         next |-> None, itone |-> None, sent |-> FALSE, unsent |-> << >>,
         dirty |-> FALSE, queue |-> << >>, count |-> 0, messages |-> << >>,
         timer |-> FALSE, awaiting |-> FALSE, ptt |-> FALSE, reported |-> FALSE,
         toRig |-> << >>, toModulator |-> << >>]

Init ==
    /\ phase = "gap"
    /\ polled = FALSE
    /\ \E autoreply \in BOOLEAN : ui = [Idle EXCEPT !.autoreply = autoreply]
    /\ hold \in HoldPtt
    /\ rigQ = << >>
    /\ rigPtt = FALSE
    /\ updates = << >>
    /\ modQ = << >>
    /\ modulator = "idle"
    /\ onAir = None
    /\ aired = {}
    /\ typed = 0
    /\ halts = 0
    /\ changes = 0

(* A handler of the GUI thread returns with the record s: what it emitted  *)
(* is queued, and a command outdates the updates on their way.             *)
OutdatedNever(us) == us    \* mutant: the update of an older command counts

Outdated(us) == [i \in DOMAIN us |-> [us[i] EXCEPT !.current = FALSE]]

Return(s, us) ==
    /\ ui' = [s EXCEPT !.toRig = << >>, !.toModulator = << >>]
    /\ rigQ' = rigQ \o s.toRig
    /\ modQ' = modQ \o s.toModulator
    /\ updates' = IF s.toRig = << >> THEN us ELSE Outdated(us)
    /\ onAir' = IF s.itone = ui.itone THEN onAir ELSE None
    /\ UNCHANGED <<phase, hold, rigPtt, modulator, aired>>

Handler(s) == Return(s, updates) /\ UNCHANGED polled

(* The other threads are done with everything that was queued to them.     *)
Quiet == rigQ = << >> /\ updates = << >> /\ modQ = << >>

(* A transmission that was stopped has come to rest: its PTT is released   *)
(* and the GUI thread has polled since; or it is too late to begin another *)
(* in this period anyway.                                                  *)
Rested ==
    \/ phase \in {"late", "gap"}
    \/ ~ui.timer /\ ui.iptt = ui.iptt0 /\ Quiet

MayStart == MayRestart \/ Rested

MayHalt == halts < MaxHalts

-----------------------------------------------------------------------------
(* The GUI thread: its poll, every 100 ms; second: a second has passed.    *)
KeepLastValues(s) == [s EXCEPT !.iptt0 = s.iptt, !.btxok0 = s.btxok]

TransmitDisplay(s) == IF s.transmitting THEN [s EXCEPT !.btxok = TRUE] ELSE s

GuiUpdate(second) ==
    LET s == IF ui.transmitting \/ ui.auto THEN PrepareSending(ui) ELSE ui
    IN  /\ second /\ s.messages # << >> => MayStart
        /\ Return(KeepLastValues(IF second THEN ProcessTxQueue(TransmitDisplay(s)) ELSE s),
                  updates)
        /\ polled' = TRUE
        /\ UNCHANGED <<typed, halts, changes>>

(* The user types: at the end of the text, or takes back what is not sent. *)
Type ==
    /\ typed < MaxFrames
    /\ typed' = typed + 1
    /\ Handler([ui EXCEPT !.unsent = Append(@, typed + 1), !.dirty = TRUE])
    /\ UNCHANGED <<halts, changes>>

Erase ==
    /\ ui.unsent # << >>
    /\ Handler([ui EXCEPT !.unsent = << >>, !.dirty = TRUE])
    /\ UNCHANGED <<typed, halts, changes>>

(* The start button, which is enabled only with text and when nothing is   *)
(* queued (updateTextDisplay); it may be down already.                     *)
StartTxButton ==
    /\ MayStart
    /\ ui.enabled /\ HasText(ui) /\ ~Queued(ui)
    /\ Handler(IF ui.button THEN EndTransmit(StopTxButton(ui)) ELSE ToggleTx(ui))
    /\ UNCHANGED <<typed, halts, changes>>

(* A macro, or CQ: text is added, and sent at once.                        *)
SendMacro ==
    /\ MayStart
    /\ typed < MaxFrames
    /\ typed' = typed + 1
    /\ Handler(ToggleTx(AddMessageText(ui, <<typed + 1>>, FALSE)))
    /\ UNCHANGED <<halts, changes>>

(* enqueueMessage, by an automatic reply, a relay or the API, whose request *)
(* TX.SEND_MESSAGE calls processTxQueue as well.  Of two messages the        *)
(* queue's operator< holds for the older and the newer one, whatever their   *)
(* priorities (the date decides when the priority is not less): the newest   *)
(* is always pushed to the top, and of up to three it is the newest that is  *)
(* on top when one was popped.                                               *)
Push(m, messages) == <<m>> \o messages

EnqueueMessage(length, high, process) ==
    LET m == [frames |-> [i \in 1 .. length |-> typed + i], high |-> high]
        s == [ui EXCEPT !.messages = Push(m, @)]
    IN  /\ process => MayStart /\ ~high
        /\ typed + length =< MaxFrames
        /\ typed' = typed + length
        /\ Handler(IF process THEN ProcessTxQueue(s) ELSE s)
        /\ UNCHANGED <<halts, changes>>

(* The stop button, RIG.TX_HALT, a failure of the rig; the Escape key.     *)
OnStopTxButton ==
    /\ MayHalt
    /\ halts' = halts + 1
    /\ Handler(StopTxButton(ui))
    /\ UNCHANGED <<typed, changes>>

Escape ==
    /\ MayHalt
    /\ halts' = halts + 1
    /\ Handler(StopTx(StopTxButton(ui)))
    /\ UNCHANGED <<typed, changes>>

(* monitorTxButton                                                         *)
OnMonitorTxButton ==
    /\ changes < MaxChanges
    /\ ui.enabled => MayHalt
    /\ changes' = changes + 1
    /\ Handler(IF ui.enabled THEN [StopTxButton(ui) EXCEPT !.enabled = FALSE]
                             ELSE [ui EXCEPT !.enabled = TRUE])
    /\ UNCHANGED <<typed, halts>>

(* tx_watchdog(true), when the user was idle for too long.                 *)
TxWatchdog ==
    /\ MayIdle
    /\ MayHalt
    /\ halts' = halts + 1
    /\ LET s == StopTx(IF ui.auto THEN StopTxButton(ui) ELSE ui)
       IN  Handler([s EXCEPT !.queue = << >>, !.count = 0, !.autoreply = FALSE])
    /\ UNCHANGED <<typed, changes>>

(* The user changes the frequency.                                         *)
SetRig ==
    /\ changes < MaxChanges
    /\ changes' = changes + 1
    /\ Handler(EmitFrequency(ui))
    /\ UNCHANGED <<typed, halts>>

\* Mutant: a PTT that may be held is not released.
StopTx2Held ==
    /\ ui.timer
    /\ modQ = << >>
    /\ LET s == [ui EXCEPT !.timer = FALSE]
       IN  Handler(IF hold THEN s ELSE EmitPtt(s, FALSE))
    /\ UNCHANGED <<typed, halts, changes>>

(* stopTx2, 200 ms after stopTx.  The audio thread has handled the stop.   *)
StopTx2 ==
    /\ ui.timer
    /\ modQ = << >>
    /\ LET s == [ui EXCEPT !.timer = FALSE]
       IN  Handler(IF hold /\ s.count > 0 THEN s ELSE EmitPtt(s, FALSE))
    /\ UNCHANGED <<typed, halts, changes>>

(* handle_transceiver_update, of Configuration and of the main window.     *)
HandleTransceiverUpdate ==
    LET u == Head(updates)
        confirmed == hold \/ (u.ptt /\ ~ui.reported)
        starts == confirmed /\ ui.awaiting /\ ui.iptt /\ modulator = "idle"
    IN  /\ updates # << >>
        /\ Return(IF ~u.current THEN ui
                  ELSE [ui EXCEPT !.reported = u.ptt,
                                  !.awaiting = @ /\ ~confirmed,
                                  !.toModulator = IF starts THEN Append(@, "start") ELSE @],
                  Tail(updates))
        /\ UNCHANGED <<polled, typed, halts, changes>>

-----------------------------------------------------------------------------
(* The rig thread: TransceiverBase::set; the update is always sent.        *)
TransceiverSet ==
    /\ rigQ # << >>
    /\ rigQ' = Tail(rigQ)
    /\ rigPtt' = Head(rigQ)
    /\ updates' = Append(updates, [ptt |-> Head(rigQ), current |-> Tail(rigQ) = << >>])
    /\ onAir' = IF Head(rigQ) THEN onAir ELSE None
    /\ UNCHANGED <<phase, polled, ui, hold, modVars, aired, typed, halts, changes>>

(* The audio thread: Modulator::start and stop.                            *)
ModulatorSignal ==
    LET starts == Head(modQ) = "start"
    IN  /\ modQ # << >>
        /\ modQ' = Tail(modQ)
        /\ modulator' = IF starts THEN "active" ELSE "idle"
        /\ onAir' = IF starts /\ rigPtt /\ MayBegin THEN ui.itone ELSE None
        /\ UNCHANGED <<phase, polled, ui, hold, rigVars, aired, typed, halts, changes>>

(* The clock.  The GUI thread polls in every phase; the PTT timer and the  *)
(* round trip to the rig and to the audio thread take less than a phase.   *)
NextPhase == [delay |-> "start", start |-> "late", late |-> "gap", gap |-> "delay"]

Clock ==
    /\ polled
    /\ phase # "delay" => Quiet
    /\ phase \in {"late", "gap"} => ~ui.timer
    /\ phase' = NextPhase[phase]
    /\ polled' = FALSE
    /\ aired' = IF phase = "late" THEN aired \cup ({onAir} \ {None}) ELSE aired
    /\ onAir' = IF phase = "late" THEN None ELSE onAir
    /\ UNCHANGED <<ui, hold, rigVars, modVars, typed, halts, changes>>

User ==
    \/ Type
    \/ Erase
    \/ StartTxButton
    \/ SendMacro
    \/ \E length \in 1 .. 2, high, process \in BOOLEAN :
            EnqueueMessage(length, high, process)
    \/ OnStopTxButton
    \/ Escape
    \/ OnMonitorTxButton
    \/ TxWatchdog
    \/ SetRig

System ==
    \/ \E second \in BOOLEAN : GuiUpdate(second)
    \/ StopTx2
    \/ HandleTransceiverUpdate
    \/ TransceiverSet
    \/ ModulatorSignal
    \/ Clock

Next == User \/ System

Spec == Init /\ [][Next]_vars

(* The poll timer is started again at the end of every poll, so seconds    *)
(* keep being noticed; the threads handle what is queued to them, timers   *)
(* fire, time passes.                                                      *)
Fairness ==
    /\ []<><<GuiUpdate(TRUE)>>_vars
    /\ WF_vars(StopTx2)
    /\ WF_vars(HandleTransceiverUpdate)
    /\ WF_vars(TransceiverSet)
    /\ WF_vars(ModulatorSignal)
    /\ WF_vars(Clock)

FairSpec == Spec /\ Fairness

-----------------------------------------------------------------------------
TypeOK ==
    /\ phase \in Phases
    /\ polled \in BOOLEAN
    /\ ui \in UI
    /\ hold \in BOOLEAN
    /\ rigQ \in Seq(BOOLEAN)
    /\ rigPtt \in BOOLEAN
    /\ updates \in Seq(Update)
    /\ modQ \in Seq({"start", "stop"})
    /\ modulator \in {"idle", "active"}
    /\ onAir \in Frame \cup {None}
    /\ aired \subseteq Frame
    /\ typed \in 0 .. MaxFrames
    /\ halts \in Nat
    /\ changes \in Nat

(* m_iptt, m_transmitting, m_auto and the start button are set and cleared *)
(* in different handlers, of which stopTx and on_stopTxButton_clicked call *)
(* each other: a frame is keyed exactly while the program believes that it *)
(* is transmitting, and only for a message that was started.               *)
KeyedIsTransmitting ==
    /\ ui.iptt <=> ui.transmitting
    /\ ui.iptt => ui.auto /\ ui.next # None
    /\ ui.auto => ui.button

(* The PTT is not left on: when it is, a frame is being sent, the timer    *)
(* that will release it is running, or it is held for more frames.         *)
PttIsAccountedFor ==
    ui.ptt => ui.iptt \/ ui.timer \/ (hold /\ ui.count > 0)

(* No audio without PTT, at its beginning or at its end.                   *)
AudioOnlyWithPtt == modulator = "active" => rigPtt

(* When it is too late to begin a frame, the one that was keyed is on the  *)
(* air from its beginning: its tones are computed, the rig has confirmed   *)
(* the PTT and the modulator was free.                                     *)
KeyedIsOnAir == phase = "late" /\ ui.iptt => onAir = ui.next

(* Text is locked as sent only for a message that is being sent.           *)
LockedIsBeingSent == ui.sent => ui.auto

(* The next frame of the message is taken (or the first of another one).   *)
TakesNextFrame == ui.auto /\ ui'.auto /\ ui.next # ui'.next

(* The next frame of a message is taken only after the last one was sent   *)
(* in whole.                                                               *)
NoFrameIsSkipped == [][TakesNextFrame => ui.next \in aired]_vars

(* What is sent is what the composer shows, also when the text is edited   *)
(* while it is being sent: the next frame is the first of the unsent text. *)
SendsWhatIsTyped ==
    [][TakesNextFrame /\ ui.messages = ui'.messages =>
        ui.unsent = <<ui'.next>> \o ui'.unsent]_vars

(* Messages of high priority leave the queue before the others.            *)
TakesMessage == Len(ui'.messages) < Len(ui.messages)

HighPriorityFirst ==
    [][TakesMessage /\ ~Head(ui.messages).high =>
        \A i \in DOMAIN ui.messages : ~ui.messages[i].high]_vars

(* A transmission ends and the PTT goes off.                               *)
PttGoesOff == rigPtt ~> ~rigPtt

MessageEnds == ui.auto ~> ~ui.auto

(* The queued messages go out one after the other, unless the composer     *)
(* keeps a text that nobody sends.                                         *)
MessagesGoOut ==
    []<>(ui.messages = << >> \/ (HasText(ui) /\ ~ui.auto))
=============================================================================
