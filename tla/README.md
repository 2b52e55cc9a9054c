# A formal model of JS8Call-improved

JS8Call is a program for weak-signal keyboard conversations on short wave. It
listens to audio in a one-minute ring, decodes five speeds of the JS8 mode from
it, assembles frames into messages, answers some of them by itself, and keys a
transmitter in slots of the clock. This directory holds TLA+ modules of its
control logic, TLC configurations that check them on small instances, and
proofs, checked by TLAPS, of what holds for every value of the constants.

Paths below are those of the repository; `MainWindow` is the class
`UI_Constructor` of `src/JS8_UI/mainwindow.cpp` and `src/JS8_Mainwindow/*.cpp`.

## Inventory

Five threads of the program matter: the GUI thread (MainWindow, the loops, all
queues, the database), the audio thread (SoundInput, Detector, Modulator,
SoundOutput), the decoder thread (JS8::Worker), the rig thread (Transceiver) and
the network thread (APRSISClient and its like). They meet in the global
`dec_data`, in semaphores and in queued signals.

| component | state | operations | hard behaviour | what makes it correct | model |
|---|---|---|---|---|---|
| Receive pipeline (`Detector.cpp`, `SoundInput.cpp`, `dataSink.cpp`, `decode*` of `mainwindow.cpp`) | ring `dec_data.d2` and position `kin`, queued `framesWritten`, `m_decoderQueue`, last decode maps, `dec_data.params` | writeData, resetBufferPosition, suspend, resume, dataSink, decode, decodeEnqueueReadyExperiment, decodeProcessQueue, decodeStart | three threads, unsynchronised clearing, rotation under queued ranges, full ring, late or short minute | ranges fit, see the audio they are about, every fast cycle once | `RxPipeline` |
| Decoder and worker (`JS8.cpp`) | semaphore, `m_quit`, copy of `dec_data`, events | decode, quit, run | start and quit at any moment, second start | one run at a time on one snapshot; it ends | `RxPipeline`, `DecodeService` |
| Transmission loops (`TxLoop.cpp`, heartbeat and CQ buttons) | two loops with timers, buttons, intervals, paused heartbeat, watchdog boxes | onTimer, onTxLoopPeriodChangeStart, onLoopCancel, on*Change, buttons, menus, API | nested signals, two clocks, late timers, restored state | one loop at most, in step with its button, slots, spacing | `TxLoops` |
| Drifting clock (`DriftingDateTime.cpp`) | the drift | setDrift | every timer and the ring depend on it | all who planned by it are told | in both |
| Transmit sequencer (`guiUpdate`, `prepareSending`, `startTx`, `stopTx`, `Modulator.cpp`) | composer, `m_auto`, `m_iptt`, frame and message queues, PTT timer, modulator | poll, type, send, stop, PTT confirmation | PTT release against the next frame, handlers that call each other, edges between two polls, queued audio commands, late confirmations | PTT never left on, never released in a frame, no frame lost, what is typed is sent | `TxSequencer` |
| Transceiver layer (`JS8_Transceiver/*`, `Configuration::impl`, the rig of the main window) | requested and actual state, sequence numbers, poll retries; the cached state; nominal frequencies, error box | start, set, stop, poll, offline; frequency, TX frequency, PTT; update, failure, reopen | updates crossing commands, updates withheld, failures in the middle of a handler, a rig closed while its failure is on its way | PTT commands are obeyed in order, the rig ends up as last asked, a failure releases and closes it | `Transceiver`, `PttSwitch` |
| Receive assembly (`processDecodeEvent`, `processRxActivity`, `processBufferedActivity`) | activity by offset, message buffers, duplicates, command queue | add a frame, follow a drift, fill in an ellipsis or a callsign, close or drop a buffer | lost and repeated frames, two senders at one offset, time-outs | what is handed over was sent, by that station, once; what was received whole is handed over | `RxAssembly` |
| Commands and replies (`processCommandActivity.cpp`), message store (`Inbox.cpp`), heartbeat limit (`HBBlockingDB.cpp`) | command queue, store with receipts, confirmations, outgoing queue, composer | store, offer, fetch, mark, delete, confirm, send | offers that are fetched much later, portable callsigns, groups, relayed queries, confirmation with a time-out | a message is offered until it is sent, and what was offered can be fetched | `MessageStore` (not the heartbeat limit) |
| APRS-IS gateway (`APRSISClient.cpp`, `AprsInboundRelay.cpp`, `prepareSpotting`) | settings, frame queue, socket, login, pause, duplicates | settings, enqueue, process, connect, read, acknowledge | settings that arrive while a connection is made or closed, retries, expiry | no frame stays for ever, the relay reconnects and listens, a message is relayed once in its window | `AprsGateway` |
| API (`MessageServer.cpp`, `MessageClient.cpp`, `JS8_UDP/*`) | connections, handlers | accept, read, close, prune | handlers that close while reading | the limit of connections holds | what its requests do is in `TxLoops`, `TxSequencer`, `MessageStore`; the connections are not modelled |
| PSK Reporter, spot client | queues and timers | enqueue, send | look-up failures | spots are sent in batches | not modelled |
| Codecs, signal processing, drawing, logbook, audio files, settings | | | | | not modelled, see below |

## Modules

* `DecodeService`: abstract specification of the decoder as the GUI thread uses
  it: free, requested, running, finished, closed, and a snapshot of the input
  that only a request replaces.
* `RxPipeline`: the receive pipeline and the decoder with its worker.
* `RxPipeline_proofs`: theorems of `RxPipeline` and their proofs.
* `TxLoops`: the heartbeat and CQ loops and everything that switches them.
* `TxSequencer`: the composer's frames and the outgoing messages, the poll that
  keys them, the PTT with its timer and confirmation, the modulator.
* `TxSequencer_proofs`: the types, the buttons and the PTT of `TxSequencer`, what
  it does with the message and on the air, with their proofs.
* `TxLoops_proofs`: what the loops and buttons of `TxLoops` do, and when the loops
  transmit, with their proofs.
* `Transceiver`: the radio, the object that controls it in the rig thread, and
  the GUI thread's side of it with the numbering of commands.
* `PttSwitch`: abstract specification of the rig as the GUI thread relies on it
  for the PTT: a queue of commands obeyed in order, or ignored by a rig that
  failed, a rig that is opened only when the PTT is off and switches it off when
  it is closed or fails, and nothing else that keys the radio.
* `Transceiver_proofs`: theorems of `Transceiver` and their proofs.
* `RigReports_proofs`: what the GUI thread is told of the radio, and what it asks
  of it before it keys.
* `RxAssembly`: from decoded frames to commands.
* `RxAssembly_proofs`: theorems of `RxAssembly` and their proofs.
* `MessageStore`: messages kept for others, the commands about them, the answers
  on their way to the air.
* `MessageStore_proofs`: theorems of `MessageStore` and their proofs.
* `AprsGateway`: the client of APRS-IS, the settings and the inbound relay.
* `AprsGateway_proofs`: a theorem of its inbound relay.
* `MCRxPipeline`, `MCTxLoops`, `MCTxSequencer`, `MCTransceiver`, `MCRxAssembly`,
  `MCMessageStore`, `MCAprsGateway`: values for TLC.

How they fit together: `RxPipeline` hands decoded frames to `RxAssembly` (any
frame, any delay within its half period), that hands commands to `MessageStore`
(any command at any time), whose answers become the outgoing messages of
`TxSequencer`, which keys the rig of `Transceiver`. `TxLoops` triggers
heartbeats and CQs, which are texts for `TxSequencer` too. Each module leaves
its neighbour's part open where that part can do anything, so that what holds
of it holds in the whole; the composition proper is made where the neighbour's
order matters: `RxPipeline` with the worker, `TxSequencer` with modulator and
the rig's confirmations, `Transceiver` with the gateway and the main window's
handlers, `MessageStore` with queue and composer, `AprsGateway` with the relay.

### RxPipeline

One unit is one block of the detector (`m_samplesPerFFT` samples), and all
positions are in blocks. A slot of the ring holds the minute it was recorded
in, 0 for cleared: enough to say whose audio a range sees. An action is a
handler, or the part of one between two places where another thread can get
in; `guiPc` is the place in the GUI thread's handler of `framesWritten`:

| action | code |
|---|---|
| `WriteData` | `Detector::writeData`: a wrap of the second of the minute, a complete block, or both |
| `SoundInputSuspend`, `SoundInputResume` | `SoundInput::suspend`, `resume` with `Detector::reset` |
| `DataSink`, `DataSinkClear` | `dataSink` up to, and, the `std::fill` of the rest of the ring |
| `Decode`, `DecodeProcessQueue`, `DecodeStart` | `decode` with `decodeEnqueueReadyExperiment`; the two sections under the detector's lock |
| `DecodeFinished`, `DecodeFinishedWithDrift`, `OnDriftChanged` | the last event of a run with the drift it observed; a drift set by the user |
| `MonitorButtonClicked`, `BeginTransmit`, `StopTx` | what stops and starts the monitor |
| `ChangeOptions` | speed, multi decoder and autosync |
| `Quit`, `QuitDone` | the destructor, `Decoder::quit` |
| `WorkerStart` ... `WorkerReturn` | `JS8::Worker::run` |

Abstractions: of the queue only the last range of each speed is kept (the
queue is drained as a whole and a later range overwrites an earlier one); the
two wall-clock holds on the decoder are one flag `hold` that may end at any
time. Positions inside a block (`m_bufferPos`) are left out. History variables
(`minute`, `floor`, `epoch`, `prevKin`, `overrun`, `lastFull`) are read by
properties only; `overrun` are the slots that were cleared when they held audio
of after the signal, until they are recorded again.

### TxLoops

Everything runs in the GUI thread, so that a handler is one step with all the
signals it emits: what it does is an operator from the record `State` to the
next, composed like the calls are (`Start` emits nextActivityChanged, which is
`Cancel` of the other loop, which unchecks its button, and so on). Time is in
ticks of the system's clock; the application's clock is the drift ahead of it.
A loop's timer carries the system time it fires at. Requests of the API get
through while an idle time-out box is open, clicks do not.

| operator or action | code |
|---|---|
| `OnTimer` with `NextActivity`, `Quotient` | `TxLoop::onTimer`, and what `triggerTxNow` does in the same handler |
| `Start`, `Cancel`, `Restart`, `OnDriftChange` | `onTxLoopPeriodChangeStart`, `onLoopCancel`, `onModeChange` and `onTxDelayChange`, `onDriftChange` |
| `Transmit`, `Stop`, `TxWatchdog` | `ensureCreateMessageReady` with its callers, `on_stopTxButton_clicked`, `tx_watchdog(true)` |
| `CheckHb`, `CheckCq`, `Uncheck`, `MacroButtonToggled`, `RepeatMenu` | the buttons, `on_hbMacroButton_toggled`, `on_cqMacroButton_toggled`, their menus |
| `SendCQ`, `SendCQNow`, `StopTxButton`, `MessageDisplayed` | `sendCQ`, "Send CQ Now", whatever else ends the loops |
| `SelectCall`, `Deselect`, `SelectionChanged`, `PauseChanged` | `callsignSelectedChanged`, `clearCallsignSelected`, the setting that pauses heartbeats |
| `SetupJS8`, `SetSubmode`, `SelectSpeed`, `HbModeToggled`, `AutoreplyToggled` | the speeds and modes with `prepareHeartbeatMode` |
| `SetHbTimer`, `SetHbInterval` | STATION.SET_HB_TIMER, STATION.SET_HB_INTERVAL |
| `TxDelayChange`, `SetDrift` | the TX delay, the drift |
| `Watchdog`, `BoxClosed` | the idle user, the box that restores buttons and auto replies |

A transmission is refused, or the user found idle, in the handler that asks for
it: `sendCQ` and `sendHB` reach `ensureCreateMessageReady`, whose failing
branches call `on_stopTxButton_clicked`, which cancels both loops. Which branch
is taken is the `outcome`, a parameter of every action that may send: `ready`
(also for a message that waits because another is being sent), `refused` (TX
is off, no callsign is set, a key is stuck), `idle` (the watchdog opens its box
first). It is left open in each step, as the switch, the callsign and the minutes
of idleness belong to other parts; a click or a key resets the minutes, so the
user's own actions are never `idle`. A message that is taken into the queue and
refused when its time has come is `StopTxButton`, which may happen at any time.
The settings and the warning that a refusal opens are modal; what the user and
the API do while they are open is not distinguished from what they do after.

STATION.SET_HB_INTERVAL stores whatever number it is given
(`networkMessage.cpp:388`), and the button starts the loop for any that is not 0
(`mainwindow.cpp:4520`), also when the program is started again, since the
interval is kept in the settings. `ApiIntervals` is therefore any set of
integers. A loop with a negative period plans a start in the past: its `QTimer`
is started with a negative time, which does nothing in the Qt 6.9.3 that the
project is built with, and fires at once from Qt 6.10 on (`PastFires`); a change
of the speed throws in `onModeChange`, where nothing catches it, and the model
has no such step. Intervals of 25 days and more, which are too long for a
`QTimer`, are left out. (The list of requests at `networkMessage.cpp:173` says
that the interval is in seconds, the comment at 385 minutes; it is minutes.)

### TxSequencer

The GUI thread's handlers call each other (`on_stopTxButton_clicked` calls
`auto_tx_mode(false)`, which calls `on_stopTxButton_clicked`, which calls
`resetMessage`, which lets the button go up, whose handler calls
`on_stopTxButton_clicked` and `stopTx`), so its variables are one record and a
function is an operator on it. What a handler emits is queued to the rig
thread (`rigQ`) and to the audio thread (`modQ`) when it returns; the rig's
answers come back in `updates`.

| operator or action | code |
|---|---|
| `PrepareSending` with `Key`, `TimeToStop`, `StartTransmitting`, `StopWhenDone` | `prepareSending`, step by step |
| `GuiUpdate` | `guiUpdate`: `prepareSending`, once per second `transmitDisplay` and `processTxQueue`, the values of the last poll |
| `StartTx`, `ToggleTx`, `StopTx`, `StopTxButton`, `StopTx2` | `startTx`, `toggleTx`, `stopTx`, `on_stopTxButton_clicked`, `stopTx2` |
| `PrepareNextMessageFrame`, `AddMessageText`, `ResetMessage` | the composer and the frame queue |
| `Type`, `Erase`, `StartTxButton`, `SendMacro`, `OnStopTxButton`, `Escape`, `OnMonitorTxButton`, `SetRig` | the user and the API |
| `EnqueueMessage`, `ProcessTxQueue` | the outgoing messages |
| `TxWatchdog` | `tx_watchdog(true)` |
| `TransceiverSet`, `HandleTransceiverUpdate` | the rig thread, `Configuration::impl` and the main window's handler |
| `ModulatorSignal` | `Modulator::start`, `stop` |
| `Clock` | the phases of the period: TX delay, start, too late to begin, gap |

A frame is a number in the order of typing. A change of the text makes the
unsent frames anew, as `prepareNextMessageFrame` does; that text and frames
correspond one to one is the abstraction. `onAir` follows the frame that is
sent from its beginning: it is lost when the PTT goes off, the audio starts
anew or the tones are replaced.

The clock is slower than the threads: a phase ends after the GUI thread has
polled, after the rig and the audio have done what was queued (but not before
the start, so that a confirmation may be late by a phase), and the 200 ms of
the PTT timer do not span two phases after the start. That is the program's
own assumption: a period is 4 seconds at least, a poll 100 ms. `MayRestart =
FALSE` adds that no transmission begins before a stopped one is at rest, that
is, within the 200 ms of the timer and a poll; `MCTxSequencerRestart` shows
what happens otherwise. Tuning, `m_restart` (which needs a start while
transmitting; `KeyedIsTransmitting` shows the button to be down then) and the 30
seconds between messages of low priority are left out.

### Transceiver

A handler of the rig thread is a chain of operators on a record `Handling`: the
object, the radio, the signals it emits, the number of accesses to the radio
that succeed before one fails, and whether an exception is on its way. An
operator of the chain does nothing once one is. The signals of a handler leave
it one by one (`Emit`), because the GUI thread may disconnect from the object
between two of them. What the GUI thread does is an operator on the record
`gui`, composed like the calls are.

| operator or action | code |
|---|---|
| `Ptt`, `Frequency`, `TxFrequency`, `Read`, `Bandaid` | Hamlib's `do_ptt`, `do_frequency`, `do_tx_frequency`, `do_poll` with the `do_post_*` of `PollingTransceiver` |
| `Set` with `Apply`, `SetPtt`, `SetFrequency`, `SetTxFrequency` | `TransceiverBase::set` |
| `Emulated`, `Emitted` | `EmulateSplitTransceiver::set`, `handle_update` |
| `Startup`, `Shutdown`, `Offline`, `Finish`, `UpdateComplete` | `startup`, `shutdown`, `offline`, the end of `start` and `set`, `update_complete` |
| `Poll`, `Sync` | `PollingTransceiver::handle_timeout`, `do_sync` |
| `ServeStart`, `ServeSet`, `ServeStop`, `HandleTimeout`, `Emit` | the events of the rig thread |
| `OpenRig`, `CloseRig`, `Transceiver*`, `Follow`, `FollowUpdate` | `Configuration::impl` |
| `RigFailure` | `handle_transceiver_failure` of `Configuration::impl` |
| `SetRig`, `SetXit`, `FollowRig`, `TellFailure` | `setRig`, `setXIT`, `handle_transceiver_update`, `handle_transceiver_failure` of the main window |
| `Qsy`, `Key`, `StopTx`, `StopTx2`, `ReadFreq`, `RigOpen`, `AnswerBox` | what asks something of the rig |
| `TestCat`, `AcceptSettings` | in the settings: the test of the CAT connection, and OK |
| `TurnKnob` | the user at the radio |

Abstractions: of a sequence number it is kept whether it is the newest; the
mode is left out; of Hamlib the case of two VFOs that are addressed is modelled.
The other rigs' protocols are I/O behind the same interface. An access fails or
succeeds as a whole: `Read` is several calls of Hamlib, of which a later one may
fail after an earlier one was taken into the state; a failing poll closes the
rig in either case.

The settings dialog is modal but the program goes on behind it, so a failure may
come while it is visible, in any state; then only the dialog shows it
(`Configuration.cpp:4551`) and the main window is not told, neither stops the
transmission nor tries again. `FailureIsHandled` and `PttGoesOff` hold all the
same, since the rig is closed in both branches and the transmission ends by
itself. Not modelled of the dialog: its PTT test, the calibration (a change of
its spin boxes marks an open rig as closed, `Configuration.cpp:4328`) and the
closing of a rig that was opened by a test, on Cancel.

### RxAssembly

Time goes in steps of half a period (the clearing of the duplicates' cache and
one and a half periods of idle time are multiples), and what the code keeps as
the time of a thing is its age. Text is a sequence of parts `<<station, message,
part>>`, which say where they come from; what the program sees of them is their
`Words` (`Says`), and two messages may say the same. `Ellipsis` is the mark of a
missing frame.

The cache of duplicates compares the `Characters` of a frame: the callsign of a
compound frame, callsigns and command of a directed one, the words of a data
frame, neither sender nor offset (`mainwindow.h:845`, `processDecodeEvent.cpp:109`).
So of two equal data frames that stations far apart send within half a period
the second is dropped, and its message is incomplete. In the model such a frame
counts like one that was lost, and `received` has the messages of which every
frame was decoded and taken.

| operator or action | code |
|---|---|
| `ProcessDecodeEvent` with `IsDuplicate`, `Characters`, `ClearIfFirst`, `GeneralActivity`, `CompoundFrame`, `DirectedFrame`, `Follow` | `processDecodeEvent`, `hasExistingMessageBuffer` |
| `ProcessActivity` with `AddEllipses`, `Resolved`, `Closes`, `Drops`, `Valid`, `Taken` | `processActivity`: `processIdleActivity`, `processCompoundActivity`, `processBufferedActivity`, the front of `processCommandActivity` |
| `Begin`, `SendDecoded`, `SendLost`, `DecodeAgain` | the stations: `buildMessageFrames` and the decoder |
| `Tick` | the clock |

A station begins only when nobody near to it transmits, which is what operators
do and the program cannot enforce; stations far apart send at once.
`Varicode::isCommandBuffered`, which `Waits` does not ask, holds of every command
that a directed frame can be unpacked to. All stations use one speed; 60 and 90
seconds are 4 and 6, or 8 and 12, half periods (`minute`). The timer of
`processActivity` (a second) is taken once at least per half period.

### MessageStore

| operator or action | code |
|---|---|
| `WithRow`, `Stored`, `GroupStored`, `NextFor`, `Lookahead`, `Delivered` | `Inbox.cpp`: `append`, the lookups with their queries, `markMsgDelivered`, `markGroupMsgDeliveredForCallsign` |
| `MsgTo`, `QueryMsg`, `QueryMsgs`, `Heartbeat` | the commands in `processCommandActivity` |
| `Enqueue`, `Confirm`, `Reject` | `confirmThenEnqueueMessage`, the API's answer, the time-out |
| `ProcessTxQueue`, `Transmitted`, `Halt` | `processTxQueue` with the callback of the answer; `TxSequencer` in one step |
| `Type`, `Send`, `Clear`, `SwitchAutoreply`, `SwitchConfirmation`, `StoreMessage`, `DeleteMessage`, `TwoDaysPass` | the user, the API, 48 hours |

A row keeps its place when it is deleted, as AUTOINCREMENT does not give an id
twice. What makes the station drop an answer (an open buffer, a selected
callsign, lists of stations) is left open: `Reply` or nothing.

### AprsGateway

| operator or action | code |
|---|---|
| `PrepareSpotting`, `AcceptSettings`, `OnEnableAprsRelayToggled`, `SpotAprs` | `prepareSpotting`, the settings dialog, `spotAprsGrid`; their signals are queued in `calls` |
| `SetLocalStation`, `SetServer`, `SetPaused`, `SetIncomingRelayEnabled`, `Enqueue` | the client's slots |
| `ProcessQueue` with `Passed`, `SendReports`, `Reconnect` | `processQueue`, the timer of a minute, the single shot of 5 seconds |
| `OnSocketConnected`, `ConnectionFails`, `ConnectionEnds`, `OnSocketReadyRead` | the socket |
| `OnMessageReceived`, `Refuse` | `AprsInboundRelay` |

Qt's socket buffers what is written, so that a write to a connected socket does
not fail; which frames a pass puts aside is random (as in the code). Messages
without an identifier, of which each copy is relayed (`AprsInboundRelay.cpp:159`),
are left out, and ages are those of a clock that does not jump, while the
relay's cache reads the drifting one.

## Runs

| run (configuration) | question | bounds | result |
|---|---|---|---|
| `rx_steady` (`MCRxSteady`) | is every whole cycle of a fast speed decoded once in uninterrupted reception, for every choice of options? | 12 blocks to the minute, a Normal-like speed with cycles of 6 and an Ultra-like one with cycles of 4, two minutes, the GUI thread up to 2 blocks behind, a block missing at the turn of the minute | holds, 2.7 million states |
| `rx_repositioned` (`MCRxRepositioned`) | do ranges fit, does one owner have the decoder, and does a prompt run find its audio, when the ring is moved under it? | 8 blocks, cycles of a half and a quarter of the minute, one pause, drift change or change of options, two minutes, the GUI thread up to a block behind | holds, 2.7 million states |
| `rx_live` (`MCRxLive`) | does a run end, does the program? | a smaller instance with fairness | holds |
| `tx_loops` (`MCTxLoops`) | do the loops exclude each other, keep to slots and intervals? | slots of 4 and 2 ticks, intervals of 0 and 8, of the API also -8, two delays, drift 0 or ahead, any transmission refused or finding the user idle, three inputs of the user, the API and the watchdog, two boxes | holds, 2.3 million states |
| `tx_sequencer` (`MCTxSequencer`) | do keying, PTT, audio and the frames sent stay in step? | three frames, typed or in messages, one halt, one change of frequency or of the TX switch, PTT held or not, no watchdog, no restart before rest | holds, 1.2 million states |
| `tx_live` (`MCTxSequencerLive`) | does every transmission end, with the PTT off? | two frames, one halt or watchdog, restarts at any moment, fairness | holds |
| `rig` (`MCTransceiver`) | does the radio follow, and does it release the PTT whatever fails? | two dial frequencies, no split, the rig's and emulated split, one change of frequency, one trouble: a failing access at any place, a turned knob, a rig opened anew in the settings or settings accepted while it is open; the settings open or not at each failure | holds, 2.3 million states |
| `rig_live` (`MCTransceiverLive`) | does the PTT go off, is a failed rig closed? | one frequency, one trouble, the settings open or not, fairness | holds, 292,000 states |
| `rx_assembly` (`MCRxAssembly`) | is what is handed over what was sent, once, and is what arrived handed over? | two stations in one place, decoded at two neighbouring offsets, one with a compound callsign, and a third far away; two messages of up to two frames of text, which say the same, with or without checksum; one lost frame, any number of repeated ones; Slow and Normal | holds, 331,856 states |
| `store` (`MCMessageStore`) | does an offer stand, is a message offered again after it was sent? | a station with its base and a portable callsign, a relay, a group, two messages, one answer waiting | holds, 6.5 million states |
| `aprs` (`MCAprsGateway`) | does the relay reconnect, do frames leave, are messages relayed once in their window? | two changes of settings, one spot, one message with two copies, one dropped connection, limits of one minute, fairness | holds, 708,000 states |
| `aprs_listens` (`MCAprsGatewayListens`) | has a relay that is logged in asked for messages? | as `aprs` | violated |

Why these bounds are enough for the questions: ranges, cycles and the ring
interact modulo the length of the ring, and two speeds with cycles of different
length, one decoded growing and one whole, meet every case of
`decodeEnqueueReadyExperiment`; a cycle is at most half the ring, as JS8's longest
(Slow, 30 seconds) is, since a range of the whole ring would be overwritten
before its run starts; two minutes are one turn of the ring; a GUI
thread two blocks behind is behind the turn of the minute in both ways (with
and without audio written after it). In `TxLoops` an interval and a slot are
what a loop can be early or late by, and every defect found needs at most three
inputs. A refusal is no input: it may be the outcome of every message. In
`TxSequencer` three frames are a first, a middle and a last one, or a
message behind another; one halt can fall into every phase and between any two
steps of the three threads. In `Transceiver` one trouble falls on any access of
any handler and between any two events of the two threads; two polls until an
update is no longer withheld (3 in the code) tell a last one from others; a user
acts when nothing is queued (`MaxQueued = 0`), but the timers, updates and
failures cross what he asked for. In `RxAssembly` a second message follows the
first in its place, at the same offset, before the first one's buffer is
closed, after it, or after it was dropped. Two lost frames (an end and the next
header) at Normal speed do mix two messages of one offset, as nothing in the
data tells them apart: `MaxLost` is 1 for that reason. The third station sends at
any time, also between the halves of a period and at once with one of the
others, and all texts are equal (`OneWord`), so that every frame that the cache
of duplicates could mistake for another is mistaken for it. In `MessageStore` two
messages are one that is fetched and one that is offered with it. In
`AprsGateway` a limit of one minute has ages within, at and beyond it; one
dropped connection and two changes fall between any two steps of a connection's
life.

In `TxLoops` drifts are shorter than an interval. With a drift of exactly an
interval the next start may be due in the very millisecond in which the handler
plans it (`TxLoop.cpp:63` compares with `<`): the timer fires at once and a
transmission is triggered twice. `TriggerKeepsItsLoop` says that it does not,
and fails there.

Of `RxAssembly`, `AprsGateway` and `Transceiver` the type invariant is stated and
holds, but is not among the properties of the runs.

Deadlock is checked in the passing runs; `Closed` and `Done` are the steps of a
program that has ended and of a run that has reached its bounds.

### What the violations show

One run is expected to fail:

* `RelayListens` (`aprs_listens`): "When enabled, the client keeps an active
  connection so inbound APRS messages can be received and relayed"
  (`APRSISClient.cpp:313`, of `setIncomingRelayEnabled`). The login is written
  when a connection is made, with "filter t/m" only if the relay is on by then
  (`APRSISClient.cpp:511`). When the relay is switched off while the client
  connects, the connection is made without it, and with nothing to send
  `processQueue` returns before it disconnects; switched on again, the relay
  finds the client logged in and receives no messages until the connection
  breaks.

The following configurations are kept to be run by hand (`tlc -config
MCRxRingCleared.cfg MCRxPipeline` and so on); TLC finds each one violated.

| configuration | module | property |
|---|---|---|
| `MCRxRingCleared` | `MCRxPipeline` | `RingKeepsThePreviousMinute` |
| `MCRxStaleCycle` | `MCRxPipeline` | `LaterCyclesAreQueued` |
| `MCTxLoopsBehind` | `MCTxLoops` | `NextIsNear` with a clock that is behind |
| `MCTxLoopsSpeed` | `MCTxLoops` | `LoopsKnowTheSpeed` |
| `MCTxLoopsNegative` | `MCTxLoops` | `PeriodsHoldASlot` |
| `MCTxSequencerRestart` | `MCTxSequencer` | `KeyedIsOnAir` with a restart before rest |
| `MCTxSequencerPriority` | `MCTxSequencer` | `HighPriorityFirst` |
| `MCTransceiverPingPong` | `MCTransceiver` | `NewestAsksForNominal` |
| `MCRxAssemblyDrifting` | `MCRxAssembly` | `DriftingArrives` |
| `MCRxAssemblyDistant` | `MCRxAssembly` | `AllArrive` |
| `MCMessageStoreDelivered` | `MCMessageStore` | `DeliveredWasSent` |
| `MCMessageStoreGroup` | `MCMessageStore` | `GroupNotOfferedAgain` |

* `RingKeepsThePreviousMinute`: `commons.h` says of JS8_RING_BUFFER "use a ring
  buffer instead of clearing the decode frames", but `dataSink` still clears
  the rest of the ring when the position goes back at the turn of the minute. A
  sliding range of autosync that reaches back over it is decoded with silence.
* `LaterCyclesAreQueued`: the last whole cycle of Turbo and Ultra queued is
  remembered by its position in the ring, so that a cycle at the same position
  of a later minute, the first one seen after a transmission, a pause or a
  change of speed, is taken for it and not decoded.
* `NextIsNear`: `TxLoop::onTxLoopPeriodChangeStart` calls
  `now.currentMSecsSinceEpoch()`, which is static and reads the system's clock,
  although "this class knows no other time than what DriftingDateTime tells
  it". With the application's clock behind, the correction after a drift change
  adds the drift and a transmission is later than its period and a slot. (The
  comment at `DriftingDateTime.h:71` says that a positive drift means that the
  drifted clock is behind; the code adds it.)
* `LoopsKnowTheSpeed`: the speed menu and `MODE.SET_SPEED` do not emit
  `submodeChanged`.
* `PeriodsHoldASlot`: `onModeChange` throws "Submode period does not fit tx
  schedule period" when a slot of the speed is longer than the period of the
  loop. With an interval of -1 that STATION.SET_HB_INTERVAL has stored, the
  heartbeat's button starts such a loop, which is shown as active and never
  transmits.
* `AllArrive`: two stations at different offsets that send an equal frame of text
  in the same half period have one of the two frames dropped as a duplicate,
  though nothing was lost on the air.
* `KeyedIsOnAir` in `MCTxSequencerRestart`: nothing stops `pttReleaseTimer` when
  a transmission is keyed. When one is stopped and another begins within 200
  ms, `stopTx2` switches off the PTT of the new one, and its command outdates
  the update of the rig that would have started the audio. The frame counts as
  sent.
* `HighPriorityFirst`: `operator<` of `PrioritizedMessage` returns
  `a.date < b.date` also when a's priority is greater. Of two messages it holds
  for the older and the newer, whatever their priorities; the newest is on top
  of the `std::priority_queue`, and the oldest goes out last.

* `NewestAsksForNominal`: the numbers are there to avoid an "unwanted
  'ping-pong'" of crossing signals (`Transceiver.h:129`), but
  `handle_transceiver_update` of Configuration copies every update into
  `cached_rig_state_` before it compares the numbers (`Configuration.cpp:4502`),
  and the next command that sets only the TX frequency or the PTT is made of the
  cache. It may ask for a dial frequency the user has left. `SettledAgrees`
  holds nevertheless: rig, cache and display agree again when all is at rest.
* `DriftingArrives`: `processIdleActivity` makes a buffer at the offset of an
  idle activity if there is one near to it. A frame that is late by a drift then
  finds the ellipsis of its own message in a second buffer and the message is
  handed over in pieces or not at all, although every frame was decoded.
* `DeliveredWasSent`: the mark is to be made "in a callback after successful
  transmission", but `processTxQueue` runs the callback when the text reaches
  the composer. With autoreply off and the text removed, or with a transmission
  that is halted, the message is `DELIVERED` and never offered again.
* `GroupNotOfferedAgain`: a relayed `QUERY MSGS` looks up the messages of a
  group for the callsign it was heard from, which is that of the relay, and the
  lookahead of `QUERY MSG` falls back to the receipts of the base callsign; a
  station is offered a message of the group that it has.

Two more that have no run: clearing the selection restores a paused heartbeat
without asking `canCurrentModeSendHeartbeat` (`Deselect` in `TxLoops`); and with
`MayIdle = TRUE` the property `LockedIsBeingSent` is violated in three steps: the
idle watchdog calls `stopTx` although nothing is sent, and the first frame of a
draft in the composer is taken, locked and shown as sent. The run
`MCTxSequencer` therefore leaves the watchdog to `MCTxSequencerLive`.

## Fairness

`rx_live`, `tx_live`, `rig_live`, `rx_assembly` and `aprs` use a `FairSpec`.

In `RxPipeline` the decoder thread is scheduled by the system
and a run is a fixed number of passes over a fixed number of samples: weak
fairness of `Worker`. The GUI thread finishes each handler: weak fairness of
`FramesWritten` and of `QuitDone`. Events of the GUI thread are taken in the
order they were queued, so that `DecodeFinished` is taken although
`framesWritten` signals keep coming; in the model these disable it while one is
handled, hence strong fairness of `DecodeFinished`. Nothing is assumed of the
audio device, of the user or of the holds.

In `TxSequencer` the poll timer is started again at the end of every poll, so
that polls that see a new second happen again and again; the rig and audio
threads take what is queued to them, the PTT timer fires and time passes: weak
fairness of each. Nothing is assumed of the user.

In `Transceiver` the GUI and the rig thread serve what is queued to them, the
posted `rigOpen` and the PTT timer fire, and a transmission is stopped
(`tx_live` shows that `TxSequencer` does so). Nothing is assumed of polls: that
a failure is handled does not depend on them. In `RxAssembly` the timer of the
main window fires in every half period (which makes `processed` true), time
passes, and every station goes on sending: some frame of each is decoded again
and again. In
`AprsGateway` the threads serve what is queued, the timer of a minute fires and
a socket that is closing ends; a connection that is tried again and again is
made in the end (strong fairness of `OnSocketConnected`): that is what the
network has to give. The single shots of `Reconnect` need no fairness, since the
minute timer does the same.

## Proofs

`RxPipeline_proofs` proves for all values of the constants that satisfy the
assumptions named in `RxPipeline` (a ring of at least two blocks that every
cycle divides, a signal not longer than its cycle, bounds that are natural
numbers):

* `TypeCorrect`: `Spec => []TypeOK`. One lemma per thread; the arithmetic that
  keeps positions in the ring is in `CycleOfPosition` (a cycle's start is in
  the ring and its frames ready are at most a cycle) and `CycleFitsRing`.
* `RangesCorrect`: `Spec => []RangesFit`. Inductive with `TypeOK`;
  `QueuedRange` shows it of the range that is queued, and every other step
  copies ranges or forgets them.
* `TokenCorrect`: `Spec => []DecoderToken`. `DecoderToken` says that permits,
  runs in progress and DecodeFinished events add up to one if the decoder is
  busy and to none otherwise, while the program runs. It is inductive with
  `TypeOK`: each step moves the token or leaves it. After `Quit` there is an
  extra permit, and the statement is about `~m_quit` only; `QuitIsFinalStep`
  shows that `m_quit` stays.
* `PipelineImplementsService`: `Spec => Service!ServiceSpec`, with the mapping of
  the token to the phase of the service. It needs `DecoderToken`: without it a
  request might find the worker decoding.
* `PromptRangeCorrect`: `Spec => []PromptRangeIsIntact`, if the lag of the GUI
  thread and the blocks missing at the end of a minute leave room for the
  longest cycle in the ring (`KeepsUp`: half a minute and the lag are less than
  a minute).
* `QueuedOnceCorrect`: `Spec => NoCycleIsQueuedTwice`, if a signal of Turbo and
  Ultra takes time (`SignalsTakeTime`), however the ring is repositioned.
* `CyclesQueuedCorrect`: `Spec => WholeCyclesAreQueued`, if nothing changes and
  a second cycle of Turbo and Ultra is whole before the minute ends
  (`Steady`: they have ten and fifteen cycles in it). With changes the property
  fails, as `MCRxStaleCycle` shows.

The invariant of the first of these three, `RingInv`, is an account of the ring. `Signals`
says where the writer is for each signal that is queued or being handled: at
most as many blocks ahead as signals were queued since, or past one turn of the
minute, having passed its end. `Contents` says, for the minute being recorded
and for each of those signals, that what was recorded of its minute before its
position is there, or was cleared too soon, or has been overwritten by the next
minute up to where the writer is. `RangesPrecede` says that a range ends at its
signal's position or before, and begins at most a cycle before it. The writer
that has turned is then still short of the beginning of the range, by
`KeepsUp`, and `Snapshot` keeps what the worker was given. An attempt to prove it
for any cycle failed for a reason: an instance with a cycle as long as the ring
has its first block overwritten before the run starts. It also showed that
`overrun` has to accumulate over two clearings.

`OrderInv` says that signals are handled in the order in which they were
emitted, and that the last whole cycle queued is not after the cycle of the
signal at hand (`Remembered`), so that another cycle than that one is a later
one. `SteadyInv` adds that no block is missing between two signals (`NoGap`),
so that the GUI thread sees the block at which the first and the second cycle
become whole, and how long the memory of the last minute may stay
(`CyclesSeen`): the memory is a position without its minute, and is confused
with the first cycle of the next minute unless a later cycle was queued in
between.

`TxSequencer_proofs` proves for every number of frames and all values of the
bounds and of `MayRestart` and `MayIdle`, so also for the instances in which a
transmission begins before another has come to rest:

* `TypeCorrect`: `Spec => []TypeOK`.
* `KeyedCorrect`: `Spec => []KeyedIsTransmitting`.
* `PttCorrect`: `Spec => []PttIsAccountedFor`.

They follow from one inductive invariant, `IInv`. `KeyedIsTransmitting` is not
inductive: `prepareSending` ends a frame when it sees an edge of `m_btxok`
between two polls and starts one when it sees an edge of `m_iptt`, so the
invariant has to say that `m_btxok` is `m_iptt`, and the value of the last poll
of one that of the other; if a frame is keyed again before a poll saw the last
one stop, no edge of `m_iptt` is seen and it is that of `m_btxok` that stops the
frame at once. `PttIsAccountedFor` needs that frames are counted only while the
button is down. The proof goes through the functions of the code in the order
in which they call each other (`EndTransmitEnds`, `StopTxButtonStops`,
`StopTxStops`, `PrepareSendingIsGood`, `StartTxIsGood`, `ToggleTxIsGood`,
`ProcessTxQueueIsGood`), then through the handlers. The watchdog is the one
caller of `stopTx` that may find text in the composer with the button up, and
has a lemma of its own (`StopTxWithoutButton`).

From `IInv` follows more of the message and the time, again for every number of
frames and every bound:

* `SendsCorrect`: `Spec => SendsWhatIsTyped`.
* `LockedCorrect`: `Spec => []LockedIsBeingSent`, if `MayIdle = FALSE`.
* `AudioCorrect`: `Spec => []AudioOnlyWithPtt`,
  `OnAirCorrect`: `Spec => []KeyedIsOnAir`,
  `NoSkipCorrect`: `Spec => NoFrameIsSkipped`, if `MayRestart = FALSE`.

The two conditions are needed: with `MayIdle = TRUE`, and with `MayRestart =
TRUE`, TLC finds the violations described above. The first two theorems follow
from `CInv`, which adds to `IInv` what the composer shows (`Composes`): a locked
text has the button down, and text is taken only for a frame that is to be
sent. The other three follow from `CInv /\ Timed`. `Timed` says what may be under way
between the three threads, and in which phase of the clock: the last command
on its way to the rig, or what the rig has, is what the program wants, and the
newest update reports it (`CommandsFollow`); the PTT timer does not run while a
frame is keyed (`KeyedTimer`), and nothing of the last transmission is under way
when a frame is about to be (`Ready`); what the polls saw (`Polls`); that audio
that waits for the PTT has its confirmation coming (`Awaits`); what the
modulator was told and plays (`Sounds`, `Rests`), and that while there is audio,
or will be, no command on its way releases the PTT (`Voiced`). A start queued
for the modulator outlives the handler that sent it, so `AudioOnlyWithPtt` is
not inductive without the queues. `NoFrameIsSkipped` is a consequence: the poll
that ends a frame comes in the gap of a period in which the frame was on the air
from its beginning.

`TxLoops_proofs` proves for every set of speeds, intervals, delays and drifts,
every integer that the API may store as an interval, every outcome of every
message, and every bound:

* `TypeCorrect`: `Spec => []TypeOK`.
* `OneLoopCorrect`: `Spec => []OneLoop`.
* `StartsCorrect`: `Spec => []StartsWithSlot`.

They follow from one inductive invariant: the types, that each loop that is
active has its button down, its timer set, if it has a positive period, and its
start in a slot (`Running`), and that not both are active. What is hard is not between the steps but inside
them: a handler is a chain of calls in which the two loops switch each other's
buttons, and in the middle of it both may be on. The lemmas therefore speak of
the record that a chain works on, and name its states: `Both` (a loop has
started and its signal has not reached the other, so that two may be on),
`Pressed` (one at most is on, but the CQ button may be ahead of its loop), `Good`
(at rest). `CancelStops`, `UncheckStops` and `StartIsGood` lead from one to the
next, `CheckHbIsGood`, `CheckCqIsGood` and `DeselectIsGood` (clearing the
selection, which restores a paused heartbeat) are the chains; each action is one
of them. `StopStops` and `TransmitStops` are about a refusal in the middle of a
chain, which may stop both loops before the chain goes on to uncheck a button.

To these it adds the times:

* `NextIsNearCorrect`: `Spec => []NextIsNear` (of loops with a positive period), if
  no drift puts the clock a slot or more behind (`DriftsAreNear`). `MCTxLoopsBehind` shows the property to fail
  for a clock that is further behind.
* `TriggerCorrect`: `Spec => TriggerKeepsItsLoop`, if no drift is a whole interval,
  up to the lateness of a timer (`NoDriftIsAnInterval`); see above for what
  happens with a drift that is one. The loop goes on if its message is let go;
  if it is refused in the handler, neither loop is on when the handler returns,
  although the loop had planned its next start before.
* `SpacedCorrect`: `Spec => TransmissionsAreSpaced` (the later transmission is of a
  loop with a positive period), if the drifts are bounded
  (`DriftsAreBounded`), as they are in the code, where a drift is a 64-bit
  number of milliseconds.

The invariant (`TInv`) adds to `IInv` that each active loop is due (`Due`): its
timer is set by the system's clock or by the drifted one and has not been missed
by more than `MaxLate` (`Fires`), its start is near (`Near`) and an interval after
the last transmission, whatever the drift becomes (`Apart`); and that while a
heartbeat is paused a callsign is selected and no CQ loop runs (`Rested`), which
is what keeps the loop that triggers from being stopped by the chain it starts.
TLC checked it first, on `MCTxLoops` with the clock ahead and
with the clock behind. The least interval and the extent of the drifts are
`CHOOSE`n elements of sets of integers; that there is one is proved by
well-foundedness of the order on a set of naturals (`LessIsWellFounded`,
`LeastOne`, `GreatestOne`), which replaces induction over a predicate.

`MessageStore_proofs` proves for every set of callsigns and groups, every
assignment of base callsigns and every bound:

* `TypeCorrect`: `Spec => []TypeOK`.
* `OffersCorrect`: `Spec => []OfferStands`.
* `NotOfferedAgainCorrect`: `Spec => NotOfferedAgain`.

The invariant adds to the types that answers speak of rows that exist
(`AnswersKnown`), that the message of an answer in the composer is marked
(`ComposerMarked`), that one whose text was transmitted is no longer stored
unless it is a group's (`SentGone`), and that an offer was for its receiver, his
base callsign or a group (`OffersFor`). The offers need it because an offer is
made long before it is put to use: rows are only added or marked, never given to
another receiver.

`Transceiver_proofs` proves for every set of frequencies, every choice of split
modes and every bound, so for any number of failures, of commands on their way
and of rigs opened anew:

* `TypeCorrect`: `Spec => []TypeOK`.
* `OfflineCorrect`: `Spec => []OfflineIsReceiving`.
* `PttSwitchCorrect`: `Spec => ImplementsPttSwitch`.

The last two assume that a radio can be released (`ReleaseFails = FALSE`):
`shutdown` swallows the exception of a release that fails, and then neither
holds. The invariant says of the object at rest (`RigIsAtRest`) that it knows the
radio's PTT, has asked for it unless it has failed, and neither transmits nor
polls when it is offline. That alone is not inductive: `start` begins with a
fresh object that believes the PTT to be off, so the invariant must also say
that a start finds the object offline, which is a fact about the queue
(`CommandsInOrder`: a start is the first command after a stop, and the GUI
thread that has closed the rig has sent one). The lemmas go through the chains
of a handler: an access succeeds or throws (`AccessIs`), the parts of `set` keep
the PTT or set it (`PttSets`, `ApplySets`), each way out of a handler releases
it (`ShutdownReleases`, `FinishReleases`); `SetIsAtRest`, `StartIsAtRest` and
`PollIsAtRest` say so of whole handlers; those of the GUI thread keep the
commands in order (`SendOrders` to `RigFailureOrders`). `StepAllowed` joins them
and shows at once that a step is one of the switch or leaves it alone.

`RigReports_proofs` goes on from `IInv` and proves, under the same assumption,
`SettledCorrect`: `Spec => []SettledAgrees`. The property speaks of states in
which nothing is on its way; the invariant `Told` must speak of all others, and
say of what is on its way that it will do:

* `NewestIsAnswered`: a connected rig has answered the newest number, or the last
  command on its way has it, is no stop and carries the PTT of the cache; and no
  object is set after its stop (`Resumed`), so that the last word to a rig that
  is connected is never met by an object nobody listens to.
* `UpdateIsTold`: when no command is on its way, what the object has last said of
  itself (`Said`) is the last of the signals it has still to emit, else the last
  on its way to the GUI thread, else what is on display and in the cache.
  Updates that are outdated or withheld need no mention: they are not the last.
* `Sound`: an object that has not failed and awaits nothing has what it expects,
  has signalled it and has said so; in emulated split it has never asked for a
  split, otherwise it agrees with the radio about it. One that is offline asks
  and expects nothing, which is what a `set` that opens it relies on.
* `FailureIsTold`: of a failed rig that is connected a failure is among the
  signals on their way. A failing handler emits an update that says offline
  before it, upon which the GUI thread disconnects: the failure is lost, but
  then nobody is connected.
* `KeyingIsKnown`: a radio that transmits was asked to, by a command made of the
  cache, and the cache is keyed only while the window transmits or releases.

TLC checked each part first, with `ReleaseFails = FALSE`. To state `Sound` the
type of the radio had to say that its second VFO is tuned to something (`Radio`):
a frequency of 0 would be taken for no split. The proof showed that neither a
last poll nor a radio that nobody has touched since is needed, as the property
first had it; it now holds of every state in which the object awaits no change.

The same module proves `KeyedCorrect`: `Spec => KeyedOnTxFrequency`. The property
speaks of the step that keys the radio; the frequencies of the command that does
were put together long before, by `setRig` and `setXIT`, and may have crossed
updates that shift the dial by the XIT, a failure, a reopened rig and outdated
numbers. The bound on all frequencies under way that seemed to be needed is not:
`Prepared` says of the queue that the first command of each run of keying
commands suits the TX frequency of its own dial frequency (`Suits`; later ones
find the radio keyed), that a rig which is keyed according to the cache is keyed
at the end of its queue (`EndsKeyed`), and that without split no transmit
frequency is cached. The lemmas give both for appending to the queue, joining
queues and outdating their numbers (`AppendSuits`, `ConcatSuits`,
`OutdatedSuits`), and then for each handler of the GUI thread that sends
(`SetRigPrepares`, `KeyPrepares` and the others). The assumption on the
constants was weakened on the way: a frequency has to be above the XIT, nothing
else.

`AprsGateway_proofs` proves `RelaysCorrect`: `Spec => RelaysAreApart`, for every
number of messages, copies, connections and every window. `CacheKnows` says that
the age of an entry in the relay's cache of duplicates is the age of the last
transmission of that message, in every state.

`RxAssembly_proofs` proves for every set of stations and offsets, compound
callsigns, threshold, number of messages and length of text, and whatever the
messages say:

* `TypeCorrect`: `Spec => []TypeOK`, and that there are finitely many buffers.
* `CheckedCorrect`: `Spec => []CheckedIsWhole` (a command with a checksum says all
  that was sent; a checksum cannot tell texts apart that say the same), and
  `OnceCorrect`: `Spec => []HandledOnce`, for any number of lost frames and
  wherever the stations are.
* `SteadyCorrect`: `Spec => [](SteadyArrives /\ DriftingArrives)`, for any number
  of lost frames, if the stations keep to places (`Places`). It speaks of the
  messages of which every frame was decoded and taken; one of which the cache
  dropped a frame, as a duplicate of another station's, is not among them
  (`AllArrive`, which asks for it, is violated).
* `SentCorrect`: `Spec /\ [][NoneDropped]_vars => []HandledWasSent`, if they keep to
  places, at most one frame is lost (`MaxLost =< 1`), and none is dropped: a
  dropped frame does what a lost one does.
* `KeptCorrect`: `Spec /\ [][FirstKept]_vars => []HandledWasSent`, if they keep to
  places, for any number of lost or dropped frames none of which is the first of
  its message. (The first frame of a message carries its sender's callsign and is
  never dropped.)

`Places` says that stations of which some offsets are within twice the threshold
of each other have all of them within the threshold: a buffer of a place is
found from every offset of it and from none of another. It is so in the run
(`Together`), and not in `Wandering`, where a station drifts into another's
place and `DriftingArrives` is violated. The bound of one lost frame is sharp:
with two (and `Minutes = {4, 8}`) TLC finds a message whose last frame is lost,
a next one in the same place whose first frame, its header, is lost, and its
text appended to the buffer that the first one left, since only a first frame
clears it.

The proof of the checksums is about what a buffer can have (`Ending`: a header
that says it is the last has no text, a callsign never is the last frame), so
that a command without text is one of a message without text. `Once` says that
a message has one buffer at most and is in one place: still being sent, in a
buffer, in the queue of commands, or handled; moving a buffer to a near offset
keeps that, wherever it moves.

For the rest the invariant follows a message. `Spread`: a place has one buffer
and one station that sends, and a frame that was decoded is not sent again; so
decoding at an offset concerns the buffer of that place only (`DecodeView`,
stated with `Moved`: everything elsewhere is as it was), and the ellipses go into
their own buffers (`FilledView`). `Steady`: of a sender whose frames were all
decoded and taken the buffer has exactly what he has sent and is not idle (`Tracks`,
`Tracked`), and a message decoded whole is handled, a command, or in a buffer
that the next `ProcessActivity` closes (`Arrives`, `Pending`); ages are bounded
by the wait for the next frame, which is what keeps the time-outs away. This
must hold between any two calls of the timer. `Unmixed`: each buffer has one
sender's header, callsigns and excerpt of text, and in a place where a station
sends it is that station's and reaches no further than what he sent. It is
inductive but for one step, a lost first frame that finds a buffer (`FirstClears`).
`Unlost` excludes it as long as nothing was lost: where nobody sends, a buffer
left is `Pending`, and who begins, begins after it was handed over, because he
waits for the last sender's period to end. TLC checked each part first, on the
run's instance, on one with three stations, and those that do not depend on it
with two lost frames. Where the code takes the lowest of several near offsets,
that there is a least one is proved by well-foundedness; `SetAsSeq` and
`TakenIs` speak for every order in which commands may be taken up.

For these proofs two definitions of the model were written without recursion:
`Frames`, now with the place of the header (`HeaderAt`), and the chain of idle
offsets that reach each other (`Reached`).

Only model-checked: liveness (`DecoderBecomesFree`,
`QuitCompletes`, `PttGoesOff`, `MessageEnds`, `MessagesGoOut`,
`FailureIsHandled`, `BuffersClose`, `RelayReconnects`, `FramesLeave`), which is
out of the prover's reach.

## Not modelled, and why

* Codecs (`Varicode`, `JSC`) are pure functions over text and a generated
  dictionary, whose two tables alone are nine tenths of the repository's lines;
  the signal processing of the decoder is numerical.
* Drawing, the logbook, audio files, settings and notifications are sequential
  I/O without state that several actors share.
* The rigs' own protocols (Hamlib, HRD, Commander) are external I/O behind the
  interface that `Transceiver` models; OmniRig is deprecated.
* The connections of the API, of PSK Reporter and of the spot client are Qt's
  sockets with a list or a queue; the requests that change state are actions of
  the modules they change.
* The heartbeat limit (`HBBlockingDB`) is one lookup and one insert per
  heartbeat, with nothing concurrent.
* Of the components that are modelled in part: tuning (`m_tune`, `m_tuneup`),
  `m_restart` (which needs a start while transmitting; `KeyedIsTransmitting`
  shows the button to be down then), the mode of the rig and its calibration,
  relaying of texts and alerts, the station's own inbox, and the answers about
  the station itself, which change nothing but the queue.

## Plan

Done: `RxPipeline`, `DecodeService`, `TxLoops`, `TxSequencer`, `Transceiver`,
`PttSwitch`, `RxAssembly`, `MessageStore`, `AprsGateway`, and the proofs above.
What is left, in this order:

1. Tuning in `TxSequencer`; the heartbeat limit in `MessageStore`.
2. `ApiServer`: accepting, reading, closing and pruning of connections.
