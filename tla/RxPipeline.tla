----------------------------- MODULE RxPipeline -----------------------------
(***************************************************************************)
(* The receive pipeline of JS8Call: the audio thread fills the one-minute  *)
(* ring dec_data.d2 (Detector), the GUI thread is told of every block by a *)
(* queued signal, keeps the spectrum going, queues ranges of the ring and  *)
(* starts the decoder (dataSink, decode and its helpers), and the decoder  *)
(* thread works on its private copy (JS8::Worker).                         *)
(*                                                                         *)
(* Units: one unit is one block of the detector, m_samplesPerFFT samples;  *)
(* all positions and lengths are multiples of it.  The content of a slot   *)
(* of the ring is abstracted to the minute in which it was recorded, 0 for *)
(* cleared.  Of m_decoderQueue only the last range of each submode is      *)
(* kept: the queue is always drained as a whole and a later range of a     *)
(* submode overwrites an earlier one (decodeProcessQueue).  The two        *)
(* wall-clock holds on the decoder (1 s after a start, 2 or 4 s after the  *)
(* end of a transmission) are one flag that may end at any time.           *)
(***************************************************************************)
EXTENDS Integers, Sequences

CONSTANTS
    Size,           \* blocks in the ring: JS8_RX_SAMPLE_SIZE
    OneSecond,      \* blocks in a second: JS8_RX_SAMPLE_RATE
    Submodes,       \* the submodes modelled
    CycleFrames,    \* samplesPerPeriod of each submode
    CycleNeeded,    \* cycleFramesNeeded of each submode
    TurboOrUltra,   \* the submodes decoded once per cycle
    AutoSyncable,   \* the submodes that autosync decodes every second
    StartKin,       \* where in the minute the program may be started
    StartOptions,   \* the user's options it may be started with
    Positions,      \* where the clock may put the ring when it is repositioned
    MaxLag,         \* bound: blocks the GUI thread may be behind
    MaxMinute,      \* bound: minutes of audio
    WrapSlack,      \* bound: blocks missing at the end of a minute
    MaxChanges,     \* bound: pauses of the monitor (by button or transmission),
                    \* changes of the drift and of the user's options
    MayDrift        \* the drift may be changed

ASSUME SizeAssumption == Size \in Nat /\ Size > 1
ASSUME SubmodeAssumption ==
    /\ TurboOrUltra \subseteq Submodes
    /\ AutoSyncable \subseteq Submodes \ TurboOrUltra
    /\ CycleFrames \in [Submodes -> Nat]
    /\ CycleNeeded \in [Submodes -> Nat]
    /\ \A s \in Submodes : CycleFrames[s] > 0 /\ CycleNeeded[s] =< CycleFrames[s]
ASSUME CycleAssumption ==
    \A s \in Submodes : \E n \in 1 .. Size : Size = n * CycleFrames[s]
ASSUME BoundAssumption ==
    /\ OneSecond \in Nat /\ OneSecond > 0
    /\ StartKin \subseteq 0 .. Size - 1
    /\ StartKin # {}
    /\ StartOptions \subseteq [nSubMode : Submodes, multi : BOOLEAN, autoSync : BOOLEAN]
    /\ Positions \subseteq 0 .. Size - 1
    /\ {MaxLag, MaxMinute, WrapSlack, MaxChanges} \subseteq Nat
    /\ MaxMinute > 0
    /\ MayDrift \in BOOLEAN

VARIABLES
    \* the shared ring and its writer, the audio thread
    d2,             \* dec_data.d2: the minute each slot was recorded in
    kin,            \* dec_data.params.kin: the next slot to write
    streaming,      \* the audio input stream is running, not suspended
    audioCmds,      \* queued signals to SoundInput: "suspend", "resume"
    late,           \* a block was completed with such a signal pending
    framesQ,        \* queued framesWritten signals to the GUI thread
    \* the GUI thread
    guiPc,          \* where its handler of framesWritten is
    event,          \* the framesWritten signal being handled
    sinkK0,         \* k0 of dataSink
    decodeK0,       \* k0 of decode
    m_monitoring,
    m_transmitting,
    m_nSubMode,
    multi,          \* the multi decoder is selected
    autoSync,       \* autosync is enabled in the wide graph
    hold,           \* decoder start or end of transmission is too recent
    m_decoderQueue,
    m_lastDecodeStartMap,
    m_lastDecodeCycleMap,
    params,         \* dec_data.params: the ranges and nsubmodes
    m_decoderBusy,
    \* the decoder thread
    m_worker,       \* where JS8::Worker::run is
    m_semaphore,    \* permits of the semaphore the worker waits on
    m_quit,
    m_data,         \* the worker's copy of dec_data
    finished,       \* DecodeFinished events queued to the GUI thread
    \* history of the run, read by the properties only
    minute,         \* minutes begun
    floor,          \* where the ring was last repositioned
    epoch,          \* how often it was
    prevKin,        \* where the previous minute's recording ended
    overrun,        \* slots cleared that were recorded after the signal, and
                    \* not again since
    lastFull,       \* the last whole cycle queued, by submode
    changes         \* changes made, for the bound

audioVars  == <<d2, kin, streaming, audioCmds, late, framesQ>>
optionVars == <<m_monitoring, m_transmitting, m_nSubMode, multi, autoSync>>
queueVars  == <<m_decoderQueue, m_lastDecodeStartMap, m_lastDecodeCycleMap>>
sinkVars   == <<guiPc, event, sinkK0, decodeK0>>
jobVars    == <<params, m_decoderBusy>>
workerVars == <<m_worker, m_semaphore, m_quit, m_data, finished>>
ringHistory == <<minute, floor, epoch, prevKin, overrun>>

vars == <<audioVars, optionVars, queueVars, sinkVars, hold, jobVars,
          workerVars, ringHistory, lastFull, changes>>

-----------------------------------------------------------------------------
Slot    == 0 .. Size - 1
Cleared == 0
Unset   == -1

(* A framesWritten signal: the position k, and when it was emitted.        *)
Event == [k : Slot, minute : Nat, epoch : Nat]

(* A range to decode (DecodeParams), with the signal that queued it.       *)
Range == [start : Slot, sz : Nat, cause : Event]

NoEvent == [k |-> 0, minute |-> 0, epoch |-> 0]
NoRange == [start |-> 0, sz |-> 0, cause |-> NoEvent]

IsQueued(s) == m_decoderQueue[s] # NoRange

(* Slots of a range, which may wrap around the end of the ring.            *)
Wraps(r)   == r.start + r.sz > Size
InRange(r) == {i \in Slot : IF i >= r.start THEN i < r.start + r.sz
                                            ELSE i + Size < r.start + r.sz}

(* JS8::Submode::computeAltCycleForDecode, whose offset is always 0 here.  *)
CycleForDecode(s, k) ==
    (k \div CycleFrames[s]) % (Size \div CycleFrames[s])

CycleStart(s, k) == CycleForDecode(s, k) * CycleFrames[s]

CycleFramesReady(s, k) ==
    IF k >= CycleStart(s, k) THEN k - CycleStart(s, k)
                             ELSE k + (Size - CycleStart(s, k))

(* Is the submode decoded at all, and every second?                        *)
EverySecond(s) == autoSync /\ s \in AutoSyncable
Considered(s)  == EverySecond(s) \/ multi \/ s = m_nSubMode

LastDecodeStart(s, k) ==
    IF m_lastDecodeStartMap[s] = Unset THEN CycleStart(s, k)
                                       ELSE m_lastDecodeStartMap[s]

IncrementedBy(s, k) ==
    LET last == LastDecodeStart(s, k)
    IN  IF k < last THEN Size - last + k ELSE k - last

(* The three cases in which decodeEnqueueReadyExperiment queues a range.   *)
QueuesSlidingRange(s, k) ==
    EverySecond(s) /\ IncrementedBy(s, k) >= OneSecond

ReachesWholeCycle(s, k) ==
    /\ ~QueuesSlidingRange(s, k)
    /\ s \in TurboOrUltra
    /\ CycleFramesReady(s, k) >= CycleNeeded[s]

(* Mutants: the test of the last cycle queued as an order, or forgotten.   *)
QueuesOnlyLaterCycle(s, k) ==
    ReachesWholeCycle(s, k) /\ m_lastDecodeCycleMap[s] < CycleStart(s, k)

QueuesCycleAgain(s, k) == ReachesWholeCycle(s, k)

QueuesWholeCycle(s, k) ==
    ReachesWholeCycle(s, k) /\ m_lastDecodeCycleMap[s] # CycleStart(s, k)

QueuesGrowingRange(s, k) ==
    LET ready == CycleFramesReady(s, k)
        incr  == IncrementedBy(s, k)
    IN  /\ ~QueuesSlidingRange(s, k)
        /\ ~ReachesWholeCycle(s, k)
        /\ \/ 2 * incr >= 3 * OneSecond /\ ready >= CycleNeeded[s]
           \/ incr >= OneSecond /\ 2 * ready >= 2 * CycleNeeded[s] - 3 * OneSecond
           \/ incr >= OneSecond /\ 2 * ready < 3 * OneSecond

Queues(s, k) ==
    /\ Considered(s)
    /\ \/ QueuesSlidingRange(s, k)
       \/ QueuesWholeCycle(s, k)
       \/ QueuesGrowingRange(s, k)

(* Mutants: the wrap of the sliding range forgotten; one block too many.   *)
RangeToQueueUnwrapped(s, e) ==
    LET k == e.k
    IN  IF QueuesSlidingRange(s, k)
        THEN [start |-> k - CycleFrames[s], sz |-> CycleFrames[s], cause |-> e]
        ELSE [start |-> CycleStart(s, k),
              sz |-> IF QueuesWholeCycle(s, k) THEN CycleNeeded[s]
                                               ELSE CycleFramesReady(s, k),
              cause |-> e]

RangeToQueueOneMore(s, e) ==
    [start |-> CycleStart(s, e.k), sz |-> CycleFramesReady(s, e.k) + 1, cause |-> e]

RangeToQueue(s, e) ==
    LET k    == e.k
        back == k - CycleFrames[s]
    IN  IF QueuesSlidingRange(s, k)
        THEN [start |-> IF back < 0 THEN back + Size ELSE back,
              sz |-> CycleFrames[s], cause |-> e]
        ELSE [start |-> CycleStart(s, k),
              sz |-> IF QueuesWholeCycle(s, k) THEN CycleNeeded[s]
                                               ELSE CycleFramesReady(s, k),
              cause |-> e]

-----------------------------------------------------------------------------
Params == [ranges : [Submodes -> Range], nsubmodes : SUBSET Submodes]

(* The worker's copy; cause and lost are history.                          *)
Job == [d2 : [Slot -> Nat], ranges : [Submodes -> Range],
        nsubmodes : SUBSET Submodes, cause : Event, lost : SUBSET Slot]

Init ==
    /\ d2 = [i \in Slot |-> Cleared]
    /\ kin \in StartKin
    /\ streaming = TRUE
    /\ audioCmds = << >>
    /\ late = FALSE
    /\ framesQ = << >>
    /\ guiPc = "idle"
    /\ event = NoEvent
    /\ sinkK0 = Unset
    /\ decodeK0 = Unset
    /\ m_monitoring = TRUE
    /\ m_transmitting = FALSE
    /\ \E o \in StartOptions : /\ m_nSubMode = o.nSubMode
                              /\ multi = o.multi
                              /\ autoSync = o.autoSync
    /\ hold = FALSE
    /\ m_decoderQueue = [s \in Submodes |-> NoRange]
    /\ m_lastDecodeStartMap = [s \in Submodes |-> Unset]
    /\ m_lastDecodeCycleMap = [s \in Submodes |-> Unset]
    /\ params = [ranges |-> [s \in Submodes |-> NoRange], nsubmodes |-> {}]
    /\ m_decoderBusy = FALSE
    /\ m_worker = "starting"
    /\ m_semaphore = 0
    /\ m_quit = FALSE
    /\ m_data = [d2 |-> [i \in Slot |-> Cleared],
                 ranges |-> [s \in Submodes |-> NoRange],
                 nsubmodes |-> {}, cause |-> NoEvent, lost |-> {}]
    /\ finished = 0
    /\ minute = 1
    /\ floor = [minute |-> 1, kin |-> kin]
    /\ epoch = 0
    /\ prevKin = 0
    /\ overrun = {}
    /\ lastFull = [s \in Submodes |-> NoEvent]
    /\ changes = 0

-----------------------------------------------------------------------------
(* The audio thread: Detector, called by the audio stream.                 *)

(* writeData: restart the ring when the second of the minute has wrapped,  *)
(* store the block if one is complete and there is room, signal it.  The   *)
(* second is not tied to the audio: a minute may be short of samples.      *)
(* A suspend or resume is in the same event queue as the audio: not more   *)
(* than one block is completed before it is handled.                       *)
MinuteMayWrap == kin >= Size - 1 - WrapSlack /\ minute < MaxMinute

HasRoomForOneMore(pos) == pos < Size    \* mutant: =< for <

HasRoom(pos) == pos < Size - 1      \* kin < JS8_NTMAX * 12000 - m_samplesPerFFT

WriteData(wrapped, complete) ==
    LET pos == IF wrapped THEN 0 ELSE kin
        now == IF wrapped THEN minute + 1 ELSE minute
        end == IF complete /\ HasRoom(pos) THEN pos + 1 ELSE pos
    IN  /\ streaming
        /\ wrapped \/ complete
        /\ wrapped => MinuteMayWrap
        /\ complete => Len(framesQ) < MaxLag /\ ~late
        /\ late' = (complete /\ audioCmds # << >>)
        /\ d2' = IF complete /\ HasRoom(pos) THEN [d2 EXCEPT ![pos] = now] ELSE d2
        /\ kin' = end
        /\ framesQ' = IF complete
                      THEN Append(framesQ, [k |-> end, minute |-> now, epoch |-> epoch])
                      ELSE framesQ
        /\ minute' = now
        /\ prevKin' = IF wrapped THEN kin ELSE prevKin
        /\ overrun' = IF complete /\ HasRoom(pos) THEN overrun \ {pos} ELSE overrun
        /\ UNCHANGED <<streaming, audioCmds, optionVars, queueVars, sinkVars, hold,
                       jobVars, workerVars, floor, epoch, lastFull, changes>>

(* resetBufferPosition: move to where the (drifted) clock is and rotate    *)
(* the content along.                                                      *)
ResetBufferPosition(pos) ==
    /\ kin' = pos
    /\ d2' = [i \in Slot |-> d2[(i - (pos - kin)) % Size]]

(* SoundInput::suspend and resume, which resets the detector: Detector's   *)
(* clear is resetBufferPosition and resetBufferContent.                    *)
SoundInputSuspend ==
    /\ audioCmds # << >>
    /\ Head(audioCmds) = "suspend"
    /\ audioCmds' = Tail(audioCmds)
    /\ late' = FALSE
    /\ streaming' = FALSE
    /\ UNCHANGED <<d2, kin, framesQ, optionVars, queueVars, sinkVars, hold, jobVars,
                   workerVars, ringHistory, lastFull, changes>>

SoundInputResume(pos, now) ==
    /\ audioCmds # << >>
    /\ Head(audioCmds) = "resume"
    /\ \/ now = minute /\ pos >= kin
       \/ now = minute + 1 /\ now =< MaxMinute
    /\ audioCmds' = Tail(audioCmds)
    /\ late' = FALSE
    /\ streaming' = TRUE
    /\ kin' = pos
    /\ d2' = [i \in Slot |-> Cleared]
    /\ minute' = now
    /\ floor' = [minute |-> now, kin |-> pos]
    /\ epoch' = epoch + 1
    /\ UNCHANGED <<framesQ, optionVars, queueVars, sinkVars, hold, jobVars,
                   workerVars, prevKin, overrun, lastFull, changes>>

-----------------------------------------------------------------------------
(* The GUI thread: dataSink and decode, one framesWritten signal at a      *)
(* time; guiPc marks the places where the other threads can get in.        *)

(* dataSink up to the clearing of the ring.                                *)
DataSink ==
    LET e == Head(framesQ)
    IN  /\ guiPc = "idle"
        /\ framesQ # << >>
        /\ framesQ' = Tail(framesQ)
        /\ event' = e
        /\ guiPc' = IF sinkK0 # Unset /\ e.k < sinkK0 THEN "clear" ELSE "decode"
        /\ sinkK0' = e.k
        /\ UNCHANGED <<d2, kin, streaming, audioCmds, late, decodeK0, optionVars, queueVars,
                       hold, jobVars, workerVars, ringHistory, lastFull, changes>>

(* The clearing: not under the detector's lock, from the k of the signal.  *)
DataSinkClear ==
    /\ guiPc = "clear"
    /\ d2' = [i \in Slot |-> IF i >= event.k THEN Cleared ELSE d2[i]]
    /\ overrun' = overrun \cup {i \in Slot : i >= event.k /\ d2[i] >= event.minute}
    /\ guiPc' = "decode"
    /\ UNCHANGED <<kin, streaming, audioCmds, late, framesQ, event, sinkK0, decodeK0,
                   optionVars, queueVars, hold, jobVars, workerVars, minute, floor,
                   epoch, prevKin, lastFull, changes>>

(* decodeEnqueueReadyExperiment.                                           *)
DecodeEnqueueReady(e) ==
    LET queued == {s \in Submodes : Queues(s, e.k)}
        whole  == {s \in queued : QueuesWholeCycle(s, e.k)}
    IN  /\ m_decoderQueue' = [s \in Submodes |->
               IF s \in queued THEN RangeToQueue(s, e) ELSE m_decoderQueue[s]]
        /\ m_lastDecodeStartMap' = [s \in Submodes |->
               IF s \in queued THEN e.k
               ELSE IF Considered(s) THEN LastDecodeStart(s, e.k)
               ELSE m_lastDecodeStartMap[s]]
        /\ m_lastDecodeCycleMap' = [s \in Submodes |->
               IF s \in whole THEN CycleStart(s, e.k) ELSE m_lastDecodeCycleMap[s]]
        /\ lastFull' = [s \in Submodes |->
               IF s \in whole THEN [e EXCEPT !.k = CycleStart(s, e.k)] ELSE lastFull[s]]

(* decode up to decodeProcessQueue.                                        *)
Decode ==
    LET active == event.k # decodeK0 /\ m_monitoring
    IN  /\ guiPc = "decode"
        /\ decodeK0' = event.k
        /\ IF active THEN DecodeEnqueueReady(event)
                     ELSE UNCHANGED <<queueVars, lastFull>>
        /\ guiPc' = IF active /\ ~m_transmitting /\ ~hold THEN "process" ELSE "idle"
        /\ UNCHANGED <<audioVars, event, sinkK0, optionVars, hold, jobVars, workerVars,
                       ringHistory, changes>>

(* decodeProcessQueue, under the detector's lock: the whole queue is       *)
(* drained into dec_data.params unless the decoder is busy.                *)
Wanted(s) == IsQueued(s) /\ (multi \/ s = m_nSubMode)

DecodeProcessQueue ==
    /\ guiPc = "process"
    /\ IF m_decoderBusy \/ \A s \in Submodes : ~IsQueued(s)
       THEN /\ guiPc' = "idle"
            /\ UNCHANGED <<params, m_decoderQueue>>
       ELSE /\ params' = [ranges |-> [s \in Submodes |->
                              IF Wanted(s) THEN m_decoderQueue[s] ELSE params.ranges[s]],
                          nsubmodes |-> {s \in Submodes : Wanted(s)}]
            /\ m_decoderQueue' = [s \in Submodes |-> NoRange]
            /\ guiPc' = IF \E s \in Submodes : Wanted(s) THEN "start" ELSE "idle"
    /\ UNCHANGED <<audioVars, event, sinkK0, decodeK0, optionVars, m_lastDecodeStartMap,
                   m_lastDecodeCycleMap, hold, m_decoderBusy, workerVars, ringHistory,
                   lastFull, changes>>

(* decodeStart, under the detector's lock, and Decoder::decode: the worker *)
(* gets its copy of dec_data and a permit.                                 *)
\* Mutant: the decoder is not marked busy.
DecodeStartUnmarked ==
    /\ guiPc = "start"
    /\ guiPc' = "idle"
    /\ hold' = TRUE
    /\ m_data' = [d2 |-> d2, ranges |-> params.ranges, nsubmodes |-> params.nsubmodes,
                  cause |-> event, lost |-> overrun]
    /\ m_semaphore' = m_semaphore + 1
    /\ UNCHANGED <<audioVars, event, sinkK0, decodeK0, optionVars, queueVars, params,
                   m_decoderBusy, m_worker, m_quit, finished, ringHistory, lastFull,
                   changes>>

DecodeStart ==
    /\ guiPc = "start"
    /\ guiPc' = "idle"
    /\ IF m_decoderBusy
       THEN UNCHANGED <<m_decoderBusy, hold, m_data, m_semaphore>>
       ELSE /\ m_decoderBusy' = TRUE
            /\ hold' = TRUE
            /\ m_data' = [d2 |-> d2, ranges |-> params.ranges,
                          nsubmodes |-> params.nsubmodes,
                          cause |-> event, lost |-> overrun]
            /\ m_semaphore' = m_semaphore + 1
    /\ UNCHANGED <<audioVars, event, sinkK0, decodeK0, optionVars, queueVars, params,
                   m_worker, m_quit, finished, ringHistory, lastFull, changes>>

(* The queued DecodeFinished event: the drift observed in the run is       *)
(* applied (setDrift, driftChanged, onDriftChanged) before decodeDone.     *)
\* Mutant: the decoder stays busy.
DecodeDoneStillBusy ==
    /\ guiPc = "idle"
    /\ finished > 0
    /\ finished' = finished - 1
    /\ UNCHANGED <<streaming, audioCmds, late, framesQ, optionVars, queueVars, sinkVars, hold,
                   jobVars, m_worker, m_semaphore, m_quit, m_data, minute, prevKin,
                   overrun, lastFull>>

DecodeDone ==
    /\ guiPc = "idle"
    /\ finished > 0
    /\ finished' = finished - 1
    /\ m_decoderBusy' = FALSE
    /\ UNCHANGED <<streaming, audioCmds, late, framesQ, optionVars, queueVars, sinkVars, hold,
                   params, m_worker, m_semaphore, m_quit, m_data, minute, prevKin,
                   overrun, lastFull>>

DriftTo(pos) ==
    /\ MayDrift
    /\ changes < MaxChanges
    /\ changes' = changes + 1
    /\ ResetBufferPosition(pos)
    /\ floor' = [minute |-> minute, kin |-> pos]
    /\ epoch' = epoch + 1

DecodeFinished ==
    DecodeDone /\ UNCHANGED <<d2, kin, floor, epoch, changes>>

DecodeFinishedWithDrift(pos) ==
    DecodeDone /\ autoSync /\ DriftTo(pos)

(* onDriftChanged after the user moved the drift.                          *)
OnDriftChanged(pos) ==
    /\ guiPc = "idle"
    /\ DriftTo(pos)
    /\ UNCHANGED <<streaming, audioCmds, late, framesQ, optionVars, queueVars, sinkVars, hold,
                   jobVars, workerVars, minute, prevKin, overrun, lastFull>>

(* monitor: the audio thread is told by a queued signal.                   *)
Monitor(state) ==
    /\ m_monitoring' = state
    /\ audioCmds' = IF ~state THEN Append(audioCmds, "suspend")
                    ELSE IF ~m_monitoring THEN Append(audioCmds, "resume")
                    ELSE audioCmds

MonitorButtonClicked ==
    /\ guiPc = "idle"
    /\ ~m_transmitting
    /\ m_monitoring => changes < MaxChanges
    /\ changes' = IF m_monitoring THEN changes + 1 ELSE changes
    /\ Monitor(~m_monitoring)
    /\ UNCHANGED <<d2, kin, streaming, late, framesQ, m_transmitting, m_nSubMode, multi,
                   autoSync, queueVars, sinkVars, hold, jobVars, workerVars,
                   ringHistory, lastFull>>

(* prepareSending begins a transmission and stops the monitor; stopTx ends *)
(* it, or is called when there is none (the Escape key, the watchdog, the  *)
(* start button going up), and starts the monitor.                         *)
BeginTransmit ==
    /\ guiPc = "idle"
    /\ ~m_transmitting
    /\ changes < MaxChanges
    /\ changes' = changes + 1
    /\ m_transmitting' = TRUE
    /\ IF m_monitoring THEN Monitor(FALSE) ELSE UNCHANGED <<m_monitoring, audioCmds>>
    /\ UNCHANGED <<d2, kin, streaming, late, framesQ, m_nSubMode, multi, autoSync, queueVars,
                   sinkVars, hold, jobVars, workerVars, ringHistory, lastFull>>

StopTx ==
    /\ guiPc = "idle"
    /\ ~m_transmitting => changes < MaxChanges
    /\ changes' = IF m_transmitting THEN changes ELSE changes + 1
    /\ m_transmitting' = FALSE
    /\ hold' = TRUE
    /\ Monitor(TRUE)
    /\ UNCHANGED <<d2, kin, streaming, late, framesQ, m_nSubMode, multi, autoSync, queueVars,
                   sinkVars, jobVars, workerVars, ringHistory, lastFull>>

HoldEnds ==
    /\ hold
    /\ hold' = FALSE
    /\ UNCHANGED <<audioVars, optionVars, queueVars, sinkVars, jobVars, workerVars,
                   ringHistory, lastFull, changes>>

(* The user selects a submode, the multi decoder or autosync.              *)
ChangeOptions ==
    /\ guiPc = "idle"
    /\ changes < MaxChanges
    /\ changes' = changes + 1
    /\ m_nSubMode' \in Submodes
    /\ multi' \in BOOLEAN
    /\ autoSync' \in BOOLEAN
    /\ UNCHANGED <<audioVars, m_monitoring, m_transmitting, queueVars, sinkVars, hold,
                   jobVars, workerVars, ringHistory, lastFull>>

(* ~UI_Constructor: the audio thread is ended, then Decoder::quit asks the *)
(* worker to stop and waits for its thread.                                *)
\* Mutant: no permit for the worker to wake up and see m_quit.
QuitWithoutRelease ==
    /\ guiPc = "idle"
    /\ guiPc' = "quitting"
    /\ streaming' = FALSE
    /\ audioCmds' = << >>
    /\ late' = FALSE
    /\ m_quit' = TRUE
    /\ UNCHANGED <<d2, kin, framesQ, event, sinkK0, decodeK0, optionVars, queueVars,
                   hold, jobVars, m_worker, m_semaphore, m_data, finished, ringHistory,
                   lastFull, changes>>

Quit ==
    /\ guiPc = "idle"
    /\ guiPc' = "quitting"
    /\ streaming' = FALSE
    /\ audioCmds' = << >>
    /\ late' = FALSE
    /\ m_quit' = TRUE
    /\ m_semaphore' = m_semaphore + 1
    /\ UNCHANGED <<d2, kin, framesQ, event, sinkK0, decodeK0, optionVars, queueVars,
                   hold, jobVars, m_worker, m_data, finished, ringHistory, lastFull,
                   changes>>

QuitDone ==
    /\ guiPc = "quitting"
    /\ m_worker = "stopped"
    /\ guiPc' = "closed"
    /\ UNCHANGED <<audioVars, event, sinkK0, decodeK0, optionVars, queueVars, hold,
                   jobVars, workerVars, ringHistory, lastFull, changes>>

-----------------------------------------------------------------------------
(* The decoder thread: JS8::Worker::run and the decoding run itself, which *)
(* reads m_data from its first event, DecodeStarted, to its last,          *)
(* DecodeFinished; after that the worker goes back to the semaphore.       *)
WorkerStart ==
    /\ m_worker = "starting"
    /\ m_worker' = "waiting"
    /\ UNCHANGED <<m_semaphore, finished>>

\* Mutant: the permit is not taken.
WorkerAcquireNothing ==
    /\ m_worker = "waiting"
    /\ m_semaphore > 0
    /\ m_worker' = IF m_quit THEN "stopped" ELSE "decoding"
    /\ UNCHANGED <<m_semaphore, finished>>

WorkerAcquire ==
    /\ m_worker = "waiting"
    /\ m_semaphore > 0
    /\ m_semaphore' = m_semaphore - 1
    /\ m_worker' = IF m_quit THEN "stopped" ELSE "decoding"
    /\ UNCHANGED finished

WorkerFinish ==
    /\ m_worker = "decoding"
    /\ m_worker' = "returning"
    /\ finished' = finished + 1
    /\ UNCHANGED m_semaphore

WorkerReturn ==
    /\ m_worker = "returning"
    /\ m_worker' = "waiting"
    /\ UNCHANGED <<m_semaphore, finished>>

Worker ==
    /\ WorkerStart \/ WorkerAcquire \/ WorkerFinish \/ WorkerReturn
    /\ UNCHANGED <<audioVars, optionVars, queueVars, sinkVars, hold, jobVars, m_quit,
                   m_data, ringHistory, lastFull, changes>>

-----------------------------------------------------------------------------
AudioThread ==
    \/ \E wrapped, complete \in BOOLEAN : WriteData(wrapped, complete)
    \/ SoundInputSuspend
    \/ \E pos \in Positions, now \in minute .. minute + 1 : SoundInputResume(pos, now)

FramesWritten == DataSink \/ DataSinkClear \/ Decode \/ DecodeProcessQueue \/ DecodeStart

GuiThread ==
    \/ FramesWritten
    \/ DecodeFinished
    \/ \E pos \in Positions : DecodeFinishedWithDrift(pos)
    \/ \E pos \in Positions : OnDriftChanged(pos)
    \/ MonitorButtonClicked
    \/ BeginTransmit
    \/ StopTx
    \/ HoldEnds
    \/ ChangeOptions
    \/ Quit
    \/ QuitDone

(* The process has ended.                                                  *)
Closed == guiPc = "closed" /\ UNCHANGED vars

Next == AudioThread \/ GuiThread \/ Worker \/ Closed

(* The worker thread is always scheduled and a run is three passes over a  *)
(* fixed number of samples, so it ends.  The GUI thread finishes each      *)
(* handler and takes its events in the order they were queued, so a        *)
(* DecodeFinished is handled although framesWritten signals keep coming:   *)
(* strong fairness, as the handlers of those make it wait in between.      *)
Fairness ==
    /\ WF_vars(Worker)
    /\ WF_vars(FramesWritten)
    /\ SF_vars(DecodeFinished)
    /\ WF_vars(QuitDone)

Spec == Init /\ [][Next]_vars

FairSpec == Spec /\ Fairness

-----------------------------------------------------------------------------
(* Type invariant, by the groups of the variables.                         *)
RingType ==
    /\ d2 \in [Slot -> Nat]
    /\ kin \in Slot
    /\ streaming \in BOOLEAN
    /\ audioCmds \in Seq({"suspend", "resume"})
    /\ late \in BOOLEAN
    /\ framesQ \in Seq(Event)

SinkType ==
    /\ guiPc \in {"idle", "clear", "decode", "process", "start", "quitting", "closed"}
    /\ event \in Event
    /\ sinkK0 \in Slot \cup {Unset}
    /\ decodeK0 \in Slot \cup {Unset}

OptionType ==
    /\ m_monitoring \in BOOLEAN
    /\ m_transmitting \in BOOLEAN
    /\ m_nSubMode \in Submodes
    /\ multi \in BOOLEAN
    /\ autoSync \in BOOLEAN
    /\ hold \in BOOLEAN

QueueType ==
    /\ m_decoderQueue \in [Submodes -> Range]
    /\ m_lastDecodeStartMap \in [Submodes -> Slot \cup {Unset}]
    /\ m_lastDecodeCycleMap \in [Submodes -> Slot \cup {Unset}]
    /\ lastFull \in [Submodes -> Event]

JobType ==
    /\ params \in Params
    /\ m_decoderBusy \in BOOLEAN

WorkerType ==
    /\ m_worker \in {"starting", "waiting", "decoding", "returning", "stopped"}
    /\ m_semaphore \in Nat
    /\ m_quit \in BOOLEAN
    /\ m_data \in Job
    /\ finished \in Nat

HistoryType ==
    /\ minute \in Nat
    /\ floor \in [minute : Nat, kin : Slot]
    /\ epoch \in Nat
    /\ prevKin \in Slot
    /\ overrun \in SUBSET Slot
    /\ changes \in Nat

TypeOK ==
    /\ RingType
    /\ SinkType
    /\ OptionType
    /\ QueueType
    /\ JobType
    /\ WorkerType
    /\ HistoryType

(* One token for the decoder (m_decoderBusy): while the program runs it is *)
(* a permit, a run in progress or a DecodeFinished still in the GUI        *)
(* thread's event queue, exactly one of them when the decoder is busy and  *)
(* none otherwise.  So a second run is never started, and a busy decoder   *)
(* always has something under way that will make it free again.            *)
Running == IF m_worker = "decoding" THEN 1 ELSE 0

DecoderToken ==
    ~m_quit => m_semaphore + Running + finished = IF m_decoderBusy THEN 1 ELSE 0

(* Every range that is queued or handed to the decoder lies in the ring    *)
(* and fits the decoder's buffer dd, of one cycle: assert(sz <= NMAX) and  *)
(* the copies of JS8::DecodeMode::operator().                              *)
RangesFit ==
    \A s \in Submodes :
        \A r \in {m_decoderQueue[s], params.ranges[s], m_data.ranges[s]} :
            r.start \in Slot /\ r.sz =< CycleFrames[s]

(* A decoding run that starts with the block that queued its range, in one *)
(* minute and with no repositioning of the ring in between, sees all the   *)
(* audio recorded in the range: neither the clearing of the ring at the    *)
(* turn of the minute nor the audio thread, which goes on writing while    *)
(* the GUI thread prepares the run, takes any of it away.  The exception   *)
(* is audio recorded while the GUI thread was behind at the turn of the    *)
(* minute: that is cleared.                                                *)
JobLive == m_semaphore > 0 \/ m_worker = "decoding"

PromptRangeIsIntact ==
    JobLive => \A s \in m_data.nsubmodes :
        LET r == m_data.ranges[s]
            recorded == {i \in InRange(r) :
                            floor.minute < r.cause.minute \/ i >= floor.kin}
        IN  r.cause = m_data.cause /\ r.cause.epoch = epoch /\ ~Wraps(r) =>
                \A i \in recorded \ m_data.lost : m_data.d2[i] = r.cause.minute

(* "use a ring buffer instead of clearing the decode frames"               *)
(* (JS8_RING_BUFFER, commons.h): what was recorded at the end of a minute  *)
(* is still there for a range that reaches back over the turn of the       *)
(* minute.                                                                 *)
RingKeepsThePreviousMinute ==
    JobLive => \A s \in m_data.nsubmodes :
        LET r == m_data.ranges[s]
            old == {i \in InRange(r) : i >= r.start /\ i < prevKin
                        /\ (floor.minute < minute - 1 \/ i >= floor.kin)}
        IN  Wraps(r) /\ r.cause.epoch = epoch /\ r.cause.minute = minute =>
                \A i \in old : m_data.d2[i] # Cleared

(* Turbo and Ultra are decoded once per cycle: when the GUI thread first   *)
(* sees a whole cycle it has recorded from its beginning, it queues it or  *)
(* has already queued it.                                                  *)
RecordedFromStart(s, e) ==
    /\ e.epoch = epoch
    /\ floor.minute < e.minute \/ CycleStart(s, e.k) >= floor.kin

SeesWholeCycle(s) ==
    /\ guiPc = "decode" /\ guiPc' # "decode"
    /\ event.k # decodeK0 /\ m_monitoring /\ Considered(s)
    /\ CycleFramesReady(s, event.k) >= CycleNeeded[s]
    /\ RecordedFromStart(s, event)

WholeCyclesAreQueued ==
    [][\A s \in TurboOrUltra : SeesWholeCycle(s) =>
        lastFull'[s] = [event EXCEPT !.k = CycleStart(s, event.k)]]_vars

(* decodeEnqueueReadyExperiment's "compute the available decoder ranges    *)
(* that can be processed and place them in the decode queue", for a cycle  *)
(* of a later minute than the last one queued: nothing of that minute was  *)
(* decoded before, so the whole cycle has to be queued.                    *)
LaterCyclesAreQueued ==
    [][\A s \in TurboOrUltra :
        SeesWholeCycle(s) /\ lastFull[s].minute < event.minute
        => lastFull'[s] = [event EXCEPT !.k = CycleStart(s, event.k)]]_vars

(* ... and no cycle is queued as a whole twice: each is a later one than   *)
(* the last, also when blocks are reported several times at a full ring.   *)
NoCycleIsQueuedTwice ==
    [][\A s \in TurboOrUltra :
        LET q == m_decoderQueue'[s]
        IN  q # m_decoderQueue[s] /\ q.sz = CycleNeeded[s] =>
            \/ q.cause.minute > lastFull[s].minute
            \/ q.start > lastFull[s].k
            \/ q.cause.epoch > lastFull[s].epoch]_vars

(* The decoder implements the service it is used as.                       *)
Service == INSTANCE DecodeService WITH
    Input <- Job,
    input <- m_data,
    phase <- IF m_quit THEN "closed"
             ELSE IF m_semaphore > 0 THEN "requested"
             ELSE IF m_worker = "decoding" THEN "running"
             ELSE IF finished > 0 THEN "finished"
             ELSE "free"

ImplementsService == Service!ServiceSpec

(* A busy decoder becomes free again, unless the program ends first.       *)
DecoderBecomesFree == m_decoderBusy ~> (~m_decoderBusy \/ m_quit)

(* The program ends: the GUI thread does not wait for the worker forever.  *)
QuitCompletes == m_quit ~> guiPc = "closed"
=============================================================================
