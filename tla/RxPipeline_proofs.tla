-------------------------- MODULE RxPipeline_proofs --------------------------
(* Proofs about the receive pipeline, for every size of the ring, every set *)
(* of submodes and every value of the bounds: type correctness, the token   *)
(* of the decoder, that every range fits the decoder's buffers, that the    *)
(* decoder implements DecodeService, that a prompt run finds its audio in   *)
(* the ring, and that a cycle of Turbo and Ultra is queued once.            *)
EXTENDS RxPipeline, TLAPS

-----------------------------------------------------------------------------
(* Arithmetic of the cycles of a submode.                                  *)

(* The cycle of a position is the last whole multiple before it: the       *)
(* remainder taken of its number changes nothing within the ring.          *)
LEMMA CycleStartIs ==
    ASSUME NEW s \in Submodes, NEW k \in Slot
    PROVE  /\ CycleStart(s, k) = (k \div CycleFrames[s]) * CycleFrames[s]
           /\ k \div CycleFrames[s] \in Nat
           /\ CycleStart(s, k) =< k /\ k - CycleStart(s, k) < CycleFrames[s]
<1> DEFINE c == CycleFrames[s]
<1>1. c \in Nat /\ c > 0
    BY SubmodeAssumption
<1>2. PICK n \in 1 .. Size : Size = n * c
    BY CycleAssumption
<1>3. k \in Nat /\ k < Size
    BY SizeAssumption DEF Slot
<1>4. /\ k \div c \in Nat
      /\ (k \div c) * c =< k
      /\ k - (k \div c) * c < c
    BY <1>1, <1>3, SMT
<1>5. Size \div c = n
    BY <1>1, <1>2, SMT
<1>6. k \div c < n
    BY <1>1, <1>2, <1>3, <1>4, SMT
<1>7. (k \div c) % n = k \div c
    BY <1>2, <1>4, <1>6, SMT
<1>8. CycleStart(s, k) = (k \div c) * c
    BY <1>5, <1>7 DEF CycleStart, CycleForDecode
<1>. QED
    BY <1>4, <1>8

(* A position has one cycle, which contains it and lies within the ring.   *)
LEMMA CycleOfPosition ==
    ASSUME NEW s \in Submodes, NEW k \in Slot
    PROVE  /\ CycleStart(s, k) \in Slot
           /\ CycleStart(s, k) =< k
           /\ CycleFramesReady(s, k) \in 0 .. CycleFrames[s] - 1
<1> DEFINE c == CycleFrames[s]
<1>1. c \in Nat /\ k \in Nat /\ k < Size
    BY SubmodeAssumption, SizeAssumption DEF Slot
<1>2. /\ CycleStart(s, k) = (k \div c) * c /\ k \div c \in Nat
      /\ CycleStart(s, k) =< k /\ k - CycleStart(s, k) < c
    BY CycleStartIs
<1>3. (k \div c) * c \in Nat
    BY <1>1, <1>2, SMT
<1>. QED
    BY <1>1, <1>2, <1>3, SizeAssumption DEF Slot, CycleFramesReady

(* A cycle is not longer than the ring.                                    *)
LEMMA CycleFitsRing ==
    ASSUME NEW s \in Submodes
    PROVE  CycleFrames[s] \in Nat /\ CycleFrames[s] =< Size
<1>1. PICK n \in 1 .. Size : Size = n * CycleFrames[s]
    BY CycleAssumption
<1>. QED
    BY <1>1, SizeAssumption, SubmodeAssumption, SMT

(* What is queued lies in the ring and is not longer than a cycle.         *)
LEMMA QueuedRange ==
    ASSUME NEW s \in Submodes, NEW e \in Event
    PROVE  /\ RangeToQueue(s, e) \in Range
           /\ RangeToQueue(s, e).sz =< CycleFrames[s]
<1>1. e.k \in Slot
    BY DEF Event
<1>2. CycleFrames[s] \in Nat /\ CycleFrames[s] =< Size
    BY CycleFitsRing
<1>3. CycleNeeded[s] \in Nat /\ CycleNeeded[s] =< CycleFrames[s]
    BY SubmodeAssumption
<1>4. /\ CycleStart(s, e.k) \in Slot
      /\ CycleFramesReady(s, e.k) \in 0 .. CycleFrames[s] - 1
    BY <1>1, CycleOfPosition
<1>5. CASE QueuesSlidingRange(s, e.k)
    <2>1. (IF e.k - CycleFrames[s] < 0 THEN e.k - CycleFrames[s] + Size
                                       ELSE e.k - CycleFrames[s]) \in Slot
        BY <1>1, <1>2, SizeAssumption DEF Slot
    <2>. QED
        BY <1>2, <1>5, <2>1 DEF RangeToQueue, Range
<1>6. CASE ~QueuesSlidingRange(s, e.k)
    BY <1>2, <1>3, <1>4, <1>6 DEF RangeToQueue, Range
<1>. QED
    BY <1>5, <1>6

-----------------------------------------------------------------------------
(* Type correctness.                                                       *)

LEMMA NoRangeIsRange == NoEvent \in Event /\ NoRange \in Range /\ NoRange.sz = 0
    BY SizeAssumption DEF NoEvent, NoRange, Event, Range, Slot

LEMMA InitType == Init => TypeOK
<1> SUFFICES ASSUME Init PROVE TypeOK
    OBVIOUS
<1>1. kin \in Slot /\ 0 \in Slot
    BY SizeAssumption, BoundAssumption DEF Init, Slot
<1>2. RingType
    <2>1. streaming \in BOOLEAN /\ late \in BOOLEAN
        BY Zenon DEF Init
    <2>2. d2 \in [Slot -> Nat]
        BY DEF Init, Cleared
    <2>3. audioCmds \in Seq({"suspend", "resume"}) /\ framesQ \in Seq(Event)
        BY DEF Init
    <2>. QED
        BY <1>1, <2>1, <2>2, <2>3, Zenon DEF RingType
<1>3. SinkType
    BY NoRangeIsRange DEF Init, SinkType
<1>4. OptionType
    BY BoundAssumption DEF Init, OptionType
<1>5. QueueType
    BY NoRangeIsRange DEF Init, QueueType
<1>6. JobType
    BY NoRangeIsRange DEF Init, JobType, Params
<1>7. WorkerType
    BY NoRangeIsRange DEF Init, WorkerType, Job, Cleared
<1>8. HistoryType
    BY <1>1 DEF Init, HistoryType
<1>. QED
    BY <1>2, <1>3, <1>4, <1>5, <1>6, <1>7, <1>8 DEF TypeOK

(* A group of variables that is left alone keeps its type.                 *)
LEMMA KeptType ==
    ASSUME TypeOK
    PROVE  /\ UNCHANGED audioVars => RingType'
           /\ UNCHANGED sinkVars => SinkType'
           /\ UNCHANGED <<optionVars, hold>> => OptionType'
           /\ UNCHANGED <<queueVars, lastFull>> => QueueType'
           /\ UNCHANGED jobVars => JobType'
           /\ UNCHANGED workerVars => WorkerType'
           /\ UNCHANGED <<ringHistory, changes>> => HistoryType'
<1>1. UNCHANGED audioVars => RingType'
    BY DEF TypeOK, RingType, audioVars
<1>2. UNCHANGED sinkVars => SinkType'
    BY DEF TypeOK, SinkType, sinkVars
<1>3. UNCHANGED <<optionVars, hold>> => OptionType'
    BY DEF TypeOK, OptionType, optionVars
<1>4. UNCHANGED <<queueVars, lastFull>> => QueueType'
    BY DEF TypeOK, QueueType, queueVars
<1>5. UNCHANGED jobVars => JobType'
    BY DEF TypeOK, JobType, jobVars
<1>6. UNCHANGED workerVars => WorkerType'
    BY DEF TypeOK, WorkerType, workerVars
<1>7. UNCHANGED <<ringHistory, changes>> => HistoryType'
    BY DEF TypeOK, HistoryType, ringHistory
<1>. QED
    BY <1>1, <1>2, <1>3, <1>4, <1>5, <1>6, <1>7

LEMMA AudioThreadType == TypeOK /\ AudioThread => TypeOK'
<1> SUFFICES ASSUME TypeOK, AudioThread PROVE TypeOK'
    OBVIOUS
<1>1. ASSUME NEW wrapped \in BOOLEAN, NEW complete \in BOOLEAN,
             WriteData(wrapped, complete)
      PROVE  TypeOK'
    <2> DEFINE pos == IF wrapped THEN 0 ELSE kin
               now == IF wrapped THEN minute + 1 ELSE minute
               end == IF complete /\ HasRoom(pos) THEN pos + 1 ELSE pos
    <2>1. pos \in Slot /\ now \in Nat /\ epoch \in Nat
        BY SizeAssumption DEF TypeOK, RingType, HistoryType, Slot
    <2>2. end \in Slot
        <3> HIDE DEF pos
        <3>1. HasRoom(pos) => pos + 1 \in Slot
            BY <2>1, SizeAssumption DEF HasRoom, Slot
        <3>. QED
            BY <2>1, <3>1, Zenon
    <2>3. [k |-> end, minute |-> now, epoch |-> epoch] \in Event
        BY <2>1, <2>2 DEF Event
    <2>4. RingType'
        <3>1. framesQ' \in Seq(Event)
            BY <1>1, <2>3 DEF WriteData, TypeOK, RingType
        <3>2. d2' \in [Slot -> Nat]
            BY <1>1, <2>1 DEF WriteData, TypeOK, RingType
        <3>3. kin' \in Slot
            BY <1>1, <2>2 DEF WriteData
        <3>. QED
            BY <1>1, <3>1, <3>2, <3>3 DEF WriteData, TypeOK, RingType
    <2>5. HistoryType'
        BY <1>1, <2>1 DEF WriteData, TypeOK, RingType, HistoryType
    <2>. QED
        BY <1>1, <2>4, <2>5, KeptType DEF WriteData, TypeOK
<1>2. CASE SoundInputSuspend
    <2>1. RingType'
        <3>1. audioCmds' \in Seq({"suspend", "resume"})
            BY <1>2 DEF SoundInputSuspend, TypeOK, RingType
        <3>2. streaming' \in BOOLEAN /\ late' \in BOOLEAN
            BY <1>2, Zenon DEF SoundInputSuspend
        <3>. QED
            BY <1>2, <3>1, <3>2, Zenon DEF SoundInputSuspend, TypeOK, RingType
    <2>. QED
        BY <1>2, <2>1, KeptType DEF SoundInputSuspend, TypeOK
<1>3. ASSUME NEW pos \in Positions, NEW now \in minute .. minute + 1,
             SoundInputResume(pos, now)
      PROVE  TypeOK'
    <2>1. pos \in Slot /\ now \in Nat
        BY BoundAssumption DEF TypeOK, HistoryType, Slot
    <2>2. RingType'
        <3>1. audioCmds' \in Seq({"suspend", "resume"})
            BY <1>3 DEF SoundInputResume, TypeOK, RingType
        <3>2. streaming' \in BOOLEAN /\ late' \in BOOLEAN
            BY <1>3, Zenon DEF SoundInputResume
        <3>3. d2' \in [Slot -> Nat]
            BY <1>3 DEF SoundInputResume, Cleared
        <3>. QED
            BY <1>3, <2>1, <3>1, <3>2, <3>3, Zenon
            DEF SoundInputResume, TypeOK, RingType
    <2>3. HistoryType'
        BY <1>3, <2>1 DEF SoundInputResume, TypeOK, HistoryType
    <2>. QED
        BY <1>3, <2>2, <2>3, KeptType DEF SoundInputResume, TypeOK
<1>. QED
    BY <1>1, <1>2, <1>3 DEF AudioThread

(* What decode leaves in the queue and in its maps.                        *)
LEMMA DecodeEnqueueReadyType ==
    ASSUME TypeOK, DecodeEnqueueReady(event)
    PROVE  QueueType'
<1>1. event \in Event /\ event.k \in Slot
    BY DEF TypeOK, SinkType, Event
<1>2. ASSUME NEW s \in Submodes
      PROVE  /\ RangeToQueue(s, event) \in Range
             /\ CycleStart(s, event.k) \in Slot
             /\ LastDecodeStart(s, event.k) \in Slot \cup {Unset}
             /\ [event EXCEPT !.k = CycleStart(s, event.k)] \in Event
    <2>1. RangeToQueue(s, event) \in Range /\ CycleStart(s, event.k) \in Slot
        BY <1>1, QueuedRange, CycleOfPosition
    <2>. QED
        BY <1>1, <2>1 DEF LastDecodeStart, TypeOK, QueueType, Event
<1>3. m_decoderQueue' \in [Submodes -> Range]
    BY <1>2 DEF DecodeEnqueueReady, TypeOK, QueueType
<1>4. m_lastDecodeStartMap' \in [Submodes -> Slot \cup {Unset}]
    BY <1>1, <1>2 DEF DecodeEnqueueReady, TypeOK, QueueType
<1>5. m_lastDecodeCycleMap' \in [Submodes -> Slot \cup {Unset}]
    BY <1>2 DEF DecodeEnqueueReady, TypeOK, QueueType
<1>6. lastFull' \in [Submodes -> Event]
    BY <1>2 DEF DecodeEnqueueReady, TypeOK, QueueType
<1>. QED
    BY <1>3, <1>4, <1>5, <1>6 DEF QueueType

LEMMA FramesWrittenType == TypeOK /\ FramesWritten => TypeOK'
<1> SUFFICES ASSUME TypeOK, FramesWritten PROVE TypeOK'
    OBVIOUS
<1>1. CASE DataSink
    <2>1. framesQ' \in Seq(Event) /\ event' \in Event
        BY <1>1 DEF DataSink, TypeOK, RingType
    <2>2. event'.k \in Slot
        BY <2>1 DEF Event
    <2>3. RingType'
        BY <1>1, <2>1 DEF DataSink, TypeOK, RingType
    <2>4. SinkType'
        BY <1>1, <2>1, <2>2 DEF DataSink, TypeOK, SinkType
    <2>. QED
        BY <1>1, <2>3, <2>4, KeptType DEF DataSink, TypeOK
<1>2. CASE DataSinkClear
    <2>1. RingType'
        BY <1>2 DEF DataSinkClear, TypeOK, RingType, Cleared
    <2>2. SinkType'
        BY <1>2 DEF DataSinkClear, TypeOK, SinkType
    <2>3. HistoryType'
        BY <1>2 DEF DataSinkClear, TypeOK, HistoryType
    <2>. QED
        BY <1>2, <2>1, <2>2, <2>3, KeptType DEF DataSinkClear, TypeOK
<1>3. CASE Decode
    <2>1. QueueType'
        BY <1>3, DecodeEnqueueReadyType, KeptType DEF Decode
    <2>2. SinkType'
        BY <1>3 DEF Decode, TypeOK, SinkType, Event
    <2>. QED
        BY <1>3, <2>1, <2>2, KeptType DEF Decode, TypeOK
<1>4. CASE DecodeProcessQueue
    <2>1. JobType'
        BY <1>4 DEF DecodeProcessQueue, TypeOK, JobType, QueueType, Params
    <2>2. QueueType'
        BY <1>4, NoRangeIsRange DEF DecodeProcessQueue, TypeOK, QueueType
    <2>3. SinkType'
        BY <1>4 DEF DecodeProcessQueue, TypeOK, SinkType
    <2>. QED
        BY <1>4, <2>1, <2>2, <2>3, KeptType DEF DecodeProcessQueue, TypeOK
<1>5. CASE DecodeStart
    <2>1. WorkerType'
        <3>1. [d2 |-> d2, ranges |-> params.ranges, nsubmodes |-> params.nsubmodes,
               cause |-> event, lost |-> overrun] \in Job
            BY DEF TypeOK, RingType, JobType, SinkType, HistoryType, Job, Params
        <3>. QED
            BY <1>5, <3>1 DEF DecodeStart, TypeOK, WorkerType
    <2>2. SinkType' /\ JobType' /\ OptionType'
        BY <1>5 DEF DecodeStart, TypeOK, SinkType, JobType, OptionType, optionVars
    <2>. QED
        BY <1>5, <2>1, <2>2, KeptType DEF DecodeStart, TypeOK
<1>. QED
    BY <1>1, <1>2, <1>3, <1>4, <1>5 DEF FramesWritten

(* A rotation of the ring is a ring.                                       *)
LEMMA ResetBufferPositionType ==
    ASSUME TypeOK, NEW pos \in Positions, DriftTo(pos)
    PROVE  /\ kin' \in Slot /\ d2' \in [Slot -> Nat]
           /\ floor' \in [minute : Nat, kin : Slot]
           /\ epoch' \in Nat /\ changes' \in Nat
<1>1. pos \in Slot /\ kin \in Slot /\ d2 \in [Slot -> Nat] /\ minute \in Nat
      /\ epoch \in Nat /\ changes \in Nat
    BY BoundAssumption DEF TypeOK, RingType, HistoryType, Slot
<1>2. ASSUME NEW i \in Slot
      PROVE  (i - (pos - kin)) % Size \in Slot
    BY <1>1, SizeAssumption DEF Slot
<1>3. kin' \in Slot /\ d2' \in [Slot -> Nat]
    BY <1>1, <1>2 DEF DriftTo, ResetBufferPosition
<1>. QED
    BY <1>1, <1>3 DEF DriftTo

LEMMA GuiThreadType == TypeOK /\ GuiThread => TypeOK'
<1> SUFFICES ASSUME TypeOK, GuiThread PROVE TypeOK'
    OBVIOUS
<1>1. CASE FramesWritten
    BY <1>1, FramesWrittenType
<1>2. DecodeDone => JobType' /\ WorkerType'
    <2>1. ASSUME DecodeDone PROVE m_decoderBusy' \in BOOLEAN
        BY <2>1, Zenon DEF DecodeDone
    <2>2. ASSUME DecodeDone PROVE finished' \in Nat
        BY <2>2 DEF DecodeDone, TypeOK, WorkerType
    <2>. QED
        BY <2>1, <2>2, Zenon DEF DecodeDone, TypeOK, JobType, WorkerType
<1>3. CASE DecodeFinished
    <2>1. RingType' /\ HistoryType'
        BY <1>3, KeptType DEF DecodeFinished, DecodeDone, audioVars, ringHistory
    <2>. QED
        BY <1>2, <1>3, <2>1, KeptType DEF DecodeFinished, DecodeDone, TypeOK
<1>4. ASSUME NEW pos \in Positions, DecodeFinishedWithDrift(pos)
      PROVE  TypeOK'
    <2>1. RingType' /\ HistoryType'
        BY <1>4, ResetBufferPositionType
        DEF DecodeFinishedWithDrift, DecodeDone, TypeOK, RingType, HistoryType
    <2>. QED
        BY <1>2, <1>4, <2>1, KeptType DEF DecodeFinishedWithDrift, DecodeDone, TypeOK
<1>5. ASSUME NEW pos \in Positions, OnDriftChanged(pos)
      PROVE  TypeOK'
    <2>1. RingType' /\ HistoryType'
        BY <1>5, ResetBufferPositionType
        DEF OnDriftChanged, TypeOK, RingType, HistoryType
    <2>. QED
        BY <1>5, <2>1, KeptType DEF OnDriftChanged, TypeOK
<1>6. ASSUME NEW state \in BOOLEAN, Monitor(state)
      PROVE  m_monitoring' \in BOOLEAN /\ audioCmds' \in Seq({"suspend", "resume"})
    BY <1>6 DEF Monitor, TypeOK, RingType
<1>7. ASSUME MonitorButtonClicked \/ BeginTransmit \/ StopTx
      PROVE  m_monitoring' \in BOOLEAN /\ audioCmds' \in Seq({"suspend", "resume"})
    <2>1. m_monitoring \in BOOLEAN /\ audioCmds \in Seq({"suspend", "resume"})
        BY DEF TypeOK, OptionType, RingType
    <2>2. CASE Monitor(TRUE) \/ Monitor(FALSE) \/ Monitor(~m_monitoring)
        BY <1>6, <2>1, <2>2
    <2>3. CASE UNCHANGED <<m_monitoring, audioCmds>>
        BY <2>1, <2>3
    <2>. QED
        BY <1>7, <2>2, <2>3, Zenon DEF MonitorButtonClicked, BeginTransmit, StopTx
<1>8. CASE MonitorButtonClicked \/ BeginTransmit \/ StopTx
    <2>1. RingType'
        BY <1>7, <1>8
        DEF MonitorButtonClicked, BeginTransmit, StopTx, TypeOK, RingType
    <2>2. OptionType'
        BY <1>7, <1>8
        DEF MonitorButtonClicked, BeginTransmit, StopTx, TypeOK, OptionType
    <2>3. HistoryType'
        <3>1. changes' \in {changes, changes + 1}
            BY <1>8, Zenon DEF MonitorButtonClicked, BeginTransmit, StopTx
        <3>2. UNCHANGED ringHistory
            BY <1>8, Zenon DEF MonitorButtonClicked, BeginTransmit, StopTx
        <3>. QED
            BY <3>1, <3>2 DEF TypeOK, HistoryType, ringHistory
    <2>. QED
        BY <1>8, <2>1, <2>2, <2>3, KeptType
        DEF MonitorButtonClicked, BeginTransmit, StopTx, TypeOK
<1>9. CASE HoldEnds \/ ChangeOptions
    <2>1. OptionType'
        BY <1>9 DEF HoldEnds, ChangeOptions, TypeOK, OptionType,
                    optionVars
    <2>2. HistoryType'
        BY <1>9 DEF HoldEnds, ChangeOptions, TypeOK, HistoryType,
                    ringHistory
    <2>. QED
        BY <1>9, <2>1, <2>2, KeptType DEF HoldEnds, ChangeOptions, TypeOK
<1>10. CASE Quit
    <2>1. streaming' \in BOOLEAN /\ late' \in BOOLEAN /\ m_quit' \in BOOLEAN
        BY <1>10, Zenon DEF Quit
    <2>2. audioCmds' \in Seq({"suspend", "resume"}) /\ m_semaphore' \in Nat
        BY <1>10 DEF Quit, TypeOK, WorkerType
    <2>3. RingType' /\ SinkType' /\ WorkerType'
        BY <1>10, <2>1, <2>2, Zenon DEF Quit, TypeOK, RingType, SinkType, WorkerType
    <2>. QED
        BY <1>10, <2>3, KeptType DEF Quit, TypeOK
<1>11. CASE QuitDone
    <2>1. SinkType'
        BY <1>11 DEF QuitDone, TypeOK, SinkType
    <2>. QED
        BY <1>11, <2>1, KeptType DEF QuitDone, TypeOK
<1>. QED
    BY <1>1, <1>3, <1>4, <1>5, <1>8, <1>9, <1>10, <1>11 DEF GuiThread

LEMMA DecoderThreadType == TypeOK /\ Worker => TypeOK'
<1> SUFFICES ASSUME TypeOK, Worker PROVE TypeOK'
    OBVIOUS
<1>1. WorkerType'
    BY DEF Worker, WorkerStart, WorkerAcquire, WorkerFinish, WorkerReturn, TypeOK,
           WorkerType
<1>. QED
    BY <1>1, KeptType DEF Worker, TypeOK

(* The type invariant holds in every reachable state.                      *)
THEOREM TypeCorrect == Spec => []TypeOK
<1>1. Init => TypeOK
    BY InitType
<1>2. TypeOK /\ [Next]_vars => TypeOK'
    <2>1. TypeOK /\ UNCHANGED vars => TypeOK'
        BY KeptType DEF TypeOK, vars
    <2>. QED
        BY <2>1, AudioThreadType, GuiThreadType, DecoderThreadType DEF Next, Closed
<1>. QED
    BY <1>1, <1>2, PTL DEF Spec

-----------------------------------------------------------------------------
(* Every range fits the decoder's buffers.                                 *)

Fits(r, s) == r.start \in Slot /\ r.sz =< CycleFrames[s]

(* The queue gets only ranges that fit, and the other two get theirs from  *)
(* it: the invariant is inductive given the types.                         *)
LEMMA RangesFitStep == TypeOK /\ RangesFit /\ [Next]_vars => RangesFit'
<1> SUFFICES ASSUME TypeOK, RangesFit, [Next]_vars,
                    NEW s \in Submodes
             PROVE  /\ Fits(m_decoderQueue'[s], s)
                    /\ Fits(params'.ranges[s], s)
                    /\ Fits(m_data'.ranges[s], s)
    BY Zenon DEF RangesFit, Fits
<1>1. /\ Fits(m_decoderQueue[s], s)
      /\ Fits(params.ranges[s], s)
      /\ Fits(m_data.ranges[s], s)
    BY DEF RangesFit, Fits
<1>2. Fits(NoRange, s)
    BY NoRangeIsRange, SizeAssumption, SubmodeAssumption DEF Fits, Range, Slot, NoRange
<1>3. CASE Decode
    <2>1. Fits(RangeToQueue(s, event), s)
        BY QueuedRange DEF Fits, Range, TypeOK, SinkType
    <2>2. m_decoderQueue'[s] \in {RangeToQueue(s, event), m_decoderQueue[s]}
        BY <1>3 DEF Decode, DecodeEnqueueReady, queueVars, TypeOK, QueueType
    <2>3. UNCHANGED <<params, m_data>>
        BY <1>3 DEF Decode, jobVars, workerVars
    <2>. QED
        BY <1>1, <2>1, <2>2, <2>3
<1>4. CASE DecodeProcessQueue
    <2>1. /\ m_decoderQueue'[s] \in {m_decoderQueue[s], NoRange}
          /\ params'.ranges[s] \in {m_decoderQueue[s], params.ranges[s]}
        BY <1>4 DEF DecodeProcessQueue
    <2>2. UNCHANGED m_data
        BY <1>4 DEF DecodeProcessQueue, workerVars
    <2>. QED
        BY <1>1, <1>2, <2>1, <2>2
<1>5. CASE DecodeStart
    <2>1. m_data'.ranges \in {params.ranges, m_data.ranges}
        BY <1>5 DEF DecodeStart
    <2>2. UNCHANGED <<m_decoderQueue, params>>
        BY <1>5 DEF DecodeStart, queueVars
    <2>. QED
        BY <1>1, <2>1, <2>2
<1>6. CASE UNCHANGED <<m_decoderQueue, params, m_data>>
    BY <1>1, <1>6
<1>7. AudioThread \/ Worker \/ Closed \/ UNCHANGED vars
        => UNCHANGED <<m_decoderQueue, params, m_data>>
    BY DEF AudioThread, WriteData, SoundInputSuspend, SoundInputResume, Worker, Closed,
           vars, queueVars, jobVars, workerVars
<1>8. GuiThread => \/ Decode \/ DecodeProcessQueue \/ DecodeStart
                   \/ UNCHANGED <<m_decoderQueue, params, m_data>>
    BY DEF GuiThread, FramesWritten, DataSink, DataSinkClear, DecodeFinished,
           DecodeFinishedWithDrift, DecodeDone, OnDriftChanged, MonitorButtonClicked,
           BeginTransmit, StopTx, HoldEnds, ChangeOptions, Quit,
           QuitDone, queueVars, jobVars, workerVars
<1>. QED
    BY <1>3, <1>4, <1>5, <1>6, <1>7, <1>8 DEF Next

(* Every range that is queued or handed to the decoder lies in the ring    *)
(* and is no longer than the buffer of a cycle it is copied to.            *)
THEOREM RangesCorrect == Spec => []RangesFit
<1>1. Init => RangesFit
    BY NoRangeIsRange, SizeAssumption, SubmodeAssumption
    DEF Init, RangesFit, Slot, NoRange
<1>. QED
    BY <1>1, RangesFitStep, TypeCorrect, PTL DEF Spec

-----------------------------------------------------------------------------
(* The token of the decoder.                                               *)

(* What is counted changes only in these steps.                            *)
TokenVars == <<m_semaphore, m_worker, finished, m_decoderBusy, m_quit>>

LEMMA TokenSteps ==
    [Next]_vars =>
        DecodeStart \/ DecodeDone \/ Quit \/ Worker \/ UNCHANGED <<TokenVars, m_data>>
<1>1. AudioThread \/ Closed \/ UNCHANGED vars => UNCHANGED <<TokenVars, m_data>>
    BY DEF AudioThread, WriteData, SoundInputSuspend, SoundInputResume, Closed, vars,
           jobVars, workerVars, TokenVars
<1>2. GuiThread => \/ DecodeStart \/ DecodeDone \/ Quit
                   \/ UNCHANGED <<TokenVars, m_data>>
    BY DEF GuiThread, FramesWritten, DataSink, DataSinkClear, Decode,
           DecodeProcessQueue, DecodeFinished, DecodeFinishedWithDrift, OnDriftChanged,
           MonitorButtonClicked, BeginTransmit, StopTx, HoldEnds,
           ChangeOptions, QuitDone, jobVars, workerVars, TokenVars
<1>. QED
    BY <1>1, <1>2 DEF Next

LEMMA TokenStep == TypeOK /\ DecoderToken /\ [Next]_vars => DecoderToken'
<1> SUFFICES ASSUME TypeOK, DecoderToken, [Next]_vars, ~m_quit'
             PROVE  m_semaphore' + Running' + finished'
                        = IF m_decoderBusy' THEN 1 ELSE 0
    BY DEF DecoderToken
<1>1. m_semaphore \in Nat /\ finished \in Nat
    BY DEF TypeOK, WorkerType
<1>2. ~m_quit
    BY TokenSteps, Zenon DEF DecodeStart, DecodeDone, Quit, Worker, TokenVars
<1>3. m_semaphore + Running + finished = IF m_decoderBusy THEN 1 ELSE 0
    BY <1>2 DEF DecoderToken
<1>4. CASE DecodeStart
    BY <1>1, <1>3, <1>4 DEF DecodeStart, Running
<1>5. CASE DecodeDone
    BY <1>1, <1>3, <1>5 DEF DecodeDone, Running
<1>6. CASE Worker
    BY <1>1, <1>2, <1>3, <1>6
    DEF Worker, WorkerStart, WorkerAcquire, WorkerFinish, WorkerReturn, Running, jobVars
<1>7. CASE UNCHANGED TokenVars
    BY <1>3, <1>7 DEF TokenVars, Running
<1>8. ~Quit
    BY Zenon DEF Quit
<1>. QED
    BY <1>4, <1>5, <1>6, <1>7, <1>8, TokenSteps

(* There is one token for the decoder: a permit, a run or a DecodeFinished *)
(* event, and it is there exactly when the decoder is busy.                *)
THEOREM TokenCorrect == Spec => []DecoderToken
<1>1. Init => DecoderToken
    BY DEF Init, DecoderToken, Running
<1>. QED
    BY <1>1, TokenStep, TypeCorrect, PTL DEF Spec

-----------------------------------------------------------------------------
(* The decoder implements the service it is used as.                       *)

(* m_quit is set when the GUI thread has left its event loop for good.     *)
QuitIsFinal == m_quit <=> guiPc \in {"quitting", "closed"}

LEMMA QuitIsFinalStep == QuitIsFinal /\ [Next]_vars => QuitIsFinal'
<1> SUFFICES ASSUME QuitIsFinal, [Next]_vars PROVE QuitIsFinal'
    OBVIOUS
<1>1. CASE Quit
    BY <1>1 DEF Quit, QuitIsFinal
<1>2. CASE QuitDone
    BY <1>2 DEF QuitDone, QuitIsFinal, workerVars
<1>3. CASE UNCHANGED <<guiPc, m_quit>>
    BY <1>3 DEF QuitIsFinal
<1>4. CASE FramesWritten
    <2>1. /\ guiPc \notin {"quitting", "closed"}
          /\ guiPc' \notin {"quitting", "closed"}
        BY <1>4 DEF FramesWritten, DataSink, DataSinkClear, Decode, DecodeProcessQueue,
                    DecodeStart
    <2>2. UNCHANGED m_quit
        BY <1>4 DEF FramesWritten, DataSink, DataSinkClear, Decode, DecodeProcessQueue,
                    DecodeStart, workerVars
    <2>. QED
        BY <2>1, <2>2 DEF QuitIsFinal
<1>5. AudioThread \/ Worker \/ Closed \/ UNCHANGED vars => UNCHANGED <<guiPc, m_quit>>
    BY DEF AudioThread, WriteData, SoundInputSuspend, SoundInputResume, Worker, Closed,
           vars, sinkVars, workerVars
<1>6. GuiThread => FramesWritten \/ Quit \/ QuitDone \/ UNCHANGED <<guiPc, m_quit>>
    BY DEF GuiThread, DecodeFinished, DecodeFinishedWithDrift, DecodeDone,
           OnDriftChanged, MonitorButtonClicked, BeginTransmit, StopTx,
           HoldEnds, ChangeOptions, sinkVars, workerVars
<1>. QED
    BY <1>1, <1>2, <1>3, <1>4, <1>5, <1>6 DEF Next

LEMMA ServiceStep ==
    TypeOK /\ TypeOK' /\ DecoderToken /\ QuitIsFinal /\ [Next]_vars
        => [Service!ServiceNext]_(Service!svars)
<1> SUFFICES ASSUME TypeOK, TypeOK', DecoderToken, QuitIsFinal, [Next]_vars
             PROVE  [Service!ServiceNext]_(Service!svars)
    OBVIOUS
<1> USE DEF Service!ServiceNext, Service!svars
<1>1. m_semaphore \in Nat /\ finished \in Nat
    BY DEF TypeOK, WorkerType
<1>2. ~m_quit => m_semaphore + Running + finished = IF m_decoderBusy THEN 1 ELSE 0
    BY DEF DecoderToken
<1>3. CASE DecodeStart
    <2>1. CASE m_decoderBusy
        BY <1>3, <2>1 DEF DecodeStart
    <2>2. CASE ~m_decoderBusy
        <3>1. ~m_quit /\ ~m_quit' /\ m_semaphore' = m_semaphore + 1
            BY <1>3, <2>2 DEF DecodeStart, QuitIsFinal
        <3>2. m_semaphore = 0 /\ m_worker # "decoding" /\ finished = 0
            BY <1>1, <1>2, <2>2, <3>1 DEF Running
        <3>3. m_data' \in Job
            BY DEF TypeOK, WorkerType
        <3>. QED
            BY <3>1, <3>2, <3>3 DEF Service!Request
    <2>. QED
        BY <2>1, <2>2
<1>4. CASE DecodeDone
    <2>1. ~m_quit /\ ~m_quit' /\ UNCHANGED <<m_semaphore, m_worker, m_data>>
        BY <1>4 DEF DecodeDone, QuitIsFinal
    <2>2. finished = 1 /\ finished' = 0 /\ m_semaphore = 0 /\ m_worker # "decoding"
        BY <1>1, <1>2, <1>4, <2>1 DEF DecodeDone, Running
    <2>. QED
        BY <2>1, <2>2 DEF Service!Acknowledge
<1>5. CASE Quit
    BY <1>5 DEF Quit, QuitIsFinal, Service!Close
<1>6. CASE Worker /\ m_quit
    BY <1>6 DEF Worker
<1>7. CASE Worker /\ ~m_quit
    <2>1. UNCHANGED <<m_quit, m_data>>
        BY <1>7 DEF Worker
    <2>2. CASE WorkerStart \/ WorkerReturn
        BY <2>1, <2>2 DEF WorkerStart, WorkerReturn
    <2>3. CASE WorkerAcquire
        <3>1. m_semaphore = 1 /\ m_semaphore' = 0 /\ m_worker' = "decoding"
            BY <1>1, <1>2, <1>7, <2>3 DEF WorkerAcquire, Running
        <3>. QED
            BY <1>7, <2>1, <3>1 DEF Service!Begin
    <2>4. CASE WorkerFinish
        <3>1. /\ m_semaphore = 0 /\ m_semaphore' = 0 /\ finished' = 1
              /\ m_worker = "decoding" /\ m_worker' # "decoding"
            BY <1>1, <1>2, <1>7, <2>4 DEF WorkerFinish, Running
        <3>. QED
            BY <1>7, <2>1, <3>1 DEF Service!Finish
    <2>. QED
        BY <1>7, <2>2, <2>3, <2>4 DEF Worker
<1>8. CASE UNCHANGED <<TokenVars, m_data>>
    BY <1>8 DEF TokenVars
<1>. QED
    BY <1>3, <1>4, <1>5, <1>6, <1>7, <1>8, TokenSteps

(* The GUI thread's flag and semaphore, the decoder thread and the queued  *)
(* event between them are the service of DecodeService: one request at a   *)
(* time, on a snapshot that does not change until it is acknowledged.      *)
THEOREM PipelineImplementsService == Spec => ImplementsService
<1>1. Init => QuitIsFinal
    BY DEF Init, QuitIsFinal
<1>2. Spec => []QuitIsFinal
    BY <1>1, QuitIsFinalStep, PTL DEF Spec
<1>3. Init => Service!ServiceInit
    BY InitType DEF Init, Service!ServiceInit, TypeOK, WorkerType
<1>. QED
    BY <1>2, <1>3, ServiceStep, TypeCorrect, TokenCorrect, PTL
    DEF Spec, ImplementsService, Service!ServiceSpec

-----------------------------------------------------------------------------
(* What a decoding run finds in the ring.                                  *)

(* The GUI thread falls behind by less than what the longest cycle leaves  *)
(* of a minute: the longest of JS8 is half a minute.                       *)
KeepsUp == \A s \in Submodes : CycleFrames[s] + MaxLag + WrapSlack < Size

\* The GUI thread is at work on the signal event.
Handling == guiPc \in {"clear", "decode", "process", "start"}

(* n blocks were completed after the signal e.  Unless the ring was moved, *)
(* the position is at most that far ahead, or the minute has turned once   *)
(* and the blocks are those of its end and of the beginning of the next.   *)
Follows(e, n) ==
    /\ e.k > 0 /\ e.minute =< minute /\ e.epoch =< epoch
    /\ e.epoch = epoch /\ e.minute = minute => e.k =< kin /\ kin =< e.k + n
    /\ e.epoch = epoch /\ e.minute # minute =>
        /\ e.minute + 1 = minute
        /\ kin =< n
        /\ kin + (Size - 1 - WrapSlack) =< e.k + n

Signals ==
    /\ Len(framesQ) =< MaxLag
    /\ \A i \in DOMAIN framesQ : Follows(framesQ[i], Len(framesQ) - i)
    /\ \A i, j \in DOMAIN framesQ : i < j => framesQ[i].minute =< framesQ[j].minute
    /\ Handling =>
        /\ Follows(event, Len(framesQ))
        /\ \A i \in DOMAIN framesQ : event.minute =< framesQ[i].minute

(* Before position k a minute's audio is in the ring, from where the ring  *)
(* was moved to, except what was cleared too soon.                         *)
Holds(k, m) ==
    \A i \in Slot : i < k /\ (floor.minute < m \/ i >= floor.kin) =>
        \/ d2[i] = m
        \/ i \in overrun
        \/ m < minute /\ i < kin

Contents ==
    /\ floor.minute =< minute
    /\ Holds(kin, minute)
    /\ \A i \in DOMAIN framesQ :
        framesQ[i].epoch = epoch => Holds(framesQ[i].k, framesQ[i].minute)
    /\ Handling /\ event.epoch = epoch => Holds(event.k, event.minute)

(* A range that does not wrap ends where its signal was, or before, and    *)
(* begins at most a cycle before it.                                       *)
Precedes(r, s) ==
    ~Wraps(r) => r.start + r.sz =< r.cause.k /\ r.cause.k =< r.start + CycleFrames[s]

RangesPrecede ==
    \A s \in Submodes : Precedes(m_decoderQueue[s], s) /\ Precedes(params.ranges[s], s)

Intact ==
    \A s \in m_data.nsubmodes :
        LET r == m_data.ranges[s]
            recorded == {i \in InRange(r) :
                            floor.minute < r.cause.minute \/ i >= floor.kin}
        IN  r.cause = m_data.cause /\ r.cause.epoch = epoch /\ ~Wraps(r) =>
                \A i \in recorded \ m_data.lost : m_data.d2[i] = r.cause.minute

Snapshot == m_data.cause.epoch =< epoch /\ Intact

RingInv == Signals /\ Contents /\ RangesPrecede /\ Snapshot

-----------------------------------------------------------------------------
(* The types that the proofs below take from TypeOK.                       *)
LEMMA RingTypes ==
    ASSUME TypeOK
    PROVE  /\ Size \in Nat /\ Size > 1 /\ MaxLag \in Nat /\ WrapSlack \in Nat
           /\ kin \in Slot /\ kin \in Nat /\ minute \in Nat /\ epoch \in Nat
           /\ floor \in [minute : Nat, kin : Slot]
           /\ d2 \in [Slot -> Nat] /\ overrun \in SUBSET Slot
           /\ framesQ \in Seq(Event) /\ event \in Event
           /\ m_data \in Job
           /\ \A e \in Event : e.k \in Slot /\ e.k \in Nat /\ e.minute \in Nat /\ e.epoch \in Nat
           /\ \A i \in Slot : i \in Nat
<1>1. Size \in Nat /\ Size > 1 /\ MaxLag \in Nat /\ WrapSlack \in Nat
    BY SizeAssumption, BoundAssumption
<1>2. \A i \in Slot : i \in Nat
    BY <1>1 DEF Slot
<1>3. \A e \in Event : e.k \in Slot /\ e.k \in Nat /\ e.minute \in Nat /\ e.epoch \in Nat
    BY <1>2 DEF Event
<1>4. /\ kin \in Slot /\ d2 \in [Slot -> Nat] /\ framesQ \in Seq(Event)
      /\ minute \in Nat /\ epoch \in Nat /\ floor \in [minute : Nat, kin : Slot]
      /\ overrun \in SUBSET Slot /\ event \in Event /\ m_data \in Job
    BY DEF TypeOK, RingType, SinkType, HistoryType, WorkerType
<1>. QED
    BY <1>1, <1>2, <1>3, <1>4

LEMMA QueuedSignals ==
    ASSUME TypeOK
    PROVE  /\ Len(framesQ) \in Nat
           /\ DOMAIN framesQ = 1 .. Len(framesQ)
           /\ \A i \in DOMAIN framesQ : framesQ[i] \in Event
BY RingTypes

(* Some cycle is a block at least.                                         *)
LEMMA LagIsShort ==
    ASSUME TypeOK, KeepsUp
    PROVE  MaxLag + WrapSlack + 1 < Size
<1>1. m_nSubMode \in Submodes
    BY DEF TypeOK, OptionType
<1>2. CycleFrames[m_nSubMode] \in Nat /\ CycleFrames[m_nSubMode] > 0
    BY <1>1, SubmodeAssumption
<1>3. CycleFrames[m_nSubMode] + MaxLag + WrapSlack < Size
    BY <1>1 DEF KeepsUp
<1>. QED
    BY <1>2, <1>3, RingTypes

-----------------------------------------------------------------------------
(* Steps that leave the ring and the signals alone, or move the ring.      *)
LEMMA KeptRing ==
    ASSUME Signals, Contents, Handling' => Handling,
           UNCHANGED <<d2, kin, framesQ, event, minute, floor, epoch, overrun>>
    PROVE  Signals' /\ Contents'
<1>1. \A e, n : Follows(e, n)' <=> Follows(e, n)
    BY DEF Follows
<1>2. \A k, m : Holds(k, m)' <=> Holds(k, m)
    BY DEF Holds
<1>3. Signals'
    BY <1>1 DEF Signals, Follows
<1>4. Contents'
    BY <1>2 DEF Contents, Holds
<1>. QED
    BY <1>3, <1>4

LEMMA KeptRanges ==
    ASSUME RangesPrecede, UNCHANGED <<m_decoderQueue, params>>
    PROVE  RangesPrecede'
BY DEF RangesPrecede, Precedes, Wraps

LEMMA KeptSnapshot ==
    ASSUME Snapshot, UNCHANGED <<m_data, floor, epoch>>
    PROVE  Snapshot'
BY DEF Snapshot, Intact, InRange, Wraps

LEMMA MovedRing ==
    ASSUME TypeOK, Signals, Snapshot,
           minute' \in Nat, minute' >= minute, epoch' = epoch + 1, kin' \in Slot,
           floor' = [minute |-> minute', kin |-> kin'],
           UNCHANGED <<framesQ, event, guiPc, m_data>>
    PROVE  Signals' /\ Contents' /\ Snapshot'
<1>1. ASSUME NEW e \in Event, NEW n, Follows(e, n) PROVE Follows(e, n)' /\ e.epoch # epoch'
    <2>1. e.minute \in Nat /\ e.epoch \in Nat /\ minute \in Nat /\ epoch \in Nat
        BY RingTypes
    <2>2. e.k > 0 /\ e.minute =< minute /\ e.epoch =< epoch
        BY <1>1 DEF Follows
    <2>3. e.minute =< minute' /\ e.epoch =< epoch' /\ e.epoch # epoch'
        BY <2>1, <2>2
    <2>. QED
        BY <2>2, <2>3 DEF Follows
<1>2. Signals'
    <2>1. Handling' => Follows(event, Len(framesQ))'
        BY <1>1, RingTypes DEF Signals, Handling
    <2>2. \A i \in DOMAIN framesQ : Follows(framesQ[i], Len(framesQ) - i)'
        BY <1>1, QueuedSignals DEF Signals
    <2>. QED
        BY <2>1, <2>2 DEF Signals, Handling
<1>3. Contents'
    <2>1. Holds(kin, minute)'
        BY RingTypes DEF Holds, Slot
    <2>2. \A i \in DOMAIN framesQ : framesQ[i].epoch # epoch'
        BY <1>1, QueuedSignals DEF Signals
    <2>3. Handling => event.epoch # epoch'
        BY <1>1, RingTypes DEF Signals
    <2>4. floor'.minute =< minute'
        OBVIOUS
    <2>. QED
        BY <2>1, <2>2, <2>3, <2>4 DEF Contents, Handling
<1>4. Snapshot'
    <2>1. m_data.cause \in Event
        BY RingTypes DEF Job
    <2>2. m_data.cause.epoch =< epoch' /\ m_data.cause.epoch # epoch'
        BY <2>1, RingTypes DEF Snapshot
    <2>. QED
        BY <2>2 DEF Snapshot, Intact
<1>. QED
    BY <1>2, <1>3, <1>4

-----------------------------------------------------------------------------
(* The audio thread writes.                                                *)

(* What a block that is stored, or none, does to the ring; a minute turns  *)
(* only where it ends.                                                     *)
Stores(pos, now, end) ==
    \/ end = pos + 1 /\ d2' = [d2 EXCEPT ![pos] = now] /\ overrun' = overrun \ {pos}
    \/ end = pos /\ UNCHANGED <<d2, overrun>>

LEMMA WriteDataStores ==
    ASSUME TypeOK, NEW wrapped \in BOOLEAN, NEW complete \in BOOLEAN,
           WriteData(wrapped, complete)
    PROVE  LET pos == IF wrapped THEN 0 ELSE kin
               now == IF wrapped THEN minute + 1 ELSE minute
           IN  /\ pos \in Slot /\ now \in Nat /\ kin' \in Slot
               /\ minute' = now
               /\ Stores(pos, now, kin')
               /\ wrapped => kin >= Size - 1 - WrapSlack
               /\ IF complete
                  THEN /\ Len(framesQ) < MaxLag
                       /\ framesQ' = Append(framesQ, [k |-> kin', minute |-> now,
                                                      epoch |-> epoch])
                       /\ kin' > 0
                  ELSE framesQ' = framesQ /\ kin' = pos
               /\ UNCHANGED <<floor, epoch, event, guiPc, m_data, m_decoderQueue, params>>
<1> DEFINE pos == IF wrapped THEN 0 ELSE kin
           now == IF wrapped THEN minute + 1 ELSE minute
           end == IF complete /\ HasRoom(pos) THEN pos + 1 ELSE pos
<1>1. pos \in Slot /\ now \in Nat
    BY RingTypes DEF Slot
<1>2. /\ minute' = now /\ kin' = end
      /\ d2' = IF complete /\ HasRoom(pos) THEN [d2 EXCEPT ![pos] = now] ELSE d2
      /\ overrun' = IF complete /\ HasRoom(pos) THEN overrun \ {pos} ELSE overrun
      /\ framesQ' = IF complete
                    THEN Append(framesQ, [k |-> end, minute |-> now, epoch |-> epoch])
                    ELSE framesQ
      /\ complete => Len(framesQ) < MaxLag
      /\ wrapped => kin >= Size - 1 - WrapSlack
    BY DEF WriteData, MinuteMayWrap
<1>3. UNCHANGED <<floor, epoch, event, guiPc, m_data, m_decoderQueue, params>>
    BY DEF WriteData, sinkVars, workerVars, queueVars, jobVars
<1> HIDE DEF pos, now
<1>4. end \in Slot /\ (complete => end > 0)
    BY <1>1, RingTypes DEF HasRoom, Slot
<1>5. Stores(pos, now, kin')
    BY <1>2 DEF Stores
<1>. QED
    BY <1>1, <1>2, <1>3, <1>4, <1>5 DEF pos, now

(* A signal is followed by one block more, or by none.                     *)
LEMMA StillFollows ==
    ASSUME TypeOK, KeepsUp, NEW e \in Event, NEW n \in Nat, n =< MaxLag, Follows(e, n),
           NEW wrapped \in BOOLEAN, NEW pos, NEW more \in {0, 1},
           pos = IF wrapped THEN 0 ELSE kin,
           minute' = IF wrapped THEN minute + 1 ELSE minute,
           kin' \in Nat, kin' = pos \/ (more = 1 /\ kin' = pos + 1),
           wrapped => kin >= Size - 1 - WrapSlack,
           epoch' = epoch
    PROVE  Follows(e, n + more)'
<1> DEFINE last == Size - 1 - WrapSlack
<1>1. /\ e.k \in Nat /\ e.minute \in Nat /\ e.epoch \in Nat
      /\ kin \in Nat /\ minute \in Nat /\ epoch \in Nat /\ last \in Int /\ more \in Nat
    BY RingTypes
<1>2. MaxLag \in Nat /\ MaxLag < last
    BY LagIsShort, RingTypes
<1>3. /\ e.k > 0 /\ e.minute =< minute /\ e.epoch =< epoch
      /\ e.epoch = epoch /\ e.minute = minute => e.k =< kin /\ kin =< e.k + n
      /\ e.epoch = epoch /\ e.minute # minute =>
            e.minute + 1 = minute /\ kin =< n /\ kin + last =< e.k + n
    BY DEF Follows
<1> HIDE DEF last
<1>4. CASE ~wrapped
    <2>1. minute' = minute /\ kin =< kin' /\ kin' =< kin + more
        BY <1>1, <1>4
    <2>. QED
        BY <1>1, <1>3, <2>1 DEF Follows, last
<1>5. CASE wrapped
    <2>1. minute' = minute + 1 /\ kin' =< more /\ kin >= last
        BY <1>1, <1>5 DEF last
    <2>2. e.epoch = epoch => e.minute = minute
        BY <1>1, <1>2, <1>3, <2>1
    <2>3. e.epoch = epoch => e.minute # minute' /\ e.minute + 1 = minute'
                             /\ kin' =< n + more /\ kin' + last =< e.k + (n + more)
        BY <1>1, <1>3, <2>1, <2>2
    <2>4. e.minute =< minute'
        BY <1>1, <1>3, <2>1
    <2>. QED
        BY <1>3, <2>3, <2>4 DEF Follows, last
<1>. QED
    BY <1>4, <1>5

(* What the ring holds of a signal's minute it still holds, or the next    *)
(* minute's audio has taken its place.                                     *)
LEMMA StillHolds ==
    ASSUME TypeOK, NEW wrapped \in BOOLEAN, NEW k \in Nat, NEW m \in Nat, Holds(k, m),
           m =< minute, m # minute => ~wrapped,
           NEW pos \in Slot, pos = IF wrapped THEN 0 ELSE kin,
           minute' = IF wrapped THEN minute + 1 ELSE minute,
           kin' \in Slot, Stores(pos, minute', kin'), UNCHANGED floor
    PROVE  Holds(k, m)'
<1> SUFFICES ASSUME NEW i \in Slot, i < k, floor.minute < m \/ i >= floor.kin
             PROVE  d2'[i] = m \/ i \in overrun' \/ (m < minute' /\ i < kin')
    BY DEF Holds
<1>1. d2[i] = m \/ i \in overrun \/ (m < minute /\ i < kin)
    BY DEF Holds
<1>2. CASE i = pos /\ kin' = pos + 1
    BY <1>2, RingTypes DEF Stores
<1>3. CASE ~(i = pos /\ kin' = pos + 1)
    <2>1. d2'[i] = d2[i] /\ (i \in overrun => i \in overrun')
        <3>1. CASE kin' = pos + 1
            BY <1>3, <3>1, RingTypes DEF Stores, Slot
        <3>2. CASE kin' # pos + 1
            BY <3>2 DEF Stores
        <3>. QED
            BY <3>1, <3>2
    <2>2. m < minute /\ i < kin => m < minute' /\ i < kin'
        BY RingTypes DEF Stores, Slot
    <2>. QED
        BY <1>1, <2>1, <2>2
<1>. QED
    BY <1>2, <1>3

(* The minute that is being recorded is in the ring up to the position.    *)
LEMMA RecordingHolds ==
    ASSUME TypeOK, Contents, NEW wrapped \in BOOLEAN,
           NEW pos \in Slot, pos = IF wrapped THEN 0 ELSE kin,
           minute' = IF wrapped THEN minute + 1 ELSE minute,
           kin' \in Slot, Stores(pos, minute', kin'), UNCHANGED floor
    PROVE  Holds(kin, minute)'
<1> SUFFICES ASSUME NEW i \in Slot, i < kin', floor.minute < minute' \/ i >= floor.kin
             PROVE  d2'[i] = minute' \/ i \in overrun'
    BY DEF Holds
<1>1. kin' = pos + 1 \/ kin' = pos
    BY DEF Stores
<1>2. CASE i = pos
    BY <1>1, <1>2, RingTypes DEF Stores, Slot
<1>3. CASE i # pos
    <2>1. ~wrapped /\ i < kin
        BY <1>1, <1>3, RingTypes DEF Slot
    <2>2. d2[i] = minute \/ i \in overrun
        BY <2>1, RingTypes DEF Contents, Holds
    <2>3. d2'[i] = d2[i] /\ (i \in overrun => i \in overrun')
        <3>1. CASE kin' = pos + 1
            BY <1>3, <3>1, RingTypes DEF Stores, Slot
        <3>2. CASE kin' # pos + 1
            BY <3>2 DEF Stores
        <3>. QED
            BY <3>1, <3>2
    <2>. QED
        BY <2>1, <2>2, <2>3
<1>. QED
    BY <1>2, <1>3

LEMMA WriteDataRing ==
    ASSUME TypeOK, KeepsUp, Signals, Contents, Snapshot,
           NEW wrapped \in BOOLEAN, NEW complete \in BOOLEAN, WriteData(wrapped, complete)
    PROVE  Signals' /\ Contents' /\ Snapshot'
<1> DEFINE pos == IF wrapped THEN 0 ELSE kin
           now == IF wrapped THEN minute + 1 ELSE minute
           more == IF complete THEN 1 ELSE 0
<1>1. /\ pos \in Slot /\ now \in Nat /\ kin' \in Slot /\ kin' \in Nat
      /\ minute' = now
      /\ Stores(pos, now, kin')
      /\ wrapped => kin >= Size - 1 - WrapSlack
      /\ UNCHANGED <<floor, epoch, event, guiPc, m_data>>
      /\ kin' = pos \/ (complete /\ kin' = pos + 1)
    BY WriteDataStores, RingTypes DEF Stores
<1>15. event' = event /\ event \in Event
    BY WriteDataStores, RingTypes
<1>16. PICK new \in Event : new = [k |-> kin', minute |-> now, epoch |-> epoch]
    BY <1>1, RingTypes DEF Event
<1>17. new.k = kin' /\ new.minute = minute' /\ new.epoch = epoch'
    BY <1>1, <1>16
<1>2. IF complete THEN /\ Len(framesQ) < MaxLag
                       /\ framesQ' = Append(framesQ, new)
                       /\ kin' > 0
                  ELSE framesQ' = framesQ
    BY <1>16, WriteDataStores
<1>3. /\ DOMAIN framesQ = 1 .. Len(framesQ) /\ Len(framesQ) \in Nat /\ Len(framesQ) =< MaxLag
      /\ \A i \in DOMAIN framesQ : framesQ[i] \in Event
    BY QueuedSignals DEF Signals
<1>4. minute =< minute' /\ epoch' = epoch /\ minute' \in Nat /\ minute \in Nat
    BY <1>1, RingTypes
<1>5. more \in {0, 1} /\ Len(framesQ') = Len(framesQ) + more /\ Len(framesQ') =< MaxLag
    BY <1>2, <1>3, RingTypes
<1>18. \E n \in Nat : n = Len(framesQ) /\ n =< Len(framesQ) /\ n + more = Len(framesQ')
    <2>1. Len(framesQ) \in Nat
        BY QueuedSignals
    <2>. QED
        BY <1>5, <2>1
<1>6. /\ DOMAIN framesQ' = 1 .. Len(framesQ')
      /\ \A i \in DOMAIN framesQ : i \in DOMAIN framesQ' /\ framesQ'[i] = framesQ[i]
      /\ \A i \in DOMAIN framesQ' :
            \/ i \in DOMAIN framesQ
            \/ complete /\ i = Len(framesQ') /\ framesQ'[i] = new
    <2>1. CASE complete
        <3>2. /\ Len(Append(framesQ, new)) = Len(framesQ) + 1
              /\ DOMAIN Append(framesQ, new) = 1 .. Len(framesQ) + 1
              /\ \A i \in 1 .. Len(framesQ) : Append(framesQ, new)[i] = framesQ[i]
              /\ Append(framesQ, new)[Len(framesQ) + 1] = new
            BY RingTypes
        <3>3. framesQ' = Append(framesQ, new)
            BY <1>2, <2>1
        <3>4. /\ DOMAIN framesQ' = 1 .. Len(framesQ) + 1 /\ Len(framesQ') = Len(framesQ) + 1
              /\ \A i \in DOMAIN framesQ : framesQ'[i] = framesQ[i]
              /\ framesQ'[Len(framesQ) + 1] = new
            BY <1>3, <3>2, <3>3
        <3>. QED
            BY <1>3, <2>1, <3>4
    <2>2. CASE ~complete
        <3>1. framesQ' = framesQ
            BY <1>2, <2>2
        <3>. QED
            BY <1>3, <3>1
    <2>. QED
        BY <2>1, <2>2
<1>7. ASSUME NEW e \in Event, NEW n \in Nat, n =< Len(framesQ), Follows(e, n)
      PROVE  Follows(e, n + more)'
    <2>1. n =< MaxLag
        BY <1>3, <1>7, RingTypes
    <2>2. kin' = pos \/ (more = 1 /\ kin' = pos + 1)
        BY <1>1
    <2> HIDE DEF more
    <2>. QED
        BY <1>1, <1>5, <1>7, <2>1, <2>2, StillFollows
<1>8. complete => Follows(new, 0)'
    <2>1. kin' \in Nat /\ minute' \in Nat /\ epoch' \in Nat
        BY <1>1, <1>4, RingTypes
    <2>2. ASSUME complete PROVE kin' > 0
        BY <1>2, <2>2
    <2>3. \A x \in Nat : x =< x /\ x =< x + 0
        OBVIOUS
    <2>4. /\ new.k =< kin' /\ kin' =< new.k + 0
          /\ new.minute =< minute' /\ new.epoch =< epoch'
        BY <1>17, <2>1, <2>3
    <2>5. complete => new.k > 0
        BY <1>17, <2>2
    <2>. QED
        BY <1>17, <2>4, <2>5 DEF Follows
<1>9. ASSUME NEW e \in Event, NEW n \in Nat, n =< Len(framesQ), Follows(e, n),
             e.epoch = epoch, Holds(e.k, e.minute)
      PROVE  Holds(e.k, e.minute)'
    <2>1. e.k \in Nat /\ e.minute \in Nat /\ e.minute =< minute
        BY <1>9, RingTypes DEF Follows
    <2>2. e.minute # minute => ~wrapped
        <3>1. e.minute # minute => kin =< n
            BY <1>9 DEF Follows
        <3>. QED
            BY <1>1, <1>3, <1>9, <3>1, LagIsShort, RingTypes
    <2>. QED
        BY <1>1, <1>9, <2>1, <2>2, StillHolds
<1>10. Holds(kin, minute)'
    BY <1>1, RecordingHolds
<1>11. \A i \in DOMAIN framesQ : framesQ[i].minute =< minute
    BY <1>3 DEF Signals, Follows
<1>12. Signals'
    <2>1. ASSUME NEW i \in DOMAIN framesQ'
          PROVE  Follows(framesQ[i], Len(framesQ) - i)'
        <3>1. CASE i \in DOMAIN framesQ
            <4>1. PICK e \in Event : e = framesQ[i] /\ e = framesQ'[i]
                BY <1>3, <1>6, <3>1
            <4>2. PICK n \in Nat : /\ n = Len(framesQ) - i /\ n =< Len(framesQ)
                                   /\ n + more = Len(framesQ') - i
                BY <1>3, <1>5, <3>1
            <4>3. Follows(e, n)
                BY <3>1, <4>1, <4>2 DEF Signals
            <4>4. Follows(e, n + more)'
                BY <1>7, <4>2, <4>3
            <4>. QED
                BY <4>1, <4>2, <4>4 DEF Follows
        <3>2. CASE complete /\ i = Len(framesQ') /\ framesQ'[i] = new
            <4>1. Len(framesQ') - i = 0
                BY <1>3, <1>5, <3>2
            <4>2. Follows(new, 0)'
                BY <1>8, <3>2
            <4>. QED
                BY <3>2, <4>1, <4>2 DEF Follows
        <3>. QED
            BY <1>6, <3>1, <3>2
    <2>2. ASSUME NEW i \in DOMAIN framesQ', NEW j \in DOMAIN framesQ', i < j
          PROVE  framesQ'[i].minute =< framesQ'[j].minute
        <3>1. i \in DOMAIN framesQ /\ i \in Nat
            BY <1>3, <1>5, <1>6, <2>2
        <3>2. CASE j \in DOMAIN framesQ
            BY <1>6, <2>2, <3>1, <3>2 DEF Signals
        <3>3. CASE framesQ'[j] = new
            <4>1. framesQ[i].minute \in Nat /\ framesQ[i].minute =< minute
                BY <1>3, <1>11, <3>1, RingTypes
            <4>. QED
                BY <1>4, <1>6, <1>17, <3>1, <3>3, <4>1
        <3>. QED
            BY <1>6, <3>2, <3>3
    <2>3. ASSUME Handling
          PROVE  /\ Follows(event, Len(framesQ))'
                 /\ \A i \in DOMAIN framesQ' : event.minute =< framesQ'[i].minute
        <3>1. PICK e \in Event : e = event /\ e = event'
            BY <1>15
        <3>2. PICK n \in Nat : n = Len(framesQ) /\ n =< Len(framesQ) /\ n + more = Len(framesQ')
            BY <1>18
        <3>5. Follows(e, n)
            BY <2>3, <3>1, <3>2 DEF Signals
        <3>6. Follows(e, n + more)'
            BY <1>7, <3>2, <3>5
        <3>3. event.minute \in Nat /\ event.minute =< minute
            BY <3>1, <3>5, RingTypes DEF Follows
        <3>4. ASSUME NEW i \in DOMAIN framesQ' PROVE event.minute =< framesQ'[i].minute
            <4>1. CASE i \in DOMAIN framesQ
                BY <1>6, <2>3, <4>1 DEF Signals
            <4>2. CASE framesQ'[i] = new
                BY <1>4, <1>17, <3>3, <4>2
            <4>. QED
                BY <1>6, <4>1, <4>2
        <3>. QED
            BY <3>1, <3>2, <3>4, <3>6 DEF Follows
    <2>. QED
        BY <1>1, <1>5, <2>1, <2>2, <2>3 DEF Signals, Handling
<1>13. Contents'
    <2>1. ASSUME NEW i \in DOMAIN framesQ', framesQ'[i].epoch = epoch
          PROVE  Holds(framesQ[i].k, framesQ[i].minute)'
        <3>1. CASE i \in DOMAIN framesQ
            <4>1. PICK e \in Event : e = framesQ[i] /\ e = framesQ'[i]
                BY <1>3, <1>6, <3>1
            <4>2. PICK n \in Nat : n = Len(framesQ) - i /\ n =< Len(framesQ)
                BY <1>3, <3>1
            <4>3. Follows(e, n) /\ e.epoch = epoch /\ Holds(e.k, e.minute)
                BY <2>1, <3>1, <4>1, <4>2 DEF Signals, Contents
            <4>4. Holds(e.k, e.minute)'
                BY <1>9, <4>2, <4>3
            <4>. QED
                BY <4>1, <4>4 DEF Holds
        <3>2. CASE framesQ'[i] = new
            <4>1. framesQ'[i].k = kin' /\ framesQ'[i].minute = minute'
                BY <1>17, <3>2
            <4>. QED
                BY <1>10, <4>1 DEF Holds
        <3>. QED
            BY <1>6, <3>1, <3>2
    <2>2. ASSUME Handling, event.epoch = epoch
          PROVE  Holds(event.k, event.minute)'
        <3>1. PICK e \in Event : e = event /\ e = event'
            BY <1>15
        <3>2. PICK n \in Nat : n = Len(framesQ) /\ n =< Len(framesQ)
            BY <1>18
        <3>3. Follows(e, n) /\ e.epoch = epoch /\ Holds(e.k, e.minute)
            BY <2>2, <3>1, <3>2 DEF Signals, Contents
        <3>4. Holds(e.k, e.minute)'
            BY <1>9, <3>2, <3>3
        <3>. QED
            BY <3>1, <3>4 DEF Holds
    <2>3. floor'.minute =< minute'
        <3>1. floor.minute \in Nat /\ floor.minute =< minute
            BY RingTypes DEF Contents
        <3>. QED
            BY <1>1, <1>4, <3>1
    <2>. QED
        BY <1>1, <1>4, <1>10, <2>1, <2>2, <2>3 DEF Contents, Handling
<1>14. Snapshot'
    BY <1>1, KeptSnapshot
<1>. QED
    BY <1>12, <1>13, <1>14

-----------------------------------------------------------------------------
(* The GUI thread handles a signal.                                        *)

LEMMA DataSinkRing ==
    ASSUME TypeOK, Signals, Contents, DataSink
    PROVE  Signals' /\ Contents'
<1>1. /\ framesQ # << >> /\ framesQ' = Tail(framesQ) /\ event' = framesQ[1]
      /\ UNCHANGED <<d2, kin, minute, floor, epoch, overrun>>
    BY RingTypes DEF DataSink, ringHistory
<1>2. /\ Len(framesQ) \in Nat /\ Len(framesQ) > 0 /\ DOMAIN framesQ = 1 .. Len(framesQ)
      /\ 1 \in DOMAIN framesQ
    <2>1. Len(framesQ) \in Nat /\ Len(framesQ) > 0 /\ DOMAIN framesQ = 1 .. Len(framesQ)
        BY <1>1, RingTypes
    <2>. QED
        BY <2>1
<1>3. /\ Len(framesQ') = Len(framesQ) - 1
      /\ DOMAIN framesQ' = 1 .. Len(framesQ) - 1
      /\ \A i \in 1 .. Len(framesQ) - 1 : framesQ'[i] = framesQ[i + 1]
    BY <1>1, RingTypes
<1>4. \A i \in DOMAIN framesQ' :
            /\ i \in Nat /\ i + 1 \in DOMAIN framesQ /\ framesQ'[i] = framesQ[i + 1]
            /\ Len(framesQ') - i = Len(framesQ) - (i + 1)
    BY <1>2, <1>3
<1>5. \A e, n : (Follows(e, n)' <=> Follows(e, n)) /\ (Holds(e, n)' <=> Holds(e, n))
    BY <1>1 DEF Follows, Holds
<1>6. Signals'
    <2>1. Len(framesQ') =< MaxLag
        BY <1>2, <1>3, RingTypes DEF Signals
    <2>2. ASSUME NEW i \in DOMAIN framesQ'
          PROVE  Follows(framesQ[i], Len(framesQ) - i)'
        <3>1. Follows(framesQ[i + 1], Len(framesQ) - (i + 1))
            BY <1>4, <2>2 DEF Signals
        <3>2. framesQ'[i] = framesQ[i + 1] /\ Len(framesQ') - i = Len(framesQ) - (i + 1)
            BY <1>4, <2>2
        <3>. QED
            BY <1>1, <3>1, <3>2 DEF Follows
    <2>3. ASSUME NEW i \in DOMAIN framesQ', NEW j \in DOMAIN framesQ', i < j
          PROVE  framesQ'[i].minute =< framesQ'[j].minute
        <3>1. i + 1 < j + 1
            BY <1>4, <2>3
        <3>. QED
            BY <1>4, <3>1 DEF Signals
    <2>4. Follows(event, Len(framesQ))'
        <3>1. Follows(framesQ[1], Len(framesQ) - 1)
            BY <1>2 DEF Signals
        <3>. QED
            BY <1>1, <1>3, <3>1 DEF Follows
    <2>5. ASSUME NEW i \in DOMAIN framesQ' PROVE event'.minute =< framesQ'[i].minute
        <3>1. 1 < i + 1
            BY <1>2, <1>3, <2>5
        <3>. QED
            BY <1>1, <1>2, <1>4, <3>1 DEF Signals
    <2>. QED
        BY <2>1, <2>2, <2>3, <2>4, <2>5 DEF Signals
<1>7. Contents'
    <2>1. ASSUME NEW i \in DOMAIN framesQ', framesQ'[i].epoch = epoch
          PROVE  Holds(framesQ[i].k, framesQ[i].minute)'
        <3>1. framesQ'[i] = framesQ[i + 1] /\ i + 1 \in DOMAIN framesQ
            BY <1>4, <2>1
        <3>2. Holds(framesQ[i + 1].k, framesQ[i + 1].minute)
            BY <2>1, <3>1 DEF Contents
        <3>. QED
            BY <1>1, <3>1, <3>2 DEF Holds
    <2>2. ASSUME event'.epoch = epoch PROVE Holds(event.k, event.minute)'
        <3>1. Holds(framesQ[1].k, framesQ[1].minute)
            BY <1>1, <1>2, <2>2 DEF Contents
        <3>. QED
            BY <1>1, <3>1 DEF Holds
    <2>3. Holds(kin, minute)' /\ floor'.minute =< minute'
        BY <1>1 DEF Contents, Holds
    <2>. QED
        BY <1>1, <2>1, <2>2, <2>3 DEF Contents
<1>. QED
    BY <1>6, <1>7

(* What dataSink clears is behind the signal, or recorded after it.        *)
LEMMA ClearedHolds ==
    ASSUME TypeOK, DataSinkClear, NEW k \in Nat, NEW m \in Nat, Holds(k, m),
           k =< event.k \/ event.minute =< m
    PROVE  Holds(k, m)'
<1> SUFFICES ASSUME NEW i \in Slot, i < k, floor.minute < m \/ i >= floor.kin
             PROVE  d2'[i] = m \/ i \in overrun' \/ (m < minute /\ i < kin)
    BY DEF Holds, DataSinkClear
<1>1. d2[i] = m \/ i \in overrun \/ (m < minute /\ i < kin)
    BY DEF Holds
<1>2. /\ d2'[i] = IF i >= event.k THEN Cleared ELSE d2[i]
      /\ i \in overrun' <=> i \in overrun \/ (i >= event.k /\ d2[i] >= event.minute)
    BY DEF DataSinkClear
<1>3. i \in Nat /\ event.k \in Nat /\ event.minute \in Nat
    BY RingTypes
<1>. QED
    BY <1>1, <1>2, <1>3

LEMMA DataSinkClearRing ==
    ASSUME TypeOK, Signals, Contents, DataSinkClear
    PROVE  Signals' /\ Contents'
<1>1. /\ UNCHANGED <<kin, framesQ, event, minute, floor, epoch>>
      /\ Handling /\ Handling'
    BY DEF DataSinkClear, Handling
<1>2. Signals'
    BY <1>1 DEF Signals, Follows
<1>3. /\ event.k \in Nat /\ event.minute \in Nat /\ event.minute =< minute
      /\ kin \in Nat /\ minute \in Nat /\ event.k =< event.k
    BY <1>1, RingTypes DEF Signals, Follows
<1>4. Holds(kin, minute)'
    BY <1>1, <1>3, ClearedHolds DEF Contents, Holds
<1>5. ASSUME event.epoch = epoch PROVE Holds(event.k, event.minute)'
    BY <1>1, <1>3, <1>5, ClearedHolds DEF Contents, Holds
<1>6. ASSUME NEW i \in DOMAIN framesQ, framesQ[i].epoch = epoch
      PROVE  Holds(framesQ[i].k, framesQ[i].minute)'
    <2>1. /\ framesQ[i].k \in Nat /\ framesQ[i].minute \in Nat
          /\ event.minute =< framesQ[i].minute
        BY <1>1, QueuedSignals, RingTypes DEF Signals
    <2>2. Holds(framesQ[i].k, framesQ[i].minute)
        BY <1>6 DEF Contents
    <2>. QED
        BY <1>1, <2>1, <2>2, ClearedHolds DEF Holds
<1>. QED
    BY <1>1, <1>2, <1>4, <1>5, <1>6 DEF Contents

(* A range is queued behind its signal.                                    *)
LEMMA QueuedPrecedes ==
    ASSUME NEW s \in Submodes, NEW e \in Event, e.k > 0
    PROVE  Precedes(RangeToQueue(s, e), s)
<1> DEFINE r == RangeToQueue(s, e)
           c == CycleFrames[s]
           ready == CycleFramesReady(s, e.k)
<1>1. e.k \in Slot /\ e.k \in Nat
    BY SizeAssumption DEF Event, Slot
<1>2. c \in Nat /\ c > 0 /\ CycleNeeded[s] \in Nat /\ Size \in Nat
    BY SubmodeAssumption, SizeAssumption
<1>3. /\ CycleStart(s, e.k) \in Slot /\ CycleStart(s, e.k) \in Nat
      /\ CycleStart(s, e.k) =< e.k
      /\ ready = e.k - CycleStart(s, e.k) /\ ready < c
    <2>1. /\ CycleStart(s, e.k) \in Slot /\ CycleStart(s, e.k) =< e.k
          /\ ready \in 0 .. c - 1
        BY <1>1, CycleOfPosition
    <2>2. CycleStart(s, e.k) \in Nat
        BY <2>1, SizeAssumption DEF Slot
    <2>. QED
        BY <1>1, <1>2, <2>1, <2>2 DEF CycleFramesReady
<1>4. CASE QueuesSlidingRange(s, e.k)
    <2>1. /\ r.start = IF e.k - c < 0 THEN e.k - c + Size ELSE e.k - c
          /\ r.sz = c /\ r.cause = e
        BY <1>4 DEF RangeToQueue
    <2> HIDE DEF r
    <2>2. ~Wraps(r) => r.start = e.k - c
        BY <1>1, <1>2, <2>1 DEF Wraps
    <2>. QED
        BY <1>1, <1>2, <2>1, <2>2 DEF Precedes, r
<1>5. CASE ~QueuesSlidingRange(s, e.k)
    <2>1. /\ r.start = CycleStart(s, e.k) /\ r.cause = e
          /\ r.sz = IF QueuesWholeCycle(s, e.k) THEN CycleNeeded[s] ELSE ready
        BY <1>5 DEF RangeToQueue
    <2>2. QueuesWholeCycle(s, e.k) => CycleNeeded[s] =< ready
        BY DEF QueuesWholeCycle, ReachesWholeCycle
    <2> HIDE DEF r, ready, c
    <2>. QED
        BY <1>1, <1>2, <1>3, <2>1, <2>2 DEF Precedes, r, c
<1>. QED
    BY <1>4, <1>5

-----------------------------------------------------------------------------
(* The ranges in the queue and those handed over.                          *)

LEMMA NoRangePrecedes ==
    ASSUME NEW s \in Submodes
    PROVE  Precedes(NoRange, s)
BY SizeAssumption, SubmodeAssumption DEF Precedes, NoRange, NoEvent

LEMMA RangesPrecedeStep ==
    ASSUME TypeOK, Signals, RangesPrecede, [Next]_vars
    PROVE  RangesPrecede'
<1>1. CASE Decode
    <2>1. event \in Event /\ event.k > 0
        BY <1>1, RingTypes DEF Decode, Signals, Handling, Follows
    <2>2. ASSUME NEW s \in Submodes
          PROVE  m_decoderQueue'[s] \in {RangeToQueue(s, event), m_decoderQueue[s]}
        BY <1>1 DEF Decode, DecodeEnqueueReady, queueVars, TypeOK, QueueType
    <2>3. ASSUME NEW s \in Submodes
          PROVE  Precedes(RangeToQueue(s, event), s)
        BY <2>1, QueuedPrecedes
    <2>4. UNCHANGED params
        BY <1>1 DEF Decode, jobVars
    <2>. QED
        BY <2>2, <2>3, <2>4 DEF RangesPrecede, Precedes, Wraps
<1>2. CASE DecodeProcessQueue
    <2>1. ASSUME NEW s \in Submodes
          PROVE  /\ m_decoderQueue'[s] \in {m_decoderQueue[s], NoRange}
                 /\ params'.ranges[s] \in {m_decoderQueue[s], params.ranges[s]}
        BY <1>2 DEF DecodeProcessQueue
    <2>. QED
        BY <2>1, NoRangePrecedes DEF RangesPrecede, Precedes, Wraps
<1>3. CASE UNCHANGED <<m_decoderQueue, params>>
    BY <1>3, KeptRanges
<1>4. AudioThread \/ Worker \/ Closed \/ UNCHANGED vars
        => UNCHANGED <<m_decoderQueue, params>>
    BY DEF AudioThread, WriteData, SoundInputSuspend, SoundInputResume, Worker, Closed,
           vars, queueVars, jobVars
<1>5. GuiThread => Decode \/ DecodeProcessQueue \/ UNCHANGED <<m_decoderQueue, params>>
    BY DEF GuiThread, FramesWritten, DataSink, DataSinkClear, DecodeStart, DecodeFinished,
           DecodeFinishedWithDrift, DecodeDone, OnDriftChanged, MonitorButtonClicked,
           BeginTransmit, StopTx, HoldEnds, ChangeOptions, Quit, QuitDone, queueVars, jobVars
<1>. QED
    BY <1>1, <1>2, <1>3, <1>4, <1>5 DEF Next

-----------------------------------------------------------------------------
(* The decoder gets its copy of the ring.                                  *)

(* No block of a range is overwritten before the run starts.               *)
LEMMA RangeIsAhead ==
    ASSUME TypeOK, KeepsUp, Signals, Handling, event.epoch = epoch, event.minute # minute,
           NEW s \in Submodes, NEW i \in Nat, event.k =< i + CycleFrames[s]
    PROVE  kin =< i
<1>1. CycleFrames[s] \in Nat /\ CycleFrames[s] + MaxLag + WrapSlack < Size
    BY SubmodeAssumption DEF KeepsUp
<1>2. Len(framesQ) \in Nat /\ Len(framesQ) =< MaxLag
    BY QueuedSignals DEF Signals
<1>3. kin + (Size - 1 - WrapSlack) =< event.k + Len(framesQ)
    BY DEF Signals, Follows
<1>4. event.k \in Nat /\ kin \in Nat /\ Size \in Nat /\ MaxLag \in Nat /\ WrapSlack \in Nat
    BY RingTypes
<1>. QED
    BY <1>1, <1>2, <1>3, <1>4

LEMMA DecodeStartSnapshot ==
    ASSUME TypeOK, KeepsUp, Signals, Contents, RangesPrecede, Snapshot, DecodeStart
    PROVE  Snapshot'
<1>1. UNCHANGED <<floor, epoch>> /\ Handling
    BY DEF DecodeStart, ringHistory, Handling
<1>2. CASE m_decoderBusy
    BY <1>1, <1>2, KeptSnapshot DEF DecodeStart
<1>3. CASE ~m_decoderBusy
    <2>1. m_data' = [d2 |-> d2, ranges |-> params.ranges, nsubmodes |-> params.nsubmodes,
                     cause |-> event, lost |-> overrun]
        BY <1>3 DEF DecodeStart
    <2>2. m_data'.cause.epoch =< epoch
        BY <1>1, <2>1 DEF Signals, Follows
    <2>3. ASSUME NEW s \in params.nsubmodes, NEW i \in Slot, i \in InRange(params.ranges[s]),
                 floor.minute < event.minute \/ i >= floor.kin, i \notin overrun,
                 params.ranges[s].cause = event, event.epoch = epoch,
                 ~Wraps(params.ranges[s])
          PROVE  d2[i] = event.minute
        <3> DEFINE r == params.ranges[s]
        <3>1. s \in Submodes /\ r \in Range
            BY DEF TypeOK, JobType, Params
        <3>2. /\ r.start \in Nat /\ r.sz \in Nat /\ i \in Nat /\ event.k \in Nat
              /\ CycleFrames[s] \in Nat
            BY <3>1, RingTypes, SubmodeAssumption DEF Range
        <3>3. r.start + r.sz =< event.k /\ event.k =< r.start + CycleFrames[s]
            BY <2>3, <3>1 DEF RangesPrecede, Precedes
        <3>4. r.start =< i /\ i < r.start + r.sz
            <4>1. ~(r.start + r.sz > Size)
                BY <2>3 DEF Wraps
            <4>3. Size \in Nat
                BY RingTypes
            <4>2. IF i >= r.start THEN i < r.start + r.sz ELSE i + Size < r.start + r.sz
                BY <2>3 DEF InRange
            <4> HIDE DEF r
            <4>. QED
                BY <3>2, <4>1, <4>2, <4>3
        <3> HIDE DEF r
        <3>5. i < event.k /\ event.k =< i + CycleFrames[s]
            BY <3>2, <3>3, <3>4
        <3>6. Holds(event.k, event.minute)
            BY <1>1, <2>3 DEF Contents
        <3>7. d2[i] = event.minute \/ (event.minute < minute /\ i < kin)
            BY <2>3, <3>5, <3>6 DEF Holds
        <3>8. event.minute < minute => kin =< i
            <4>1. event.minute \in Nat /\ minute \in Nat
                BY RingTypes
            <4>2. event.minute < minute => event.minute # minute
                BY <4>1
            <4>. QED
                BY <1>1, <2>3, <3>1, <3>2, <3>5, <4>2, RangeIsAhead
        <3>. QED
            BY <3>2, <3>7, <3>8, RingTypes
    <2>4. Intact'
        <3> SUFFICES ASSUME NEW s \in m_data'.nsubmodes,
                            m_data'.ranges[s].cause = m_data'.cause,
                            m_data'.ranges[s].cause.epoch = epoch',
                            ~Wraps(m_data'.ranges[s]),
                            NEW i \in InRange(m_data'.ranges[s]),
                            \/ floor'.minute < m_data'.ranges[s].cause.minute
                            \/ i >= floor'.kin,
                            i \notin m_data'.lost
                     PROVE  m_data'.d2[i] = m_data'.ranges[s].cause.minute
            BY DEF Intact, InRange, Wraps
        <3>1. i \in Slot
            BY DEF InRange
        <3>2. /\ m_data'.ranges = params.ranges /\ m_data'.nsubmodes = params.nsubmodes
              /\ m_data'.cause = event /\ m_data'.lost = overrun /\ m_data'.d2 = d2
            BY <2>1
        <3>. QED
            BY <1>1, <2>3, <3>1, <3>2
    <2>. QED
        BY <1>1, <2>2, <2>4 DEF Snapshot
<1>. QED
    BY <1>2, <1>3

-----------------------------------------------------------------------------
LEMMA RingStep ==
    ASSUME TypeOK, KeepsUp, RingInv, [Next]_vars
    PROVE  RingInv'
<1>1. Signals /\ Contents /\ RangesPrecede /\ Snapshot
    BY DEF RingInv
<1>2. RangesPrecede'
    BY <1>1, RangesPrecedeStep
<1>3. ASSUME UNCHANGED <<d2, kin, framesQ, event, minute, floor, epoch, overrun, m_data>>,
             Handling' => Handling
      PROVE  RingInv'
    BY <1>1, <1>2, <1>3, KeptRing, KeptSnapshot DEF RingInv
<1>4. ASSUME NEW wrapped \in BOOLEAN, NEW complete \in BOOLEAN, WriteData(wrapped, complete)
      PROVE  RingInv'
    BY <1>1, <1>2, <1>4, WriteDataRing DEF RingInv
<1>5. ASSUME NEW pos \in Positions, NEW now \in minute .. minute + 1,
             SoundInputResume(pos, now)
      PROVE  RingInv'
    <2>1. pos \in Slot /\ now \in Nat /\ now >= minute
        BY BoundAssumption, RingTypes DEF Slot
    <2>2. /\ minute' = now /\ kin' = pos /\ epoch' = epoch + 1
          /\ floor' = [minute |-> now, kin |-> pos]
          /\ UNCHANGED <<framesQ, event, guiPc, m_data>>
        BY <1>5 DEF SoundInputResume, sinkVars, workerVars
    <2>. QED
        BY <1>1, <1>2, <2>1, <2>2, MovedRing DEF RingInv
<1>6. ASSUME NEW pos \in Positions, DriftTo(pos),
             UNCHANGED <<framesQ, event, guiPc, m_data, minute>>
      PROVE  RingInv'
    <2>1. pos \in Slot /\ minute' \in Nat /\ minute' >= minute
        BY <1>6, BoundAssumption, RingTypes DEF Slot
    <2>2. /\ kin' = pos /\ epoch' = epoch + 1
          /\ floor' = [minute |-> minute', kin |-> pos]
        BY <1>6 DEF DriftTo, ResetBufferPosition
    <2>. QED
        BY <1>1, <1>2, <1>6, <2>1, <2>2, MovedRing DEF RingInv
<1>7. CASE DataSink
    BY <1>1, <1>2, <1>7, DataSinkRing, KeptSnapshot
    DEF RingInv, DataSink, ringHistory, workerVars
<1>8. CASE DataSinkClear
    BY <1>1, <1>2, <1>8, DataSinkClearRing, KeptSnapshot
    DEF RingInv, DataSinkClear, workerVars
<1>9. CASE DecodeStart
    <2>1. UNCHANGED <<d2, kin, framesQ, event, minute, floor, epoch, overrun>>
          /\ ~Handling'
        BY <1>9 DEF DecodeStart, audioVars, ringHistory, Handling
    <2>. QED
        BY <1>1, <1>2, <1>9, <2>1, KeptRing, DecodeStartSnapshot DEF RingInv
<1>10. AudioThread =>
          \/ \E wrapped, complete \in BOOLEAN : WriteData(wrapped, complete)
          \/ \E pos \in Positions, now \in minute .. minute + 1 : SoundInputResume(pos, now)
          \/ UNCHANGED <<d2, kin, framesQ, event, minute, floor, epoch, overrun, m_data, guiPc>>
    BY DEF AudioThread, SoundInputSuspend, sinkVars, ringHistory, workerVars
<1>11. GuiThread =>
          \/ DataSink \/ DataSinkClear \/ DecodeStart
          \/ \E pos \in Positions :
                DriftTo(pos) /\ UNCHANGED <<framesQ, event, guiPc, m_data, minute>>
          \/ /\ UNCHANGED <<d2, kin, framesQ, event, minute, floor, epoch, overrun, m_data>>
             /\ Handling' => Handling
    <2>1. Decode \/ DecodeProcessQueue \/ Quit \/ QuitDone =>
             /\ UNCHANGED <<d2, kin, framesQ, event, minute, floor, epoch, overrun, m_data>>
             /\ Handling' => Handling
        BY DEF Decode, DecodeProcessQueue, Quit, QuitDone, audioVars, ringHistory, workerVars,
               Handling
    <2>2. DecodeFinished \/ MonitorButtonClicked \/ BeginTransmit \/ StopTx \/ HoldEnds
            \/ ChangeOptions
          => UNCHANGED <<d2, kin, framesQ, event, minute, floor, epoch, overrun, m_data, guiPc>>
        BY DEF DecodeFinished, DecodeDone, MonitorButtonClicked, BeginTransmit, StopTx,
               HoldEnds, ChangeOptions, audioVars, ringHistory, workerVars, sinkVars
    <2>3. ASSUME NEW pos \in Positions,
                 DecodeFinishedWithDrift(pos) \/ OnDriftChanged(pos)
          PROVE  DriftTo(pos) /\ UNCHANGED <<framesQ, event, guiPc, m_data, minute>>
        BY <2>3 DEF DecodeFinishedWithDrift, DecodeDone, OnDriftChanged, sinkVars, workerVars
    <2>. QED
        BY <2>1, <2>2, <2>3 DEF GuiThread, FramesWritten, Handling
<1>12. Worker \/ Closed \/ UNCHANGED vars =>
          UNCHANGED <<d2, kin, framesQ, event, minute, floor, epoch, overrun, m_data, guiPc>>
    BY DEF Worker, Closed, vars, audioVars, sinkVars, ringHistory, workerVars
<1>13. UNCHANGED guiPc => (Handling' => Handling)
    BY DEF Handling
<1>. QED
    BY <1>3, <1>4, <1>5, <1>6, <1>7, <1>8, <1>9, <1>10, <1>11, <1>12, <1>13 DEF Next

LEMMA InitRing == Init => RingInv
<1> SUFFICES ASSUME Init PROVE RingInv
    OBVIOUS
<1>1. TypeOK
    BY InitType
<1>2. framesQ = << >> /\ ~Handling /\ minute = 1 /\ floor = [minute |-> 1, kin |-> kin]
    BY DEF Init, Handling
<1>3. Signals
    BY <1>2, BoundAssumption DEF Signals
<1>4. Contents
    <2>1. Holds(kin, minute)
        BY <1>1, <1>2, RingTypes DEF Holds
    <2>. QED
        BY <1>2, <2>1 DEF Contents
<1>5. RangesPrecede
    <2>1. \A s \in Submodes : m_decoderQueue[s] = NoRange /\ params.ranges[s] = NoRange
        BY DEF Init
    <2>. QED
        BY <2>1, NoRangePrecedes DEF RangesPrecede
<1>6. Snapshot
    BY DEF Init, Snapshot, Intact, NoEvent
<1>. QED
    BY <1>3, <1>4, <1>5, <1>6 DEF RingInv

(* A run that starts with the signal that queued its range sees all the    *)
(* audio of the range that was recorded since the ring was moved and not   *)
(* cleared too soon, for every ring, all submodes and every lag that       *)
(* leaves a cycle of the minute.                                           *)
THEOREM PromptRangeCorrect ==
    ASSUME KeepsUp
    PROVE  Spec => []PromptRangeIsIntact
<1>1. TypeOK /\ RingInv /\ [Next]_vars => RingInv'
    BY RingStep
<1>2. RingInv => PromptRangeIsIntact
    BY DEF RingInv, Snapshot, Intact, PromptRangeIsIntact
<1>. QED
    BY <1>1, <1>2, InitRing, TypeCorrect, PTL DEF Spec

-----------------------------------------------------------------------------
(* In which order the GUI thread sees the blocks.                          *)

(* A signal takes some time of its cycle.                                  *)
SignalsTakeTime == \A s \in TurboOrUltra : CycleNeeded[s] > 0

(* Minutes and movements of the ring are counted upwards, and so is the    *)
(* position within them.                                                   *)
Before(a, b) ==
    /\ a.minute =< b.minute /\ a.epoch =< b.epoch
    /\ a.minute = b.minute /\ a.epoch = b.epoch => a.k =< b.k

Present == [k |-> kin, minute |-> minute, epoch |-> epoch]

InOrder ==
    /\ minute > 0 /\ Before(event, Present)
    /\ \A i \in DOMAIN framesQ :
        /\ framesQ[i].minute > 0
        /\ Before(event, framesQ[i]) /\ Before(framesQ[i], Present)
    /\ \A i, j \in DOMAIN framesQ : i < j => Before(framesQ[i], framesQ[j])
    /\ Handling => event.minute > 0

(* The last whole cycle queued, and where it is remembered.                *)
CycleOf(s, e) == [e EXCEPT !.k = CycleStart(s, e.k)]

Remembered(s) ==
    /\ m_lastDecodeCycleMap[s] = Unset => lastFull[s] = NoEvent
    /\ m_lastDecodeCycleMap[s] # Unset => lastFull[s].k = m_lastDecodeCycleMap[s]
    /\ Before(lastFull[s], CycleOf(s, event))

OrderInv == InOrder /\ \A s \in TurboOrUltra : Remembered(s)

-----------------------------------------------------------------------------
LEMMA BeforeIsTransitive ==
    ASSUME NEW a \in Event, NEW b \in Event, NEW c \in Event, Before(a, b), Before(b, c)
    PROVE  Before(a, c)
<1>1. /\ a.k \in Nat /\ b.k \in Nat /\ c.k \in Nat
      /\ a.minute \in Nat /\ b.minute \in Nat /\ c.minute \in Nat
      /\ a.epoch \in Nat /\ b.epoch \in Nat /\ c.epoch \in Nat
    BY SizeAssumption DEF Event, Slot
<1>. QED
    BY <1>1 DEF Before

(* The cycle of a later position begins later, or is the same.             *)
LEMMA CycleMonotone ==
    ASSUME NEW s \in Submodes, NEW k1 \in Slot, NEW k2 \in Slot, k1 =< k2
    PROVE  CycleStart(s, k1) =< CycleStart(s, k2)
<1> DEFINE c == CycleFrames[s]
<1>1. c \in Nat /\ c > 0 /\ k1 \in Nat /\ k2 \in Nat
    BY SubmodeAssumption, SizeAssumption DEF Slot
<1>2. /\ CycleStart(s, k1) = (k1 \div c) * c
      /\ CycleStart(s, k2) = (k2 \div c) * c
    BY CycleStartIs
<1> HIDE DEF c
<1>3. k1 \div c \in Nat /\ k2 \div c \in Nat /\ k1 \div c =< k2 \div c
    BY <1>1, SMT
<1>4. (k1 \div c) * c =< (k2 \div c) * c
    <2>1. \A x, y, z \in Nat : x =< y => x * z =< y * z
        BY SMT
    <2>. QED
        BY <1>1, <1>3, <2>1
<1>. QED
    BY <1>2, <1>4

LEMMA CycleOfEvent ==
    ASSUME NEW s \in Submodes, NEW e \in Event
    PROVE  /\ CycleOf(s, e) \in Event
           /\ CycleOf(s, e).k = CycleStart(s, e.k)
           /\ CycleOf(s, e).minute = e.minute /\ CycleOf(s, e).epoch = e.epoch
<1>1. e.k \in Slot
    BY DEF Event
<1>. QED
    BY <1>1, CycleOfPosition DEF CycleOf, Event

LEMMA CyclesInOrder ==
    ASSUME NEW s \in Submodes, NEW a \in Event, NEW b \in Event, Before(a, b)
    PROVE  Before(CycleOf(s, a), CycleOf(s, b))
<1>1. a.k \in Slot /\ b.k \in Slot
    BY DEF Event
<1>. QED
    BY <1>1, CycleMonotone, CycleOfEvent DEF Before

LEMMA PresentIsEvent == TypeOK => Present \in Event
BY RingTypes DEF Present, Event

LEMMA AppendedSignal ==
    ASSUME TypeOK, NEW e \in Event
    PROVE  LET q == Append(framesQ, e)
           IN  /\ DOMAIN q = 1 .. Len(framesQ) + 1
               /\ \A i \in DOMAIN framesQ : q[i] = framesQ[i]
               /\ q[Len(framesQ) + 1] = e
<1>1. \A i \in 1 .. Len(framesQ) : Append(framesQ, e)[i] = framesQ[i]
    BY RingTypes
<1>2. /\ DOMAIN Append(framesQ, e) = 1 .. Len(framesQ) + 1
      /\ Append(framesQ, e)[Len(framesQ) + 1] = e
    BY RingTypes
<1>. QED
    BY <1>1, <1>2, QueuedSignals

-----------------------------------------------------------------------------
(* The present moves on, and may be signalled.                             *)
LEMMA PresentMovesOn ==
    ASSUME TypeOK, TypeOK', InOrder, Before(Present, Present'),
           event' = event, Handling' => Handling,
           framesQ' \in {framesQ, Append(framesQ, Present')}
    PROVE  InOrder'
<1>1. PICK now \in Event : now = Present'
    BY DEF Present, Event, TypeOK, RingType, HistoryType
<1>2. Present \in Event /\ event \in Event /\ minute \in Nat /\ minute' \in Nat
    BY PresentIsEvent, RingTypes DEF TypeOK, HistoryType
<1>3. now.minute = minute' /\ minute > 0 /\ Before(Present, now) /\ Present.minute = minute
    BY <1>1 DEF Present, InOrder
<1>4. minute' > 0
    BY <1>2, <1>3 DEF Before
<1>5. Before(event, now)
    BY <1>2, <1>3, BeforeIsTransitive DEF InOrder
<1>6. ASSUME NEW i \in DOMAIN framesQ
      PROVE  framesQ[i].minute > 0 /\ Before(event, framesQ[i]) /\ Before(framesQ[i], now)
    BY <1>2, <1>3, BeforeIsTransitive, QueuedSignals DEF InOrder
<1>7. CASE framesQ' = framesQ
    BY <1>1, <1>4, <1>5, <1>6, <1>7 DEF InOrder, Before
<1>8. CASE framesQ' = Append(framesQ, now)
    <2>1. Len(framesQ) \in Nat /\ DOMAIN framesQ = 1 .. Len(framesQ)
        BY QueuedSignals
    <2>2. DOMAIN framesQ' = 1 .. Len(framesQ) + 1
        BY <1>8, AppendedSignal
    <2>3. \A i \in DOMAIN framesQ : framesQ'[i] = framesQ[i]
        BY <1>8, AppendedSignal
    <2>4. framesQ'[Len(framesQ) + 1] = now
        BY <1>8, AppendedSignal
    <2>5. \A i \in DOMAIN framesQ' : i \in DOMAIN framesQ \/ i = Len(framesQ) + 1
        BY <2>1, <2>2
    <2>6. \A i \in DOMAIN framesQ' :
             framesQ'[i].minute > 0 /\ Before(event, framesQ'[i]) /\ Before(framesQ'[i], now)
        <3>1. Before(now, now) /\ now.minute > 0
            BY <1>3, <1>4, RingTypes DEF Before
        <3>. QED
            BY <1>5, <1>6, <2>3, <2>4, <2>5, <3>1
    <2>7. \A i, j \in DOMAIN framesQ' : i < j => Before(framesQ'[i], framesQ'[j])
        <3> SUFFICES ASSUME NEW i \in DOMAIN framesQ', NEW j \in DOMAIN framesQ', i < j
                     PROVE  Before(framesQ'[i], framesQ'[j])
            OBVIOUS
        <3>1. i \in DOMAIN framesQ
            BY <2>1, <2>2
        <3>2. CASE j \in DOMAIN framesQ
            BY <2>3, <3>1, <3>2 DEF InOrder
        <3>3. CASE j = Len(framesQ) + 1
            BY <1>6, <2>3, <2>4, <3>1, <3>3
        <3>. QED
            BY <2>5, <3>2, <3>3
    <2>. QED
        BY <1>1, <1>4, <1>5, <2>6, <2>7 DEF InOrder, Before
<1>. QED
    BY <1>1, <1>7, <1>8

(* The GUI thread takes the next signal.                                   *)
LEMMA DataSinkOrder ==
    ASSUME TypeOK, InOrder, DataSink
    PROVE  InOrder' /\ event' \in Event /\ Before(event, event')
<1>1. /\ framesQ # << >> /\ framesQ' = Tail(framesQ) /\ event' = Head(framesQ)
      /\ UNCHANGED <<kin, minute, epoch>>
    BY DEF DataSink, ringHistory
<1>2. framesQ \in Seq(Event) /\ Len(framesQ) \in Nat /\ DOMAIN framesQ = 1 .. Len(framesQ)
    BY RingTypes, QueuedSignals
<1>3. /\ event' = framesQ[1] /\ 1 \in DOMAIN framesQ
      /\ framesQ' \in Seq(Event) /\ Len(framesQ') = Len(framesQ) - 1
      /\ \A i \in 1 .. Len(framesQ') : framesQ'[i] = framesQ[i + 1]
    BY <1>1, <1>2
<1>4. DOMAIN framesQ' = 1 .. Len(framesQ')
    BY <1>3
<1>5. event' \in Event /\ Before(event, event')
    BY <1>3, QueuedSignals DEF InOrder
<1>6. \A i \in DOMAIN framesQ' : framesQ'[i] = framesQ[i + 1] /\ i + 1 \in DOMAIN framesQ /\ 1 < i + 1
    BY <1>2, <1>3, <1>4
<1>7. \A i, j \in DOMAIN framesQ' : i < j => i + 1 < j + 1
    BY <1>3, <1>4
<1>8. Present' = Present
    BY <1>1 DEF Present
<1>9. PICK e \in Event : e = event'
    BY <1>5
<1>10. /\ e.minute > 0 /\ Before(e, Present)
       /\ \A i \in DOMAIN framesQ' : /\ framesQ'[i].minute > 0
                                     /\ Before(e, framesQ'[i]) /\ Before(framesQ'[i], Present)
       /\ \A i, j \in DOMAIN framesQ' : i < j => Before(framesQ'[i], framesQ'[j])
    BY <1>3, <1>6, <1>7, <1>9 DEF InOrder
<1>. QED
    BY <1>1, <1>5, <1>8, <1>9, <1>10 DEF InOrder, Before

-----------------------------------------------------------------------------
LEMMA InOrderStep ==
    ASSUME TypeOK, TypeOK', InOrder, [Next]_vars
    PROVE  InOrder' /\ Before(event, event')
<1>1. /\ kin \in Nat /\ minute \in Nat /\ epoch \in Nat
      /\ event.k \in Nat /\ event.minute \in Nat /\ event.epoch \in Nat
    BY RingTypes
<1>2. event' = event => Before(event, event')
    BY <1>1 DEF Before
<1>3. CASE DataSink
    BY <1>3, DataSinkOrder
<1>4. ASSUME UNCHANGED <<kin, minute, epoch, framesQ, event>>, Handling' => Handling
      PROVE  InOrder'
    BY <1>4 DEF InOrder, Before, Present
<1>5. ASSUME UNCHANGED <<framesQ, event, guiPc>>, epoch' = epoch + 1, minute' >= minute,
             minute' \in Nat
      PROVE  InOrder'
    <2>1. Before(Present, Present')
        BY <1>1, <1>5 DEF Before, Present
    <2>. QED
        BY <1>5, <2>1, PresentMovesOn DEF Handling
<1>6. ASSUME NEW wrapped \in BOOLEAN, NEW complete \in BOOLEAN, WriteData(wrapped, complete)
      PROVE  InOrder' /\ event' = event
    <2>1. /\ minute' = IF wrapped THEN minute + 1 ELSE minute
          /\ ~wrapped => kin' = kin \/ kin' = kin + 1
          /\ UNCHANGED <<epoch, event, guiPc>>
          /\ framesQ' = IF complete
                        THEN Append(framesQ, [k |-> kin', minute |-> minute', epoch |-> epoch])
                        ELSE framesQ
        BY <1>6, WriteDataStores DEF Stores
    <2>2. kin' \in Nat
        BY SizeAssumption DEF TypeOK, RingType, Slot
    <2>3. Before(Present, Present')
        BY <1>1, <2>1, <2>2 DEF Before, Present
    <2>4. framesQ' \in {framesQ, Append(framesQ, Present')}
        BY <2>1 DEF Present
    <2>. QED
        BY <2>1, <2>3, <2>4, PresentMovesOn DEF Handling
<1>7. AudioThread =>
          \/ \E wrapped, complete \in BOOLEAN : WriteData(wrapped, complete)
          \/ /\ UNCHANGED <<framesQ, event, guiPc>>
             /\ epoch' = epoch + 1 /\ minute' >= minute /\ minute' \in Nat
          \/ UNCHANGED <<kin, minute, epoch, framesQ, event, guiPc>>
    BY <1>1 DEF AudioThread, SoundInputSuspend, SoundInputResume, sinkVars, ringHistory
<1>8. GuiThread =>
          \/ DataSink
          \/ /\ UNCHANGED <<framesQ, event, guiPc>>
             /\ epoch' = epoch + 1 /\ minute' >= minute /\ minute' \in Nat
          \/ /\ UNCHANGED <<kin, minute, epoch, framesQ, event>>
             /\ Handling' => Handling
    <2>1. DataSinkClear \/ Decode \/ DecodeProcessQueue \/ DecodeStart \/ Quit \/ QuitDone
          => UNCHANGED <<kin, minute, epoch, framesQ, event>> /\ (Handling' => Handling)
        BY DEF DataSinkClear, Decode, DecodeProcessQueue, DecodeStart, Quit, QuitDone, audioVars,
               ringHistory, Handling
    <2>2. DecodeFinished \/ MonitorButtonClicked \/ BeginTransmit \/ StopTx \/ HoldEnds
            \/ ChangeOptions
          => UNCHANGED <<kin, minute, epoch, framesQ, event, guiPc>>
        BY DEF DecodeFinished, DecodeDone, MonitorButtonClicked, BeginTransmit, StopTx,
               HoldEnds, ChangeOptions, audioVars, ringHistory, sinkVars
    <2>3. ASSUME NEW pos \in Positions, DecodeFinishedWithDrift(pos) \/ OnDriftChanged(pos)
          PROVE  UNCHANGED <<framesQ, event, guiPc, minute>> /\ epoch' = epoch + 1
        BY <2>3 DEF DecodeFinishedWithDrift, DecodeDone, OnDriftChanged, DriftTo, sinkVars
    <2>4. UNCHANGED guiPc => (Handling' => Handling)
        BY DEF Handling
    <2>. QED
        BY <1>1, <2>1, <2>2, <2>3, <2>4 DEF GuiThread, FramesWritten
<1>9. Worker \/ Closed \/ UNCHANGED vars =>
          UNCHANGED <<kin, minute, epoch, framesQ, event, guiPc>>
    BY DEF Worker, Closed, vars, audioVars, sinkVars, ringHistory
<1>10. UNCHANGED guiPc => (Handling' => Handling)
    BY DEF Handling
<1>. QED
    BY <1>2, <1>3, <1>4, <1>5, <1>6, <1>7, <1>8, <1>9, <1>10 DEF Next

(* Only Decode queues a whole cycle.                                       *)
LEMMA OnlyDecodeRemembers ==
    ASSUME [Next]_vars
    PROVE  Decode \/ UNCHANGED <<m_lastDecodeCycleMap, lastFull>>
<1>1. AudioThread \/ Worker \/ Closed \/ UNCHANGED vars
        => UNCHANGED <<m_lastDecodeCycleMap, lastFull>>
    BY DEF AudioThread, WriteData, SoundInputSuspend, SoundInputResume, Worker, Closed,
           vars, queueVars
<1>2. GuiThread => Decode \/ UNCHANGED <<m_lastDecodeCycleMap, lastFull>>
    BY DEF GuiThread, FramesWritten, DataSink, DataSinkClear, DecodeProcessQueue, DecodeStart,
           DecodeFinished, DecodeFinishedWithDrift, DecodeDone, OnDriftChanged,
           MonitorButtonClicked, BeginTransmit, StopTx, HoldEnds, ChangeOptions, Quit, QuitDone,
           queueVars
<1>. QED
    BY <1>1, <1>2 DEF Next

LEMMA RememberedStep ==
    ASSUME TypeOK, TypeOK', OrderInv, [Next]_vars, NEW s \in TurboOrUltra
    PROVE  Remembered(s)'
<1>1. /\ s \in Submodes /\ lastFull[s] \in Event /\ event \in Event /\ event' \in Event
    BY SubmodeAssumption DEF TypeOK, QueueType, SinkType
<1>2. Before(event, event')
    BY InOrderStep DEF OrderInv
<1>3. Remembered(s)
    BY DEF OrderInv
<1>4. CASE UNCHANGED <<m_lastDecodeCycleMap, lastFull>>
    <2>1. PICK e \in Event : e = event'
        BY <1>1
    <2>2. Before(CycleOf(s, event), CycleOf(s, e))
        BY <1>1, <1>2, <2>1, CyclesInOrder
    <2>3. CycleOf(s, event) \in Event /\ CycleOf(s, e) \in Event
        BY <1>1, CycleOfEvent
    <2>4. Before(lastFull[s], CycleOf(s, e))
        BY <1>1, <1>3, <2>2, <2>3, BeforeIsTransitive DEF Remembered
    <2>5. Before(lastFull[s], CycleOf(s, e)) <=> Before(lastFull[s], CycleOf(s, event))'
        BY <1>4, <2>1 DEF Before, CycleOf, CycleStart, CycleForDecode
    <2>. QED
        BY <1>3, <1>4, <2>4, <2>5 DEF Remembered
<1>5. CASE Decode
    <2>1. event' = event
        BY <1>5 DEF Decode
    <2>2. \/ /\ m_lastDecodeCycleMap'[s] = m_lastDecodeCycleMap[s]
             /\ lastFull'[s] = lastFull[s]
          \/ /\ m_lastDecodeCycleMap'[s] = CycleStart(s, event.k)
             /\ lastFull'[s] = CycleOf(s, event)
        BY <1>1, <1>5 DEF Decode, DecodeEnqueueReady, queueVars, CycleOf
    <2>3. CASE /\ m_lastDecodeCycleMap'[s] = m_lastDecodeCycleMap[s]
               /\ lastFull'[s] = lastFull[s]
        BY <1>3, <2>1, <2>3 DEF Remembered, Before, CycleOf, CycleStart, CycleForDecode
    <2>4. CASE /\ m_lastDecodeCycleMap'[s] = CycleStart(s, event.k)
               /\ lastFull'[s] = CycleOf(s, event)
        <3>1. PICK c \in Event : c = CycleOf(s, event)
            BY <1>1, CycleOfEvent
        <3>2. c.k = CycleStart(s, event.k) /\ c.k \in Nat /\ c.k # Unset
            BY <1>1, <3>1, CycleOfEvent, RingTypes DEF Unset
        <3>3. Before(c, c)
            BY <3>1, RingTypes DEF Before
        <3>4. CycleOf(s, event)' = c
            BY <2>1, <3>1 DEF CycleOf, CycleStart, CycleForDecode
        <3>. QED
            BY <2>4, <3>1, <3>2, <3>3, <3>4 DEF Remembered, Before
    <2>. QED
        BY <2>2, <2>3, <2>4
<1>. QED
    BY <1>4, <1>5, OnlyDecodeRemembers

LEMMA OrderStep == TypeOK /\ TypeOK' /\ OrderInv /\ [Next]_vars => OrderInv'
BY InOrderStep, RememberedStep DEF OrderInv

LEMMA InitOrder == Init => OrderInv
<1> SUFFICES ASSUME Init PROVE OrderInv
    OBVIOUS
<1>1. framesQ = << >> /\ ~Handling /\ minute = 1 /\ event = NoEvent /\ epoch = 0 /\ kin \in Nat
    BY BoundAssumption, SizeAssumption DEF Init, Handling, Slot
<1>2. InOrder
    BY <1>1 DEF InOrder, Before, Present, NoEvent
<1>3. ASSUME NEW s \in TurboOrUltra PROVE Remembered(s)
    <2>1. s \in Submodes /\ NoEvent \in Event
        BY SubmodeAssumption, NoRangeIsRange
    <2>2. m_lastDecodeCycleMap[s] = Unset /\ lastFull[s] = NoEvent
        BY <2>1 DEF Init
    <2>3. PICK c \in Event : c = CycleOf(s, event)
        BY <1>1, <2>1, CycleOfEvent
    <2>4. c.minute = 0 /\ c.epoch = 0 /\ c.k \in Nat
        BY <1>1, <2>1, <2>3, CycleOfEvent, SizeAssumption DEF NoEvent, Event, Slot
    <2>. QED
        BY <2>2, <2>3, <2>4 DEF Remembered, Before, NoEvent
<1>. QED
    BY <1>2, <1>3 DEF OrderInv

-----------------------------------------------------------------------------
(* What of a cycle is queued is the whole cycle only where it is           *)
(* remembered: a growing range ends before the cycle is whole.             *)
LEMMA WholeRangeIsRemembered ==
    ASSUME NEW s \in TurboOrUltra, NEW e \in Event, Queues(s, e.k),
           RangeToQueue(s, e).sz = CycleNeeded[s]
    PROVE  /\ QueuesWholeCycle(s, e.k)
           /\ RangeToQueue(s, e).start = CycleStart(s, e.k)
           /\ RangeToQueue(s, e).cause = e
<1>1. ~QueuesSlidingRange(s, e.k)
    BY SubmodeAssumption DEF QueuesSlidingRange, EverySecond
<1>2. /\ RangeToQueue(s, e).start = CycleStart(s, e.k) /\ RangeToQueue(s, e).cause = e
      /\ ~QueuesWholeCycle(s, e.k) => RangeToQueue(s, e).sz = CycleFramesReady(s, e.k)
    BY <1>1 DEF RangeToQueue
<1>3. s \in Submodes /\ e.k \in Slot
    BY SubmodeAssumption DEF Event
<1>4. CycleFramesReady(s, e.k) \in Int /\ CycleNeeded[s] \in Int
    BY <1>3, CycleOfPosition, SubmodeAssumption
<1>5. ~QueuesWholeCycle(s, e.k) => QueuesGrowingRange(s, e.k)
    BY <1>1 DEF Queues
<1>6. QueuesGrowingRange(s, e.k) => ~(CycleFramesReady(s, e.k) >= CycleNeeded[s])
    BY <1>1 DEF QueuesGrowingRange, ReachesWholeCycle
<1>. QED
    BY <1>2, <1>4, <1>5, <1>6

LEMMA QueuedOnce ==
    ASSUME TypeOK, OrderInv, SignalsTakeTime, [Next]_vars, NEW s \in TurboOrUltra,
           m_decoderQueue'[s] # m_decoderQueue[s],
           m_decoderQueue'[s].sz = CycleNeeded[s]
    PROVE  \/ m_decoderQueue'[s].cause.minute > lastFull[s].minute
           \/ m_decoderQueue'[s].start > lastFull[s].k
           \/ m_decoderQueue'[s].cause.epoch > lastFull[s].epoch
<1>1. s \in Submodes /\ lastFull[s] \in Event /\ event \in Event
    BY SubmodeAssumption, RingTypes DEF TypeOK, QueueType
<1>2. CASE Decode
    <2>1. Queues(s, event.k) /\ m_decoderQueue'[s] = RangeToQueue(s, event)
        BY <1>1, <1>2 DEF Decode, DecodeEnqueueReady, queueVars, TypeOK, QueueType
    <2>2. QueuesWholeCycle(s, event.k) /\ m_decoderQueue'[s].cause = event
          /\ m_decoderQueue'[s].start = CycleStart(s, event.k)
        BY <1>1, <2>1, WholeRangeIsRemembered
    <2>3. m_lastDecodeCycleMap[s] # CycleStart(s, event.k)
        BY <2>2 DEF QueuesWholeCycle
    <2>4. event.minute > 0
        BY <1>2 DEF Decode, Handling, OrderInv, InOrder
    <2>5. PICK c \in Event : /\ c.k = CycleStart(s, event.k) /\ c.minute = event.minute
                             /\ c.epoch = event.epoch /\ Before(lastFull[s], c)
        BY <1>1, CycleOfEvent DEF OrderInv, Remembered
    <2>6. /\ c.k \in Nat /\ c.minute \in Nat /\ c.epoch \in Nat
          /\ lastFull[s].k \in Nat /\ lastFull[s].minute \in Nat /\ lastFull[s].epoch \in Nat
        BY <1>1, <2>5, RingTypes
    <2>7. CASE m_lastDecodeCycleMap[s] = Unset
        <3>1. lastFull[s].minute = 0
            BY <2>7 DEF OrderInv, Remembered, NoEvent
        <3>. QED
            BY <2>2, <2>4, <3>1
    <2>8. CASE m_lastDecodeCycleMap[s] # Unset
        <3>1. lastFull[s].k # c.k
            BY <2>3, <2>5, <2>8 DEF OrderInv, Remembered
        <3>2. c.minute > lastFull[s].minute \/ c.epoch > lastFull[s].epoch \/ c.k > lastFull[s].k
            BY <2>5, <2>6, <3>1 DEF Before
        <3>. QED
            BY <2>2, <2>5, <3>2
    <2>. QED
        BY <2>7, <2>8
<1>3. CASE DecodeProcessQueue
    <2>1. m_decoderQueue'[s] \in {m_decoderQueue[s], NoRange}
        BY <1>1, <1>3 DEF DecodeProcessQueue
    <2>2. CycleNeeded[s] = 0
        BY <2>1 DEF NoRange
    <2>. QED
        BY <2>2 DEF SignalsTakeTime
<1>4. AudioThread \/ Worker \/ Closed \/ UNCHANGED vars => UNCHANGED m_decoderQueue
    BY DEF AudioThread, WriteData, SoundInputSuspend, SoundInputResume, Worker, Closed,
           vars, queueVars
<1>5. GuiThread => Decode \/ DecodeProcessQueue \/ UNCHANGED m_decoderQueue
    BY DEF GuiThread, FramesWritten, DataSink, DataSinkClear, DecodeStart, DecodeFinished,
           DecodeFinishedWithDrift, DecodeDone, OnDriftChanged, MonitorButtonClicked,
           BeginTransmit, StopTx, HoldEnds, ChangeOptions, Quit, QuitDone, queueVars
<1>. QED
    BY <1>2, <1>3, <1>4, <1>5 DEF Next

(* No whole cycle of Turbo or Ultra is queued a second time: each is of a  *)
(* later minute than the last, later in it, or of after the ring was moved *)
(* (decodeEnqueueReadyExperiment's test of m_lastDecodeCycleMap), however  *)
(* the signals are delayed and the ring is repositioned.                   *)
THEOREM QueuedOnceCorrect ==
    ASSUME SignalsTakeTime
    PROVE  Spec => NoCycleIsQueuedTwice
<1>1. TypeOK /\ OrderInv /\ [Next]_vars =>
        [\A s \in TurboOrUltra :
            LET q == m_decoderQueue'[s]
            IN  q # m_decoderQueue[s] /\ q.sz = CycleNeeded[s] =>
                \/ q.cause.minute > lastFull[s].minute
                \/ q.start > lastFull[s].k
                \/ q.cause.epoch > lastFull[s].epoch]_vars
    BY QueuedOnce
<1>. QED
    BY <1>1, InitOrder, OrderStep, TypeCorrect, PTL DEF Spec, NoCycleIsQueuedTwice

-----------------------------------------------------------------------------
(* Reception that nothing interrupts.                                      *)

(* The user changes nothing and does not transmit; every minute is long    *)
(* enough for a second cycle to be whole: Turbo has ten cycles in it and   *)
(* Ultra fifteen.                                                          *)
TwoCyclesAMinute ==
    /\ WrapSlack < Size - 1
    /\ \A s \in TurboOrUltra :
        /\ 0 < CycleNeeded[s] /\ CycleNeeded[s] < CycleFrames[s]
        /\ CycleFrames[s] + CycleNeeded[s] =< Size - 1 - WrapSlack

Steady == MaxChanges = 0 /\ TwoCyclesAMinute

Undisturbed ==
    /\ audioCmds = << >> /\ epoch = 0 /\ changes = 0
    /\ m_monitoring /\ ~m_transmitting
    /\ \A i \in DOMAIN framesQ : framesQ[i].epoch = 0
    /\ event.epoch = 0

(* b is the signal of the block after a's.                                 *)
Succeeds(a, b) ==
    a # NoEvent =>
        \/ b.minute = a.minute /\ b.k \in {a.k, a.k + 1}
        \/ b.minute = a.minute + 1 /\ b.k = 1 /\ a.k >= Size - 1 - WrapSlack

SignalAt(i) == IF i = 0 THEN event ELSE framesQ[i]

(* Nothing was recorded since the signal e but the turn of the minute.     *)
IsLatest(e) ==
    e # NoEvent =>
        \/ e.minute = minute /\ e.k = kin
        \/ e.minute + 1 = minute /\ kin = 0 /\ e.k >= Size - 1 - WrapSlack

NoGap ==
    /\ \A i \in DOMAIN framesQ : Succeeds(SignalAt(i - 1), framesQ[i])
    /\ IsLatest(SignalAt(Len(framesQ)))

(* The last whole cycle queued is of the minute of the signal e, unless no *)
(* cycle is whole in it yet: then it is not a first cycle; and a first one *)
(* is not the last for longer than it has to be.  The bound is the         *)
(* position at which this ends.                                            *)
QueuedUpTo(s, e, bound) ==
    m_lastDecodeCycleMap[s] # Unset =>
        /\ lastFull[s].minute # e.minute =>
            e.k < CycleNeeded[s] + bound /\ m_lastDecodeCycleMap[s] # 0
        /\ lastFull[s].minute = e.minute /\ m_lastDecodeCycleMap[s] = 0 =>
            e.k < CycleFrames[s] + CycleNeeded[s] + bound

UpToDate(s, e) == QueuedUpTo(s, e, 0)
ToBeSeen(s, e) == QueuedUpTo(s, e, 1)

\* The GUI thread has not looked at the signal yet.
Looking == guiPc \in {"clear", "decode"}

CycleSeen(s) ==
    /\ event = NoEvent => m_lastDecodeCycleMap[s] = Unset
    /\ Looking => ToBeSeen(s, event) /\ (decodeK0 = event.k => UpToDate(s, event))
    /\ ~Looking => UpToDate(s, event)
    /\ m_lastDecodeCycleMap[s] # Unset => Considered(s)

CyclesSeen ==
    /\ ~Looking /\ event # NoEvent => decodeK0 = event.k
    /\ \A s \in TurboOrUltra : CycleSeen(s)

SteadyInv == Undisturbed /\ NoGap /\ CyclesSeen

-----------------------------------------------------------------------------
(* Only three steps matter to it.                                          *)
Quiet ==
    /\ UNCHANGED <<kin, minute, epoch, framesQ, event, decodeK0, m_lastDecodeCycleMap, lastFull,
                   m_nSubMode, multi, autoSync, m_monitoring, m_transmitting, audioCmds, changes>>
    /\ Looking' <=> Looking
    /\ guiPc = "decode" => guiPc' = "decode"

LEMMA SteadySteps ==
    ASSUME Steady, Undisturbed, [Next]_vars
    PROVE  \/ \E wrapped, complete \in BOOLEAN : WriteData(wrapped, complete)
           \/ DataSink \/ Decode \/ Quiet
<1>1. ~(changes < MaxChanges)
    BY DEF Steady, Undisturbed
<1>2. AudioThread => \E wrapped, complete \in BOOLEAN : WriteData(wrapped, complete)
    BY DEF AudioThread, SoundInputSuspend, SoundInputResume, Undisturbed
<1>3. DataSinkClear \/ DecodeProcessQueue \/ DecodeStart => Quiet
    BY DEF DataSinkClear, DecodeProcessQueue, DecodeStart, Quiet, Looking, audioVars, optionVars,
           queueVars, ringHistory
<1>4. Quit \/ QuitDone \/ HoldEnds \/ DecodeFinished => Quiet
    BY DEF Quit, QuitDone, HoldEnds, DecodeFinished, DecodeDone, Quiet, Looking, audioVars,
           optionVars, ringHistory, sinkVars, queueVars, Undisturbed
<1>5. ~MonitorButtonClicked /\ ~BeginTransmit /\ ~StopTx /\ ~ChangeOptions
      /\ \A pos : ~DriftTo(pos)
    BY <1>1 DEF MonitorButtonClicked, BeginTransmit, StopTx, ChangeOptions, DriftTo, Undisturbed
<1>6. \A pos : ~DecodeFinishedWithDrift(pos) /\ ~OnDriftChanged(pos)
    BY <1>5 DEF DecodeFinishedWithDrift, OnDriftChanged
<1>7. GuiThread => DataSink \/ Decode \/ Quiet
    BY <1>3, <1>4, <1>5, <1>6 DEF GuiThread, FramesWritten
<1>8. Worker \/ Closed \/ UNCHANGED vars => Quiet
    BY DEF Worker, Closed, vars, Quiet, Looking, audioVars, optionVars, ringHistory, sinkVars,
           queueVars
<1>. QED
    BY <1>2, <1>7, <1>8 DEF Next

LEMMA QuietSteady ==
    ASSUME SteadyInv, Quiet
    PROVE  SteadyInv'
<1>1. \A e, n : IsLatest(e)' <=> IsLatest(e)
    BY DEF Quiet, IsLatest
<1>2. \A i : SignalAt(i)' = SignalAt(i)
    BY DEF Quiet, SignalAt
<1>3. Undisturbed' /\ NoGap'
    BY <1>1, <1>2 DEF SteadyInv, Undisturbed, NoGap, Quiet, Succeeds, SignalAt, IsLatest
<1>4. CyclesSeen'
    BY DEF SteadyInv, CyclesSeen, CycleSeen, QueuedUpTo, UpToDate, ToBeSeen, Quiet, Considered,
           EverySecond
<1>. QED
    BY <1>3, <1>4 DEF SteadyInv

-----------------------------------------------------------------------------
(* The signal of a block follows that of the block before.                 *)
LEMMA NextSignal ==
    ASSUME TypeOK, Steady, NEW e \in Event, IsLatest(e), NEW new \in Event,
           NEW wrapped \in BOOLEAN, NEW complete \in BOOLEAN, WriteData(wrapped, complete),
           new.k = kin', new.minute = minute'
    PROVE  /\ complete => Succeeds(e, new)
           /\ ~complete => IsLatest(e)'
           /\ IsLatest(new)'
<1> DEFINE last == Size - 1 - WrapSlack
<1>1. /\ e.k \in Nat /\ e.minute \in Nat /\ kin \in Nat /\ minute \in Nat /\ Size \in Nat
      /\ Size > 1 /\ last \in Int
    BY RingTypes
<1>2. last > 0
    BY RingTypes DEF Steady, TwoCyclesAMinute
<1>3. /\ minute' = IF wrapped THEN minute + 1 ELSE minute
      /\ wrapped => kin >= last
      /\ wrapped \/ complete
      /\ wrapped => kin' = IF complete THEN 1 ELSE 0
      /\ ~wrapped => kin' \in {kin, kin + 1}
      /\ ~wrapped /\ kin = 0 => kin' = 1
    BY <1>1 DEF WriteData, MinuteMayWrap, HasRoom
<1>4. e # NoEvent =>
        \/ e.minute = minute /\ e.k = kin
        \/ e.minute + 1 = minute /\ kin = 0 /\ e.k >= last
    BY DEF IsLatest
<1>5. IsLatest(new)'
    BY DEF IsLatest
<1> HIDE DEF last
<1>6. ASSUME e # NoEvent, complete
      PROVE  \/ minute' = e.minute /\ kin' \in {e.k, e.k + 1}
             \/ minute' = e.minute + 1 /\ kin' = 1 /\ e.k >= last
    BY <1>1, <1>2, <1>3, <1>4, <1>6
<1>7. ASSUME e # NoEvent, ~complete
      PROVE  e.minute + 1 = minute' /\ kin' = 0 /\ e.k >= last
    BY <1>1, <1>2, <1>3, <1>4, <1>7
<1>. QED
    BY <1>5, <1>6, <1>7 DEF Succeeds, IsLatest, last

LEMMA WriteDataSteady ==
    ASSUME TypeOK, TypeOK', Steady, SteadyInv,
           NEW wrapped \in BOOLEAN, NEW complete \in BOOLEAN, WriteData(wrapped, complete)
    PROVE  SteadyInv'
<1>1. PICK new \in Event : new = [k |-> kin', minute |-> minute', epoch |-> 0]
    BY DEF Event, TypeOK, RingType, HistoryType
<1>2. new.k = kin' /\ new.minute = minute' /\ new.epoch = 0
    BY <1>1
<1>3. /\ framesQ' = IF complete THEN Append(framesQ, new) ELSE framesQ
      /\ UNCHANGED <<epoch, event, guiPc, decodeK0, m_lastDecodeCycleMap, lastFull, m_nSubMode,
                     multi, autoSync, m_monitoring, m_transmitting, audioCmds, changes>>
    BY <1>1 DEF WriteData, optionVars, sinkVars, queueVars, SteadyInv, Undisturbed
<1>4. Len(framesQ) \in Nat /\ DOMAIN framesQ = 1 .. Len(framesQ)
    BY QueuedSignals
<1>5. PICK e \in Event : e = SignalAt(Len(framesQ)) /\ IsLatest(e)
    <2>1. SignalAt(Len(framesQ)) \in Event
        BY <1>4, QueuedSignals, RingTypes DEF SignalAt
    <2>. QED
        BY <2>1 DEF SteadyInv, NoGap
<1>6. /\ complete => Succeeds(e, new)
      /\ ~complete => IsLatest(e)'
      /\ IsLatest(new)'
    BY <1>2, <1>5, NextSignal
<1>7. CASE ~complete
    <2>1. framesQ' = framesQ /\ SignalAt(Len(framesQ))' = e
        BY <1>3, <1>5, <1>7 DEF SignalAt
    <2>2. NoGap'
        BY <1>3, <1>6, <1>7, <2>1 DEF SteadyInv, NoGap, SignalAt, Succeeds, IsLatest
    <2>3. Undisturbed'
        BY <1>3, <2>1 DEF SteadyInv, Undisturbed
    <2>. QED
        BY <1>3, <2>2, <2>3 DEF SteadyInv, CyclesSeen, CycleSeen, QueuedUpTo, UpToDate, ToBeSeen,
           Looking, Considered, EverySecond
<1>8. CASE complete
    <2>1. framesQ' = Append(framesQ, new)
        BY <1>3, <1>8
    <2>2. /\ DOMAIN framesQ' = 1 .. Len(framesQ) + 1
          /\ \A i \in DOMAIN framesQ : framesQ'[i] = framesQ[i]
          /\ framesQ'[Len(framesQ) + 1] = new
        BY <2>1, AppendedSignal
    <2>3. Len(framesQ') = Len(framesQ) + 1
        BY <2>1, RingTypes
    <2>4. \A i \in DOMAIN framesQ' : i \in DOMAIN framesQ \/ i = Len(framesQ) + 1
        BY <1>4, <2>2
    <2>5. \A i \in DOMAIN framesQ' : framesQ'[i].epoch = 0
        BY <1>2, <2>2, <2>4 DEF SteadyInv, Undisturbed
    <2>6. Undisturbed'
        BY <1>3, <2>5 DEF SteadyInv, Undisturbed
    <2>7. \A i \in DOMAIN framesQ : SignalAt(i)' = SignalAt(i)
        BY <1>4, <2>2 DEF SignalAt
    <2>8. \A i \in DOMAIN framesQ' : SignalAt(i - 1)' = SignalAt(i - 1)
        <3> SUFFICES ASSUME NEW i \in DOMAIN framesQ' PROVE SignalAt(i - 1)' = SignalAt(i - 1)
            OBVIOUS
        <3>1. i - 1 = 0 \/ i - 1 \in DOMAIN framesQ
            BY <1>4, <2>2
        <3>2. SignalAt(0)' = SignalAt(0)
            BY <1>3 DEF SignalAt
        <3>. QED
            BY <2>7, <3>1, <3>2
    <2>9. ASSUME NEW i \in DOMAIN framesQ'
          PROVE  Succeeds(SignalAt(i - 1), framesQ'[i])
        <3>1. CASE i \in DOMAIN framesQ
            BY <2>2, <3>1 DEF SteadyInv, NoGap
        <3>2. CASE i = Len(framesQ) + 1
            <4>1. i - 1 = Len(framesQ)
                BY <1>4, <3>2
            <4>. QED
                BY <1>5, <1>6, <1>8, <2>2, <3>2, <4>1
        <3>. QED
            BY <2>4, <3>1, <3>2
    <2>10. SignalAt(Len(framesQ))' = new
        BY <1>4, <2>2, <2>3 DEF SignalAt
    <2>11. NoGap'
        BY <1>6, <2>8, <2>9, <2>10 DEF NoGap, Succeeds, IsLatest
    <2>. QED
        BY <1>3, <2>6, <2>11 DEF SteadyInv, CyclesSeen, CycleSeen, QueuedUpTo, UpToDate, ToBeSeen,
           Looking, Considered, EverySecond
<1>. QED
    BY <1>7, <1>8

-----------------------------------------------------------------------------
(* The next signal is as expected.                                         *)
LEMMA NextToBeSeen ==
    ASSUME TypeOK, Steady, NEW s \in TurboOrUltra, NEW e \in Event, e # NoEvent,
           NEW next \in Event, Succeeds(e, next), UpToDate(s, e)
    PROVE  ToBeSeen(s, next) /\ (next.k = e.k => UpToDate(s, next))
<1> DEFINE last == Size - 1 - WrapSlack
           c == CycleFrames[s]
           n == CycleNeeded[s]
<1>1. /\ e.k \in Nat /\ next.k \in Nat /\ last \in Int /\ e.minute \in Nat /\ next.minute \in Nat
    BY RingTypes
<1>2. c \in Nat /\ n \in Nat /\ 0 < n /\ n < c /\ c + n =< last
    BY SubmodeAssumption DEF Steady, TwoCyclesAMinute
<1>3. \/ next.minute = e.minute /\ next.k \in {e.k, e.k + 1}
      \/ next.minute = e.minute + 1 /\ next.k = 1 /\ e.k >= last
    BY DEF Succeeds
<1>4. m_lastDecodeCycleMap[s] # Unset =>
        /\ lastFull[s].minute # e.minute => e.k < n /\ m_lastDecodeCycleMap[s] # 0
        /\ lastFull[s].minute = e.minute /\ m_lastDecodeCycleMap[s] = 0 => e.k < c + n
    BY <1>1, <1>2 DEF UpToDate, QueuedUpTo
<1> HIDE DEF last, c, n
<1>5. CASE next.minute = e.minute /\ next.k \in {e.k, e.k + 1}
    <2>1. m_lastDecodeCycleMap[s] # Unset =>
            /\ lastFull[s].minute # next.minute => next.k < n + 1 /\ m_lastDecodeCycleMap[s] # 0
            /\ lastFull[s].minute = next.minute /\ m_lastDecodeCycleMap[s] = 0 =>
                next.k < c + n + 1
        BY <1>1, <1>2, <1>4, <1>5
    <2>2. next.k = e.k => UpToDate(s, next)
        BY <1>5 DEF UpToDate, QueuedUpTo
    <2>. QED
        BY <2>1, <2>2 DEF ToBeSeen, QueuedUpTo, c, n
<1>6. CASE next.minute = e.minute + 1 /\ next.k = 1 /\ e.k >= last
    <2>1. ~(e.k < n) /\ ~(e.k < c + n) /\ next.k # e.k /\ next.k < n + 1
        BY <1>1, <1>2, <1>6
    <2>2. m_lastDecodeCycleMap[s] # Unset =>
            lastFull[s].minute = e.minute /\ m_lastDecodeCycleMap[s] # 0
        BY <1>4, <2>1
    <2>3. next.minute # e.minute
        BY <1>1, <1>6
    <2>. QED
        BY <2>1, <2>2, <2>3 DEF ToBeSeen, QueuedUpTo, n
<1>. QED
    BY <1>3, <1>5, <1>6

LEMMA DataSinkSteady ==
    ASSUME TypeOK, Steady, InOrder, SteadyInv, DataSink
    PROVE  SteadyInv'
<1>1. /\ framesQ # << >> /\ framesQ' = Tail(framesQ) /\ event' = Head(framesQ)
      /\ ~Looking /\ Looking'
      /\ UNCHANGED <<kin, minute, epoch, decodeK0, m_lastDecodeCycleMap, lastFull, m_nSubMode,
                     multi, autoSync, m_monitoring, m_transmitting, audioCmds, changes>>
    BY DEF DataSink, ringHistory, optionVars, queueVars, Looking
<1>2. framesQ \in Seq(Event) /\ Len(framesQ) \in Nat /\ DOMAIN framesQ = 1 .. Len(framesQ)
    BY RingTypes, QueuedSignals
<1>3. /\ event' = framesQ[1] /\ 1 \in DOMAIN framesQ
      /\ framesQ' \in Seq(Event) /\ Len(framesQ') = Len(framesQ) - 1
      /\ \A i \in 1 .. Len(framesQ') : framesQ'[i] = framesQ[i + 1]
    BY <1>1, <1>2
<1>4. DOMAIN framesQ' = 1 .. Len(framesQ')
    BY <1>3
<1>5. \A i \in DOMAIN framesQ' : framesQ'[i] = framesQ[i + 1] /\ i + 1 \in DOMAIN framesQ
    BY <1>2, <1>3, <1>4
<1>6. PICK next \in Event : next = event' /\ next = framesQ[1]
    BY <1>3, QueuedSignals
<1>7. next.minute > 0 /\ next.epoch = 0
    BY <1>3, <1>6 DEF InOrder, SteadyInv, Undisturbed
<1>8. Undisturbed'
    BY <1>1, <1>5, <1>6, <1>7 DEF SteadyInv, Undisturbed
<1>9. NoGap'
    <2>1. \A i \in 0 .. Len(framesQ') : SignalAt(i)' = SignalAt(i + 1)
        <3> SUFFICES ASSUME NEW i \in 0 .. Len(framesQ') PROVE SignalAt(i)' = SignalAt(i + 1)
            OBVIOUS
        <3>1. CASE i = 0
            BY <1>3, <3>1 DEF SignalAt
        <3>2. CASE i # 0
            <4>1. i \in 1 .. Len(framesQ') /\ i + 1 # 0
                BY <1>2, <1>3, <3>2
            <4>. QED
                BY <1>3, <3>2, <4>1 DEF SignalAt
        <3>. QED
            BY <3>1, <3>2
    <2>2. \A i \in DOMAIN framesQ' :
             i - 1 \in 0 .. Len(framesQ') /\ (i - 1) + 1 = (i + 1) - 1
        BY <1>2, <1>3, <1>4
    <2>3. \A i \in DOMAIN framesQ' : Succeeds(SignalAt((i + 1) - 1), framesQ[i + 1])
        BY <1>5 DEF SteadyInv, NoGap
    <2>4. \A i \in DOMAIN framesQ' : SignalAt(i - 1)' = SignalAt((i + 1) - 1)
        BY <2>1, <2>2
    <2>5. SignalAt(Len(framesQ))' = SignalAt(Len(framesQ))
        <3>1. Len(framesQ') \in 0 .. Len(framesQ') /\ Len(framesQ') + 1 = Len(framesQ)
            BY <1>2, <1>3
        <3>. QED
            BY <2>1, <3>1 DEF SignalAt
    <2>. QED
        BY <1>1, <1>5, <2>3, <2>4, <2>5 DEF SteadyInv, NoGap, Succeeds, IsLatest
<1>10. next # NoEvent
    BY <1>7, RingTypes DEF NoEvent
<1>11. ASSUME NEW s \in TurboOrUltra PROVE CycleSeen(s)'
    <2>1. UpToDate(s, event) /\ (m_lastDecodeCycleMap[s] # Unset => event # NoEvent)
          /\ (event # NoEvent => decodeK0 = event.k)
        BY <1>1 DEF SteadyInv, CyclesSeen, CycleSeen
    <2>2. Succeeds(event, next)
        <3>1. Succeeds(SignalAt(1 - 1), framesQ[1]) /\ 1 - 1 = 0
            BY <1>3 DEF SteadyInv, NoGap
        <3>. QED
            BY <1>6, <3>1 DEF SignalAt
    <2>3. ToBeSeen(s, next) /\ (decodeK0 = next.k => UpToDate(s, next))
        <3>1. CASE event = NoEvent
            BY <2>1, <3>1 DEF ToBeSeen, UpToDate, QueuedUpTo
        <3>2. CASE event # NoEvent
            BY <2>1, <2>2, <3>2, NextToBeSeen, RingTypes
        <3>. QED
            BY <3>1, <3>2
    <2>4. m_lastDecodeCycleMap[s] # Unset => Considered(s)
        BY DEF SteadyInv, CyclesSeen, CycleSeen
    <2>. QED
        BY <1>1, <1>6, <1>10, <2>3, <2>4
        DEF CycleSeen, ToBeSeen, UpToDate, QueuedUpTo, Considered, EverySecond
<1>. QED
    BY <1>1, <1>8, <1>9, <1>11 DEF SteadyInv, CyclesSeen

-----------------------------------------------------------------------------
(* The first two cycles of the minute.                                     *)
LEMMA FirstCycles ==
    ASSUME NEW s \in Submodes, NEW k \in Slot
    PROVE  /\ k < CycleFrames[s] => CycleStart(s, k) = 0
           /\ CycleStart(s, k) = 0 => k < CycleFrames[s]
           /\ CycleFrames[s] =< k /\ k < 2 * CycleFrames[s] => CycleStart(s, k) = CycleFrames[s]
           /\ CycleFramesReady(s, k) = k - CycleStart(s, k)
<1> DEFINE c == CycleFrames[s]
<1>1. c \in Nat /\ c > 0 /\ k \in Nat
    BY SubmodeAssumption, SizeAssumption DEF Slot
<1>2. /\ CycleStart(s, k) = (k \div c) * c
      /\ CycleStart(s, k) =< k /\ k - CycleStart(s, k) < c
    BY CycleStartIs
<1>3. CycleFramesReady(s, k) = k - CycleStart(s, k)
    BY <1>2, CycleOfPosition DEF CycleFramesReady
<1> HIDE DEF c
<1>4. k < c => k \div c = 0
    BY <1>1, SMT
<1>5. c =< k /\ k < 2 * c => k \div c = 1
    BY <1>1, SMT
<1>6. CycleStart(s, k) = 0 => k < c
    BY <1>1, <1>2
<1>. QED
    BY <1>1, <1>2, <1>3, <1>4, <1>5, <1>6 DEF c

(* What the decoder's queue gets of a submode that is decoded once per     *)
(* cycle.                                                                  *)
LEMMA DecodeRemembers ==
    ASSUME TypeOK, Undisturbed, Decode, NEW s \in TurboOrUltra
    PROVE  IF event.k # decodeK0 /\ Considered(s) /\ QueuesWholeCycle(s, event.k)
           THEN /\ m_lastDecodeCycleMap'[s] = CycleStart(s, event.k)
                /\ lastFull'[s] = CycleOf(s, event)
           ELSE /\ m_lastDecodeCycleMap'[s] = m_lastDecodeCycleMap[s]
                /\ lastFull'[s] = lastFull[s]
<1>1. s \in Submodes
    BY SubmodeAssumption
<1>2. CASE event.k = decodeK0
    BY <1>2 DEF Decode, queueVars
<1>3. CASE event.k # decodeK0
    <2>1. DecodeEnqueueReady(event)
        BY <1>3 DEF Decode, Undisturbed
    <2>. QED
        BY <1>1, <1>3, <2>1 DEF DecodeEnqueueReady, Queues, CycleOf
<1>. QED
    BY <1>2, <1>3

(* A cycle that is not queued is remembered, or not whole yet.             *)
LEMMA NotQueued ==
    ASSUME NEW s \in TurboOrUltra, NEW k, ~QueuesWholeCycle(s, k),
           CycleFramesReady(s, k) >= CycleNeeded[s]
    PROVE  m_lastDecodeCycleMap[s] = CycleStart(s, k)
<1>1. ~QueuesSlidingRange(s, k)
    BY SubmodeAssumption DEF QueuesSlidingRange, EverySecond
<1>. QED
    BY <1>1 DEF QueuesWholeCycle, ReachesWholeCycle

LEMMA DecodeSteady ==
    ASSUME TypeOK, Steady, OrderInv, SteadyInv, Decode
    PROVE  SteadyInv'
<1>1. /\ Looking /\ ~Looking' /\ decodeK0' = event.k
      /\ UNCHANGED <<kin, minute, epoch, framesQ, event, m_nSubMode,
                     multi, autoSync, m_monitoring, m_transmitting, audioCmds, changes>>
    BY DEF Decode, Looking, audioVars, optionVars, ringHistory
<1>2. Undisturbed' /\ NoGap'
    BY <1>1 DEF SteadyInv, Undisturbed, NoGap, SignalAt, Succeeds, IsLatest
<1>3. event # NoEvent /\ event \in Event
    <2>1. event.minute > 0
        BY DEF Decode, Handling, OrderInv, InOrder
    <2>. QED
        BY <2>1, RingTypes DEF NoEvent
<1>4. ASSUME NEW s \in TurboOrUltra PROVE CycleSeen(s)'
    <2> DEFINE k == event.k
               c == CycleFrames[s]
               n == CycleNeeded[s]
               at == m_lastDecodeCycleMap[s]
               full == lastFull[s]
    <2>1. s \in Submodes /\ k \in Slot /\ k \in Nat
        BY <1>3, SubmodeAssumption, RingTypes
    <2>2. c \in Nat /\ n \in Nat /\ 0 < n /\ n < c
        BY <2>1, SubmodeAssumption DEF Steady, TwoCyclesAMinute
    <2>3. /\ k < c => CycleStart(s, k) = 0
          /\ CycleStart(s, k) = 0 => k < c
          /\ c =< k /\ k < 2 * c => CycleStart(s, k) = c
          /\ CycleFramesReady(s, k) = k - CycleStart(s, k)
        BY <2>1, FirstCycles
    <2>4. CASE event.k # decodeK0 /\ Considered(s) /\ QueuesWholeCycle(s, event.k)
        <3>1. /\ m_lastDecodeCycleMap'[s] = CycleStart(s, k)
              /\ lastFull'[s].minute = event.minute
            BY <1>3, <2>1, <2>4, DecodeRemembers, CycleOfEvent DEF SteadyInv
        <3> HIDE DEF k, c, n
        <3>2. CycleStart(s, k) = 0 => k < c + n + 0
            BY <2>1, <2>2, <2>3
        <3>. QED
            BY <1>1, <1>3, <2>4, <3>1, <3>2
            DEF CycleSeen, UpToDate, QueuedUpTo, Considered, EverySecond, k, c, n
    <2>5. CASE ~(event.k # decodeK0 /\ Considered(s) /\ QueuesWholeCycle(s, event.k))
        <3>1. m_lastDecodeCycleMap'[s] = at /\ lastFull'[s] = full
            BY <2>5, DecodeRemembers DEF SteadyInv
        <3>2. at # Unset => Considered(s)
            BY DEF SteadyInv, CyclesSeen, CycleSeen
        <3>3. UpToDate(s, event)
            <4>1. CASE event.k = decodeK0
                BY <1>1, <4>1 DEF SteadyInv, CyclesSeen, CycleSeen
            <4>2. CASE at = Unset
                BY <4>2 DEF UpToDate, QueuedUpTo
            <4>3. CASE event.k # decodeK0 /\ at # Unset
                <5>1. ~QueuesWholeCycle(s, k)
                    BY <2>5, <3>2, <4>3
                <5>2. CycleFramesReady(s, k) >= n => at = CycleStart(s, k)
                    BY <5>1, NotQueued
                <5>3. /\ full.minute # event.minute => k < n + 1 /\ at # 0
                      /\ full.minute = event.minute /\ at = 0 => k < c + n + 1
                    BY <1>1, <4>3 DEF SteadyInv, CyclesSeen, CycleSeen, ToBeSeen, QueuedUpTo
                <5> HIDE DEF k, c, n, at, full
                <5>4. full.minute # event.minute => k < n + 0 /\ at # 0
                    BY <2>1, <2>2, <2>3, <5>2, <5>3
                <5>5. full.minute = event.minute /\ at = 0 => k < c + n + 0
                    BY <2>1, <2>2, <2>3, <5>2, <5>3
                <5>. QED
                    BY <5>4, <5>5 DEF UpToDate, QueuedUpTo, k, c, n, at, full
            <4>. QED
                BY <4>1, <4>2, <4>3
        <3>. QED
            BY <1>1, <1>3, <3>1, <3>2, <3>3
            DEF CycleSeen, UpToDate, QueuedUpTo, Considered, EverySecond
    <2>. QED
        BY <2>4, <2>5
<1>. QED
    BY <1>1, <1>2, <1>4 DEF SteadyInv, CyclesSeen

-----------------------------------------------------------------------------
LEMMA SteadyStep ==
    ASSUME TypeOK, TypeOK', Steady, OrderInv, SteadyInv, [Next]_vars
    PROVE  SteadyInv'
<1>1. Undisturbed /\ InOrder
    BY DEF SteadyInv, OrderInv
<1>. QED
    BY <1>1, SteadySteps, QuietSteady, WriteDataSteady, DataSinkSteady, DecodeSteady

LEMMA InitSteady == Steady /\ Init => SteadyInv
<1> SUFFICES ASSUME Steady, Init PROVE SteadyInv
    OBVIOUS
<1>1. framesQ = << >> /\ event = NoEvent /\ ~Looking
    BY DEF Init, Looking
<1>2. Undisturbed
    BY <1>1 DEF Init, Undisturbed, NoEvent
<1>3. NoGap
    BY <1>1 DEF NoGap, SignalAt, IsLatest
<1>4. CyclesSeen
    <2>1. \A s \in TurboOrUltra : m_lastDecodeCycleMap[s] = Unset
        BY SubmodeAssumption DEF Init
    <2>. QED
        BY <1>1, <2>1 DEF CyclesSeen, CycleSeen, UpToDate, QueuedUpTo
<1>. QED
    BY <1>2, <1>3, <1>4 DEF SteadyInv

(* The whole cycle that the GUI thread sees is the last one queued.        *)
LEMMA SeenIsQueued ==
    ASSUME TypeOK, Steady, OrderInv, SteadyInv, [Next]_vars,
           NEW s \in TurboOrUltra, SeesWholeCycle(s)
    PROVE  lastFull'[s] = CycleOf(s, event)
<1>1. Decode
    <2>1. guiPc = "decode" /\ guiPc' # "decode"
        BY DEF SeesWholeCycle
    <2>2. ~DataSink /\ ~Quiet /\ \A w, c \in BOOLEAN : ~WriteData(w, c)
        BY <2>1 DEF DataSink, Quiet, WriteData, sinkVars
    <2>. QED
        BY <2>2, SteadySteps DEF SteadyInv
<1>2. /\ event.k # decodeK0 /\ Considered(s)
      /\ CycleFramesReady(s, event.k) >= CycleNeeded[s]
    BY DEF SeesWholeCycle
<1>3. CASE QueuesWholeCycle(s, event.k)
    BY <1>1, <1>2, <1>3, DecodeRemembers DEF SteadyInv
<1>4. CASE ~QueuesWholeCycle(s, event.k)
    <2> DEFINE k == event.k
               full == lastFull[s]
    <2>1. full' = full
        BY <1>1, <1>4, DecodeRemembers DEF SteadyInv
    <2>2. /\ s \in Submodes /\ event \in Event /\ full \in Event
          /\ k \in Slot /\ k \in Nat /\ full.epoch \in Nat
        BY SubmodeAssumption, RingTypes DEF TypeOK, QueueType
    <2>3. m_lastDecodeCycleMap[s] = CycleStart(s, k)
        BY <1>2, <1>4, NotQueued
    <2>4. CycleStart(s, k) \in Nat /\ CycleStart(s, k) # Unset
        BY <2>2, CycleOfPosition, RingTypes DEF Unset
    <2>5. full.k = CycleStart(s, k)
        BY <2>3, <2>4 DEF OrderInv, Remembered
    <2>6. full.epoch = 0 /\ event.epoch = 0
        BY <2>2, CycleOfEvent DEF OrderInv, Remembered, Before, SteadyInv, Undisturbed
    <2>7. full.minute = event.minute
        <3>1. SUFFICES ASSUME full.minute # event.minute PROVE FALSE
            OBVIOUS
        <3>2. k < CycleNeeded[s] + 1 /\ CycleStart(s, k) # 0
            BY <1>1, <2>3, <2>4, <3>1
            DEF Decode, SteadyInv, CyclesSeen, CycleSeen, Looking, ToBeSeen, QueuedUpTo
        <3>3. CycleNeeded[s] < CycleFrames[s] /\ CycleNeeded[s] \in Nat /\ CycleFrames[s] \in Nat
            BY <2>2, SubmodeAssumption DEF Steady, TwoCyclesAMinute
        <3>4. k < CycleFrames[s]
            BY <2>2, <3>2, <3>3
        <3>. QED
            BY <2>2, <3>2, <3>4, FirstCycles
    <2>8. full = CycleOf(s, event)
        <3>1. PICK c \in Event : c = CycleOf(s, event)
            BY <2>2, CycleOfEvent
        <3>2. c.k = full.k /\ c.minute = full.minute /\ c.epoch = full.epoch
            BY <2>2, <2>5, <2>6, <2>7, <3>1, CycleOfEvent
        <3>. QED
            BY <2>2, <3>1, <3>2 DEF Event
    <2>. QED
        BY <2>1, <2>8
<1>. QED
    BY <1>3, <1>4

(* While the user leaves the radio alone, every whole cycle of Turbo and   *)
(* Ultra that is seen is queued, at once or before, however far the GUI    *)
(* thread is behind the audio.                                             *)
THEOREM CyclesQueuedCorrect ==
    ASSUME Steady
    PROVE  Spec => WholeCyclesAreQueued
<1>1. TypeOK /\ OrderInv /\ SteadyInv /\ [Next]_vars =>
        [\A s \in TurboOrUltra : SeesWholeCycle(s) =>
            lastFull'[s] = [event EXCEPT !.k = CycleStart(s, event.k)]]_vars
    BY SeenIsQueued DEF CycleOf
<1>2. TypeOK /\ TypeOK' /\ OrderInv /\ SteadyInv /\ [Next]_vars => SteadyInv'
    BY SteadyStep
<1>3. Init => SteadyInv
    BY InitSteady
<1>. QED
    BY <1>1, <1>2, <1>3, InitOrder, OrderStep, TypeCorrect, PTL DEF Spec, WholeCyclesAreQueued
=============================================================================
