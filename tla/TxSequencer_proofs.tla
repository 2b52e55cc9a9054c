-------------------------- MODULE TxSequencer_proofs -------------------------
(* Proofs about the transmit sequencer, for every number of frames and     *)
(* every value of the bounds: type correctness, that a frame is keyed      *)
(* exactly while the program is transmitting, that the PTT is not left on, *)
(* what the composer shows and locks, and the timing of keying, PTT and    *)
(* audio.                                                                  *)
EXTENDS TxSequencer, SequenceTheorems, TLAPS

-----------------------------------------------------------------------------
(* The inductive invariant, of a record of the GUI thread.                 *)

(* m_iptt, m_transmitting and m_btxok are one, and so are the values of    *)
(* the last poll: no edge between two polls is missed.                     *)
InStep(s) ==
    /\ s.iptt = s.transmitting
    /\ s.btxok = s.iptt
    /\ s.btxok0 = s.iptt0
    /\ s.iptt => s.auto /\ s.next # None
    /\ s.auto => s.button

(* Frames are counted only while the button is down; the PTT is on for a   *)
(* reason.                                                                 *)
Accounted(s, held) ==
    /\ s.count > 0 => s.button
    /\ s.ptt => s.iptt \/ s.timer \/ (held /\ s.count > 0)

Good(s, held) == s \in UI /\ InStep(s) /\ Accounted(s, held)

(* A record that StopTxButton brings to rest.                              *)
Stoppable(s) ==
    /\ s \in UI
    /\ s.btxok0 = s.iptt0
    /\ ~s.button => ~s.iptt /\ ~s.transmitting /\ (s.ptt => s.timer)

\* The fields that the invariant speaks of.
Kept == {"auto", "button", "btxok", "btxok0", "iptt", "iptt0", "transmitting",
         "next", "count", "timer", "ptt"}

-----------------------------------------------------------------------------
(* The operators on the record, from the bottom up.                        *)

(* A command to the rig leaves the record well typed.                      *)
LEMMA EmitsPtt ==
    ASSUME NEW s \in UI, NEW on \in BOOLEAN
    PROVE  EmitPtt(s, on) \in UI
<1>1. Append(s.toRig, on) \in Seq(BOOLEAN)
    BY AppendProperties DEF UI
<1>. QED
    BY <1>1 DEF EmitPtt, UI

(* What a command to the rig leaves alone.                                 *)
LEMMA EmitsOnlyPtt ==
    ASSUME NEW s \in UI, NEW on \in BOOLEAN
    PROVE  /\ EmitPtt(s, on).ptt = on
           /\ \A f \in Kept \ {"ptt"} : EmitPtt(s, on)[f] = s[f]
BY DEF EmitPtt, UI, Kept

(* addMessageText changes the composer only.                               *)
LEMMA TextIsAdded ==
    ASSUME NEW held \in BOOLEAN, NEW s, Good(s, held),
           NEW frames \in Seq(Frame), NEW clear \in BOOLEAN
    PROVE  /\ Good(AddMessageText(s, frames, clear), held)
           /\ AddMessageText(s, frames, clear).button = s.button
<1> DEFINE a == AddMessageText(s, frames, clear)
           unsent == IF clear THEN frames ELSE s.unsent \o frames
           sent == IF clear THEN FALSE ELSE s.sent
<1>1. s \in UI
    BY DEF Good
<1>2. unsent \in Seq(Frame) /\ sent \in BOOLEAN
    BY <1>1, ConcatProperties DEF UI
<1>3. a = s \/ a = [s EXCEPT !.unsent = unsent, !.sent = sent, !.dirty = TRUE]
    BY DEF AddMessageText
<1>4. /\ a \in UI
      /\ \A f \in Kept : a[f] = s[f]
    <2>1. CASE a = s
        BY <1>1, <2>1
    <2>2. CASE a = [s EXCEPT !.unsent = unsent, !.sent = sent, !.dirty = TRUE]
        <3> HIDE DEF a, unsent, sent
        <3>. QED
            BY <1>1, <1>2, <2>2 DEF UI, Kept
    <2>. QED
        BY <1>3, <2>1, <2>2
<1>. QED
    BY <1>4 DEF Good, InStep, Accounted, Kept

(* stopTx ends the frame and starts the PTT timer.                         *)
LEMMA EndTransmitEnds ==
    ASSUME NEW s \in UI
    PROVE  /\ EndTransmit(s) \in UI
           /\ ~EndTransmit(s).iptt
           /\ ~EndTransmit(s).transmitting
           /\ ~EndTransmit(s).btxok
           /\ EndTransmit(s).timer
           /\ EndTransmit(s).queue = s.queue
           /\ EndTransmit(s).sent = s.sent
           /\ EndTransmit(s).unsent = s.unsent
           /\ \A f \in Kept \ {"iptt", "transmitting", "btxok", "timer"} :
                EndTransmit(s)[f] = s[f]
<1> DEFINE signals == Append(s.toModulator, "stop")
<1>1. signals \in Seq({"start", "stop"})
    BY AppendProperties DEF UI
<1>2. EndTransmit(s) = [s EXCEPT !.btxok = FALSE, !.transmitting = FALSE,
                                 !.iptt = FALSE, !.timer = TRUE,
                                 !.toModulator = signals]
    BY DEF EndTransmit, UI
<1> HIDE DEF signals
<1>. QED
    BY <1>1, <1>2 DEF UI, Kept

(* After on_stopTxButton_clicked nothing is being sent or left to send.    *)
LEMMA StopTxButtonStops ==
    ASSUME NEW held \in BOOLEAN, NEW s, Stoppable(s)
    PROVE  /\ Good(StopTxButton(s), held)
           /\ StopTxButton(s).next = None
           /\ StopTxButton(s).queue = << >>
           /\ ~HasText(StopTxButton(s))
           /\ ~StopTxButton(s).auto
           /\ ~StopTxButton(s).button
           /\ StopTxButton(s).count = 0
<1> DEFINE t == [ResetMessage(s) EXCEPT !.auto = FALSE, !.btxok = FALSE]
<1>1. << >> \in Seq(Frame) /\ None \in Frame \cup {None}
    OBVIOUS
<1>2. /\ t \in UI
      /\ ~t.auto /\ ~t.button /\ ~t.btxok /\ t.next = None /\ t.count = 0
      /\ t.queue = << >> /\ t.unsent = << >> /\ ~t.sent
      /\ \A f \in {"btxok0", "iptt", "iptt0", "transmitting", "timer", "ptt"} :
            t[f] = s[f]
    BY <1>1 DEF ResetMessage, UI, Stoppable
<1>3. StopTxButton(s) = IF s.button THEN EndTransmit(t) ELSE t
    BY DEF StopTxButton
<1> HIDE DEF t
<1>4. CASE s.button
    <2>1. /\ EndTransmit(t) \in UI
          /\ ~EndTransmit(t).iptt /\ ~EndTransmit(t).transmitting
          /\ ~EndTransmit(t).btxok /\ EndTransmit(t).timer
          /\ EndTransmit(t).next = None /\ EndTransmit(t).count = 0
          /\ ~EndTransmit(t).auto /\ ~EndTransmit(t).button
          /\ EndTransmit(t).btxok0 = s.btxok0 /\ EndTransmit(t).iptt0 = s.iptt0
          /\ EndTransmit(t).queue = << >> /\ EndTransmit(t).unsent = << >>
          /\ ~EndTransmit(t).sent
        BY <1>2, EndTransmitEnds DEF Kept
    <2>2. StopTxButton(s) = EndTransmit(t)
        BY <1>3, <1>4
    <2>. QED
        BY <2>1, <2>2 DEF Good, InStep, Accounted, Stoppable, HasText, UI
<1>5. CASE ~s.button
    <2>1. StopTxButton(s) = t
        BY <1>3, <1>5
    <2>. QED
        BY <1>2, <1>5, <2>1 DEF Good, InStep, Accounted, Stoppable, HasText, UI
<1>. QED
    BY <1>4, <1>5

(* The frames of an edited text are counted, and the next one taken.       *)
LEMMA NextFrameIsPrepared ==
    ASSUME NEW s \in UI
    PROVE  /\ PrepareNextMessageFrame(s) \in UI
           /\ \A f \in Kept \ {"next", "count"} :
                PrepareNextMessageFrame(s)[f] = s[f]
           /\ s.queue = << >> /\ ~HasText(s)
                => /\ PrepareNextMessageFrame(s).next = None
                   /\ PrepareNextMessageFrame(s).count = s.count
<1> DEFINE t == IF s.dirty /\ HasText(s)
                THEN [s EXCEPT !.queue = s.unsent, !.count = Len(s.unsent),
                               !.dirty = FALSE]
                ELSE s
<1>1. Len(s.unsent) \in Nat
    BY LenProperties DEF UI
<1>2. t \in UI /\ \A f \in Kept \ {"count"} : t[f] = s[f]
    <2>1. CASE s.dirty /\ HasText(s)
        <3>1. t = [s EXCEPT !.queue = s.unsent, !.count = Len(s.unsent),
                            !.dirty = FALSE]
            BY <2>1
        <3> HIDE DEF t
        <3>. QED
            BY <1>1, <3>1 DEF UI, Kept
    <2>2. CASE ~(s.dirty /\ HasText(s))
        BY <2>2
    <2>. QED
        BY <2>1, <2>2
<1>3. CASE t.queue = << >>
    <2>1. PrepareNextMessageFrame(s) = [t EXCEPT !.next = None]
        BY <1>3 DEF PrepareNextMessageFrame
    <2>2. None \in Frame \cup {None}
        OBVIOUS
    <2>3. s.queue = << >> /\ ~HasText(s) => t = s
        OBVIOUS
    <2>. QED
        BY <1>2, <2>1, <2>2, <2>3 DEF UI, Kept
<1>4. CASE t.queue # << >>
    <2>1. PrepareNextMessageFrame(s) =
            [t EXCEPT !.next = Head(t.queue), !.queue = Tail(@), !.sent = TRUE,
                      !.unsent = Tail(t.queue)]
        BY <1>4 DEF PrepareNextMessageFrame
    <2>2. t.queue \in Seq(Frame)
        BY <1>2 DEF UI
    <2>3. Head(t.queue) \in Frame /\ Tail(t.queue) \in Seq(Frame)
        BY <1>4, <2>2, HeadTailProperties
    <2>4. ~(s.queue = << >> /\ ~HasText(s))
        BY <1>4
    <2>. QED
        BY <1>2, <2>1, <2>3, <2>4 DEF UI, Kept
<1>. QED
    BY <1>3, <1>4

(* stopTx, while the button is down or when there is nothing to send.      *)
LEMMA StopTxStops ==
    ASSUME NEW held \in BOOLEAN, NEW s \in UI, s.btxok0 = s.iptt0,
           \/ s.button
           \/ s.queue = << >> /\ ~HasText(s) /\ ~s.auto /\ s.count = 0,
           s.auto => s.button, s.count > 0 => s.button
    PROVE  Good(StopTx(s), held)
<1> DEFINE e == EndTransmit(s)
           t == PrepareNextMessageFrame(e)
<1>1. /\ e \in UI
      /\ ~e.iptt /\ ~e.transmitting /\ ~e.btxok /\ e.timer
      /\ e.auto = s.auto /\ e.button = s.button
      /\ e.btxok0 = s.btxok0 /\ e.iptt0 = s.iptt0
      /\ e.queue = s.queue /\ HasText(e) = HasText(s) /\ e.count = s.count
    BY EndTransmitEnds DEF HasText, Kept
<1>2. /\ t \in UI
      /\ ~t.iptt /\ ~t.transmitting /\ ~t.btxok /\ t.timer
      /\ t.auto = s.auto /\ t.button = s.button
      /\ t.btxok0 = t.iptt0
      /\ ~s.button => t.next = None /\ t.count = 0
    BY <1>1, NextFrameIsPrepared DEF Kept
<1>3. CASE t.next = None
    <2>1. Stoppable(t)
        BY <1>2 DEF Stoppable
    <2>. QED
        BY <1>3, <2>1, StopTxButtonStops DEF StopTx
<1>4. CASE t.next # None
    BY <1>2, <1>4 DEF StopTx, Good, InStep, Accounted, UI
<1>. QED
    BY <1>3, <1>4

(* The button is down and the state is nearly good: it may be that a frame *)
(* was keyed that prepareSending will stop at once.                        *)
Mid(s, held) ==
    /\ s \in UI
    /\ s.btxok0 = s.iptt0
    /\ s.iptt => s.auto /\ s.next # None
    /\ s.auto => s.button
    /\ Accounted(s, held)

(* A frame is keyed: it is not btxok yet.                                  *)
LEMMA KeyKeys ==
    ASSUME NEW held \in BOOLEAN, NEW s, Good(s, held), s.next # None => s.auto
    PROVE  /\ Mid(Key(s), held)
           /\ ~Key(s).iptt => InStep(Key(s))
           /\ \/ InStep(Key(s))
              \/ MayBegin /\ ~Key(s).btxok /\ Key(s).iptt
<1> DEFINE k == [s EXCEPT !.iptt = TRUE, !.awaiting = TRUE]
           f == EmitFrequency(k)
<1>1. s \in UI /\ InStep(s) /\ Accounted(s, held)
    BY DEF Good
<1>2. CASE ~(~s.iptt /\ MayBegin /\ s.next # None)
    <2>1. Key(s) = s
        BY <1>2 DEF Key
    <2>. QED
        BY <1>1, <2>1 DEF Mid, InStep
<1>3. CASE ~s.iptt /\ MayBegin /\ s.next # None
    <2>1. /\ k \in UI /\ k.iptt /\ k.next = s.next /\ k.count = s.count
          /\ \A g \in Kept \ {"iptt"} : k[g] = s[g]
        BY <1>1 DEF UI, Kept
    <2> HIDE DEF k
    <2>2. /\ f \in UI
          /\ \A g \in Kept \ {"ptt"} : f[g] = k[g]
        <3>1. k.ptt \in BOOLEAN
            BY <2>1 DEF UI
        <3>. QED
            BY <2>1, <3>1, EmitsPtt, EmitsOnlyPtt DEF EmitFrequency
    <2>3. /\ EmitPtt(f, TRUE) \in UI
          /\ EmitPtt(f, TRUE).ptt
          /\ \A g \in Kept \ {"ptt"} : EmitPtt(f, TRUE)[g] = f[g]
        BY <2>2, EmitsPtt, EmitsOnlyPtt
    <2>4. Key(s) = EmitPtt(f, TRUE)
        BY <1>3 DEF Key, k
    <2> HIDE DEF f
    <2>5. /\ Key(s) \in UI /\ Key(s).iptt /\ Key(s).ptt
          /\ Key(s).next = s.next /\ Key(s).count = s.count
          /\ Key(s).btxok = s.btxok /\ Key(s).btxok0 = s.btxok0
          /\ Key(s).iptt0 = s.iptt0
          /\ Key(s).auto = s.auto /\ Key(s).button = s.button
        BY <2>1, <2>2, <2>3, <2>4 DEF Kept
    <2>. QED
        BY <1>1, <1>3, <2>5 DEF Mid, InStep, Accounted
<1>. QED
    BY <1>2, <1>3

(* The middle of prepareSending: what it stops is keyed and not btxok.     *)
LEMMA TimeToStopKeeps ==
    ASSUME NEW held \in BOOLEAN, NEW s, Mid(s, held),
           InStep(s) \/ (MayBegin /\ ~s.btxok /\ s.iptt)
    PROVE  /\ Mid(TimeToStop(s), held)
           /\ \/ InStep(TimeToStop(s))
              \/ ~TimeToStop(s).btxok /\ TimeToStop(s).iptt
<1> DEFINE t == [s EXCEPT !.btxok = FALSE]
<1>1. s \in UI
    BY DEF Mid
<1>2. CASE phase = "gap"
    <2>1. t \in UI /\ ~t.btxok /\ \A g \in Kept \ {"btxok"} : t[g] = s[g]
        BY <1>1 DEF UI, Kept
    <2>2. TimeToStop(s) = t
        BY <1>2 DEF TimeToStop
    <2>3. InStep(s)
        BY <1>2 DEF MayBegin
    <2> HIDE DEF t
    <2>. QED
        BY <2>1, <2>2, <2>3 DEF Mid, InStep, Accounted, Kept, UI
<1>3. CASE phase # "gap"
    BY <1>3 DEF TimeToStop
<1>. QED
    BY <1>2, <1>3

(* What is left keyed without btxok was keyed before the last poll.        *)
LEMMA TransmittingStarts ==
    ASSUME NEW held \in BOOLEAN, NEW s, Mid(s, held),
           InStep(s) \/ (~s.btxok /\ s.iptt)
    PROVE  /\ Mid(StartTransmitting(s), held)
           /\ \/ InStep(StartTransmitting(s))
              \/ /\ ~StartTransmitting(s).btxok
                 /\ StartTransmitting(s).iptt
                 /\ StartTransmitting(s).iptt0
<1> DEFINE t == [s EXCEPT !.itone = s.next, !.transmitting = TRUE, !.btxok = TRUE]
<1>1. s \in UI
    BY DEF Mid
<1>2. CASE s.iptt /\ ~s.iptt0
    <2>1. /\ t \in UI
          /\ t.transmitting /\ t.btxok /\ t.next = s.next /\ t.count = s.count
          /\ \A g \in Kept \ {"transmitting", "btxok"} : t[g] = s[g]
        BY <1>1 DEF UI, Kept
    <2>2. StartTransmitting(s) = t
        BY <1>2 DEF StartTransmitting
    <2> HIDE DEF t
    <2>. QED
        BY <1>2, <2>1, <2>2 DEF Mid, InStep, Accounted, Kept
<1>3. CASE ~(s.iptt /\ ~s.iptt0)
    <2>1. StartTransmitting(s) = s
        BY <1>3 DEF StartTransmitting
    <2>. QED
        BY <1>3, <2>1 DEF InStep
<1>. QED
    BY <1>2, <1>3

(* prepareSending leaves a good state, from a message that was started.    *)
LEMMA PrepareSendingIsGood ==
    ASSUME NEW held \in BOOLEAN, NEW s, Good(s, held), s.next # None => s.auto
    PROVE  Good(PrepareSending(s), held)
<1> DEFINE a == StopWithoutMessage(s)
           b == Key(a)
           c == TimeToStop(b)
           d == StartTransmitting(c)
<1>1. Good(a, held) /\ (a.next # None => a.auto)
    <2>1. CASE s.next = None
        <3>1. Stoppable(s)
            BY <2>1 DEF Good, InStep, Accounted, Stoppable
        <3>. QED
            BY <2>1, <3>1, StopTxButtonStops DEF StopWithoutMessage
    <2>2. CASE s.next # None
        BY <2>2 DEF StopWithoutMessage
    <2>. QED
        BY <2>1, <2>2
<1>2. Mid(b, held) /\ (InStep(b) \/ (MayBegin /\ ~b.btxok /\ b.iptt))
    BY <1>1, KeyKeys
<1>3. Mid(c, held) /\ (InStep(c) \/ (~c.btxok /\ c.iptt))
    BY <1>2, TimeToStopKeeps
<1>4. Mid(d, held) /\ (InStep(d) \/ (~d.btxok /\ d.iptt /\ d.iptt0))
    BY <1>3, TransmittingStarts
<1>5. PrepareSending(s) = StopWhenDone(d)
    BY DEF PrepareSending
<1> HIDE DEF d
<1>6. CASE ~d.btxok /\ d.btxok0 /\ d.iptt
    <2>1. Good(StopTx(d), held)
        BY <1>4, <1>6, StopTxStops DEF Mid, Accounted
    <2>. QED
        BY <1>5, <1>6, <2>1 DEF StopWhenDone
<1>7. CASE ~(~d.btxok /\ d.btxok0 /\ d.iptt)
    <2>1. InStep(d)
        BY <1>4, <1>7 DEF Mid
    <2>. QED
        BY <1>4, <1>5, <1>7, <2>1 DEF StopWhenDone, Mid, Good
<1>. QED
    BY <1>6, <1>7

(* The stop button may be clicked in every good state.                     *)
LEMMA GoodIsStoppable ==
    ASSUME NEW held \in BOOLEAN, NEW s, Good(s, held)
    PROVE  Stoppable(s)
BY DEF Good, InStep, Accounted, Stoppable

(* startTx, when the button went down.                                     *)
LEMMA StartTxIsGood ==
    ASSUME NEW held \in BOOLEAN, NEW s, Good(s, held), s.button, ~s.auto,
           ~(s.count > 0)
    PROVE  Good(StartTx(s), held)
<1> DEFINE t == PrepareNextMessageFrame(s)
           u == [t EXCEPT !.auto = TRUE]
<1>1. Good(t, held) /\ ~t.auto /\ t.button
    <2>1. t \in UI /\ \A f \in Kept \ {"next", "count"} : t[f] = s[f]
        BY NextFrameIsPrepared DEF Good
    <2> HIDE DEF t
    <2>. QED
        BY <2>1 DEF Good, InStep, Accounted, Kept
<1>2. Good(StopTxButton(s), held)
    BY GoodIsStoppable, StopTxButtonStops
<1>3. t.next # None => Good(PrepareSending(u), held)
    <2>1. /\ u \in UI /\ u.auto
          /\ \A f \in Kept \ {"auto"} : u[f] = t[f]
        BY <1>1 DEF Good, UI, Kept
    <2> HIDE DEF u, t
    <2>2. Good(u, held)
        BY <1>1, <2>1 DEF Good, InStep, Accounted, Kept
    <2>. QED
        BY <2>1, <2>2, PrepareSendingIsGood
<1> HIDE DEF t
<1>. QED
    BY <1>1, <1>2, <1>3 DEF StartTx, t

(* toggleTx(true), whether the button is down already or not.              *)
LEMMA ToggleTxIsGood ==
    ASSUME NEW held \in BOOLEAN, NEW s, Good(s, held)
    PROVE  Good(ToggleTx(s), held)
<1> DEFINE t == [s EXCEPT !.button = TRUE]
<1>1. CASE s.button
    BY <1>1 DEF ToggleTx
<1>2. CASE ~s.button
    <2>1. /\ t \in UI /\ t.button
          /\ \A f \in Kept \ {"button"} : t[f] = s[f]
        BY DEF Good, UI, Kept
    <2>2. ToggleTx(s) = StartTx(t)
        BY <1>2 DEF ToggleTx
    <2> HIDE DEF t
    <2>3. Good(t, held) /\ ~t.auto /\ ~(t.count > 0)
        BY <1>2, <2>1 DEF Good, InStep, Accounted, Kept
    <2>. QED
        BY <2>1, <2>2, <2>3, StartTxIsGood
<1>. QED
    BY <1>1, <1>2

(* A queued message is put into the composer and may be started.           *)
LEMMA ProcessTxQueueIsGood ==
    ASSUME NEW held \in BOOLEAN, NEW s, Good(s, held)
    PROVE  Good(ProcessTxQueue(s), held)
<1>1. CASE s.messages = << >> \/ s.queue # << >> \/ HasText(s) \/ Queued(s)
    BY <1>1 DEF ProcessTxQueue
<1>2. CASE ~(s.messages = << >> \/ s.queue # << >> \/ HasText(s) \/ Queued(s))
    <2> DEFINE m == Head(s.messages)
               rest == Tail(s.messages)
               p == [s EXCEPT !.messages = rest]
               t == AddMessageText(p, m.frames, TRUE)
    <2>1. s.messages \in Seq(Message)
        BY DEF Good, UI
    <2>2. m \in Message /\ rest \in Seq(Message)
        BY <1>2, <2>1, HeadTailProperties
    <2>3. p \in UI /\ \A f \in Kept : p[f] = s[f]
        <3> HIDE DEF rest
        <3>. QED
            BY <2>2 DEF Good, UI, Kept
    <2>4. m.frames \in Seq(Frame)
        BY <2>2 DEF Message
    <2>5. ProcessTxQueue(s) = IF m.high \/ s.autoreply THEN ToggleTx(t) ELSE t
        BY <1>2 DEF ProcessTxQueue
    <2> HIDE DEF p, m
    <2>6. Good(p, held)
        BY <2>3 DEF Good, InStep, Accounted, Kept
    <2>7. Good(t, held)
        BY <2>4, <2>6, TextIsAdded
    <2> HIDE DEF t
    <2>. QED
        BY <2>5, <2>7, ToggleTxIsGood
<1>. QED
    BY <1>1, <1>2

(* The poll keeps the values for the next poll.                            *)
LEMMA PollIsGood ==
    ASSUME NEW held \in BOOLEAN, NEW s, Good(s, held)
    PROVE  Good(TransmitDisplay(s), held) /\ Good(KeepLastValues(s), held)
<1> DEFINE t == [s EXCEPT !.btxok = TRUE]
           k == [s EXCEPT !.iptt0 = s.iptt, !.btxok0 = s.btxok]
<1>1. s \in UI
    BY DEF Good
<1>2. /\ t \in UI /\ t.btxok
      /\ \A f \in Kept \ {"btxok"} : t[f] = s[f]
    BY <1>1 DEF UI, Kept
<1>3. /\ k \in UI /\ k.iptt0 = s.iptt /\ k.btxok0 = s.btxok
      /\ \A f \in Kept \ {"iptt0", "btxok0"} : k[f] = s[f]
    BY <1>1 DEF UI, Kept
<1>4. TransmitDisplay(s) = (IF s.transmitting THEN t ELSE s) /\ KeepLastValues(s) = k
    BY DEF TransmitDisplay, KeepLastValues
<1> HIDE DEF t, k
<1>5. s.transmitting => Good(t, held)
    BY <1>1, <1>2 DEF Good, InStep, Accounted, Kept, UI
<1>6. Good(k, held)
    BY <1>1, <1>3 DEF Good, InStep, Accounted, Kept
<1>. QED
    BY <1>4, <1>5, <1>6

-----------------------------------------------------------------------------
(* The inductive invariant, and what a handler that returns preserves.     *)
IInv == TypeOK /\ Good(ui, hold)

(* Outdated updates are updates.                                           *)
LEMMA OutdatedUpdates ==
    ASSUME NEW us \in Seq(Update)
    PROVE  Outdated(us) \in Seq(Update)
<1>1. \A i \in 1 .. Len(us) : [us[i] EXCEPT !.current = FALSE] \in Update
    <2> TAKE i \in 1 .. Len(us)
    <2>1. us[i] \in Update
        BY ElementOfSeq
    <2>. QED
        BY <2>1 DEF Update
<1>2. Outdated(us) = [i \in 1 .. Len(us) |-> [us[i] EXCEPT !.current = FALSE]]
    BY DEF Outdated
<1>. QED
    BY <1>1, <1>2, LenProperties, IsASeq

(* A handler that leaves a good record preserves the invariant.            *)
LEMMA HandlerReturns ==
    ASSUME TypeOK, NEW s, Good(s, hold), NEW us \in Seq(Update), Return(s, us),
           polled' \in BOOLEAN, typed' \in 0 .. MaxFrames,
           halts' \in Nat, changes' \in Nat
    PROVE  IInv'
<1> DEFINE t == [s EXCEPT !.toRig = << >>, !.toModulator = << >>]
<1>1. s \in UI
    BY DEF Good
<1>2. t \in UI /\ \A f \in Kept : t[f] = s[f]
    <2>1. << >> \in Seq(BOOLEAN) /\ << >> \in Seq({"start", "stop"})
        OBVIOUS
    <2>. QED
        BY <1>1, <2>1 DEF UI, Kept
<1>3. ui' = t /\ hold' = hold
    BY DEF Return
<1> HIDE DEF t
<1>4. Good(ui', hold')
    BY <1>2, <1>3 DEF Good, InStep, Accounted, Kept
<1>5. rigQ' \in Seq(BOOLEAN) /\ modQ' \in Seq({"start", "stop"})
    <2>1. s.toRig \in Seq(BOOLEAN) /\ s.toModulator \in Seq({"start", "stop"})
        BY <1>1 DEF UI
    <2>. QED
        BY <2>1, ConcatProperties DEF TypeOK, Return
<1>6. updates' \in Seq(Update)
    BY OutdatedUpdates DEF Return
<1>7. onAir' \in Frame \cup {None}
    BY DEF Return, TypeOK
<1>8. UNCHANGED <<phase, rigPtt, modulator, aired>>
    BY DEF Return
<1>9. ui' \in UI
    BY <1>2, <1>3
<1>. QED
    BY <1>3, <1>4, <1>5, <1>6, <1>7, <1>8, <1>9 DEF TypeOK, IInv

(* The program starts with nothing to send.                                *)
LEMMA InitIsGood == Init => IInv
<1> SUFFICES ASSUME Init PROVE IInv
    OBVIOUS
<1>1. PICK autoreply \in BOOLEAN : ui = [Idle EXCEPT !.autoreply = autoreply]
    BY DEF Init
<1>2. /\ << >> \in Seq(BOOLEAN) /\ << >> \in Seq({"start", "stop"})
      /\ << >> \in Seq(Frame) /\ << >> \in Seq(Message) /\ << >> \in Seq(Update)
      /\ None \in Frame \cup {None}
    OBVIOUS
<1>3. ui \in UI
    BY <1>1, <1>2 DEF Idle, UI
<1>4. InStep(ui) /\ Accounted(ui, hold)
    BY <1>1 DEF Idle, InStep, Accounted
<1>5. hold \in BOOLEAN /\ 0 \in 0 .. MaxFrames
    BY BoundAssumption DEF Init
<1>. QED
    BY <1>2, <1>3, <1>4, <1>5 DEF Init, IInv, TypeOK, Phases, Good

-----------------------------------------------------------------------------
(* The handlers of the GUI thread, one by one.                             *)

(* What the lemmas on the actions take from the invariant.                 *)
LEMMA InvariantGives ==
    ASSUME IInv
    PROVE  /\ Good(ui, hold) /\ ui \in UI /\ hold \in BOOLEAN
           /\ Stoppable(ui)
           /\ updates \in Seq(Update)
           /\ typed \in 0 .. MaxFrames /\ halts \in Nat /\ changes \in Nat
BY GoodIsStoppable DEF IInv, TypeOK

(* The poll sends while a message is started.                              *)
LEMMA GuiUpdatePreserves ==
    ASSUME IInv, NEW second \in BOOLEAN, GuiUpdate(second)
    PROVE  IInv'
<1> DEFINE s == IF ui.transmitting \/ ui.auto THEN PrepareSending(ui) ELSE ui
           q == IF second THEN ProcessTxQueue(TransmitDisplay(s)) ELSE s
<1>1. Good(s, hold)
    <2>1. CASE ui.transmitting \/ ui.auto
        <3>1. ui.auto
            BY <2>1, InvariantGives DEF Good, InStep
        <3>. QED
            BY <2>1, <3>1, InvariantGives, PrepareSendingIsGood
    <2>2. CASE ~(ui.transmitting \/ ui.auto)
        BY <2>2, InvariantGives
    <2>. QED
        BY <2>1, <2>2
<1> HIDE DEF s
<1>2. Good(q, hold)
    BY <1>1, InvariantGives, PollIsGood, ProcessTxQueueIsGood
<1>3. Return(KeepLastValues(q), updates) /\ polled' = TRUE
      /\ UNCHANGED <<typed, halts, changes>>
    BY DEF GuiUpdate, s
<1> HIDE DEF q
<1>4. Good(KeepLastValues(q), hold)
    BY <1>2, InvariantGives, PollIsGood
<1>. QED
    BY <1>3, <1>4, InvariantGives, HandlerReturns DEF IInv

(* A handler that does not poll.                                           *)
LEMMA HandlerPreserves ==
    ASSUME IInv, NEW s, Good(s, hold), Handler(s),
           typed' \in 0 .. MaxFrames, halts' \in Nat, changes' \in Nat
    PROVE  IInv'
BY InvariantGives, HandlerReturns DEF Handler, IInv, TypeOK

(* Typing changes the composer only.                                       *)
LEMMA TypePreserves ==
    ASSUME IInv, Type
    PROVE  IInv'
<1> DEFINE unsent == Append(ui.unsent, typed + 1)
           s == [ui EXCEPT !.unsent = unsent, !.dirty = TRUE]
<1>1. typed + 1 \in Frame /\ typed' \in 0 .. MaxFrames
    BY InvariantGives, BoundAssumption DEF Type, Frame
<1>2. unsent \in Seq(Frame)
    BY <1>1, InvariantGives, AppendProperties DEF UI
<1>3. Handler(s) /\ UNCHANGED <<halts, changes>>
    BY DEF Type, unsent
<1> HIDE DEF unsent
<1>4. s \in UI /\ \A f \in Kept : s[f] = ui[f]
    BY <1>2, InvariantGives DEF UI, Kept
<1> HIDE DEF s
<1>5. Good(s, hold)
    BY <1>4, InvariantGives DEF Good, InStep, Accounted, Kept
<1>. QED
    BY <1>1, <1>3, <1>5, InvariantGives, HandlerPreserves

(* So does erasing.                                                        *)
LEMMA ErasePreserves ==
    ASSUME IInv, Erase
    PROVE  IInv'
<1> DEFINE s == [ui EXCEPT !.unsent = << >>, !.dirty = TRUE]
<1>1. Handler(s) /\ UNCHANGED <<typed, halts, changes>>
    BY DEF Erase
<1>2. << >> \in Seq(Frame)
    OBVIOUS
<1>3. s \in UI /\ \A f \in Kept : s[f] = ui[f]
    BY <1>2, InvariantGives DEF UI, Kept
<1> HIDE DEF s
<1>4. Good(s, hold)
    BY <1>3, InvariantGives DEF Good, InStep, Accounted, Kept
<1>. QED
    BY <1>1, <1>4, InvariantGives, HandlerPreserves

(* The start button: with the button down the click lifts it.              *)
LEMMA StartTxButtonPreserves ==
    ASSUME IInv, StartTxButton
    PROVE  IInv'
<1> DEFINE t == StopTxButton(ui)
           e == EndTransmit(t)
<1>1. Good(t, hold) /\ ~t.auto /\ ~t.button /\ t.count = 0
    BY InvariantGives, StopTxButtonStops
<1> HIDE DEF t
<1>2. /\ e \in UI /\ ~e.iptt /\ ~e.transmitting /\ ~e.btxok /\ e.timer
      /\ ~e.auto /\ e.count = 0 /\ e.btxok0 = t.btxok0 /\ e.iptt0 = t.iptt0
    BY <1>1, EndTransmitEnds DEF Good, Kept
<1> HIDE DEF e
<1>3. Good(e, hold)
    BY <1>1, <1>2 DEF Good, InStep, Accounted, UI
<1>4. Good(ToggleTx(ui), hold)
    BY InvariantGives, ToggleTxIsGood
<1>5. Handler(IF ui.button THEN e ELSE ToggleTx(ui))
      /\ UNCHANGED <<typed, halts, changes>>
    BY DEF StartTxButton, e, t
<1>. QED
    BY <1>3, <1>4, <1>5, InvariantGives, HandlerPreserves

(* A macro is added to the composer and started.                           *)
LEMMA SendMacroPreserves ==
    ASSUME IInv, SendMacro
    PROVE  IInv'
<1>1. typed + 1 \in Frame /\ typed' \in 0 .. MaxFrames
    BY InvariantGives, BoundAssumption DEF SendMacro, Frame
<1>2. <<typed + 1>> \in Seq(Frame)
    BY <1>1
<1>3. Good(AddMessageText(ui, <<typed + 1>>, FALSE), hold)
    BY <1>2, InvariantGives, TextIsAdded
<1>4. Good(ToggleTx(AddMessageText(ui, <<typed + 1>>, FALSE)), hold)
    BY <1>3, InvariantGives, ToggleTxIsGood
<1>. QED
    BY <1>1, <1>4, InvariantGives, HandlerPreserves DEF SendMacro

(* A message is queued; the API may take one from the queue at once.       *)
LEMMA EnqueueMessagePreserves ==
    ASSUME IInv, NEW length \in 1 .. 2, NEW high \in BOOLEAN,
           NEW process \in BOOLEAN, EnqueueMessage(length, high, process)
    PROVE  IInv'
<1> DEFINE frames == [i \in 1 .. length |-> typed + i]
           m == [frames |-> frames, high |-> high]
           messages == Push(m, ui.messages)
           s == [ui EXCEPT !.messages = messages]
<1>1. typed' \in 0 .. MaxFrames /\ UNCHANGED <<halts, changes>>
    BY InvariantGives, BoundAssumption DEF EnqueueMessage
<1>2. frames \in Seq(Frame)
    <2>1. \A i \in 1 .. length : typed + i \in Frame
        BY InvariantGives, BoundAssumption DEF EnqueueMessage, Frame
    <2>. QED
        BY <2>1, IsASeq
<1>3. m \in Message
    <2> HIDE DEF frames
    <2>. QED
        BY <1>2 DEF Message
<1>4. Handler(IF process THEN ProcessTxQueue(s) ELSE s)
    BY DEF EnqueueMessage
<1> HIDE DEF m
<1>5. messages \in Seq(Message)
    <2>1. ui.messages \in Seq(Message) /\ <<m>> \in Seq(Message)
        BY <1>3, InvariantGives DEF UI
    <2>. QED
        BY <2>1, ConcatProperties DEF Push
<1> HIDE DEF messages
<1>6. s \in UI /\ \A f \in Kept : s[f] = ui[f]
    BY <1>5, InvariantGives DEF UI, Kept
<1> HIDE DEF s
<1>7. Good(s, hold)
    BY <1>6, InvariantGives DEF Good, InStep, Accounted, Kept
<1>8. Good(ProcessTxQueue(s), hold)
    BY <1>7, InvariantGives, ProcessTxQueueIsGood
<1>. QED
    BY <1>1, <1>4, <1>7, <1>8, InvariantGives, HandlerPreserves

(* The stop button.                                                        *)
LEMMA OnStopTxButtonPreserves ==
    ASSUME IInv, OnStopTxButton
    PROVE  IInv'
<1>1. Good(StopTxButton(ui), hold)
    BY InvariantGives, StopTxButtonStops
<1>. QED
    BY <1>1, InvariantGives, HandlerPreserves DEF OnStopTxButton

(* Escape stops twice: the second stop finds nothing to send.              *)
LEMMA EscapePreserves ==
    ASSUME IInv, Escape
    PROVE  IInv'
<1> DEFINE t == StopTxButton(ui)
<1>1. /\ Good(t, hold) /\ t.queue = << >> /\ ~HasText(t)
      /\ ~t.auto /\ ~t.button /\ t.count = 0
    BY InvariantGives, StopTxButtonStops
<1>2. Handler(StopTx(t)) /\ halts' = halts + 1 /\ UNCHANGED <<typed, changes>>
    BY DEF Escape
<1> HIDE DEF t
<1>3. Good(StopTx(t), hold)
    <2>1. t \in UI /\ t.btxok0 = t.iptt0 /\ ~(t.count > 0)
        BY <1>1 DEF Good, InStep
    <2>. QED
        BY <1>1, <2>1, InvariantGives, StopTxStops
<1>. QED
    BY <1>2, <1>3, InvariantGives, HandlerPreserves

(* Switching transmission off stops it.                                    *)
LEMMA OnMonitorTxButtonPreserves ==
    ASSUME IInv, OnMonitorTxButton
    PROVE  IInv'
<1> DEFINE t == StopTxButton(ui)
           off == [t EXCEPT !.enabled = FALSE]
           on == [ui EXCEPT !.enabled = TRUE]
<1>1. Good(t, hold)
    BY InvariantGives, StopTxButtonStops
<1>2. /\ Handler(IF ui.enabled THEN off ELSE on)
      /\ changes' = changes + 1 /\ UNCHANGED <<typed, halts>>
    BY DEF OnMonitorTxButton
<1> HIDE DEF t
<1>3. /\ off \in UI /\ \A f \in Kept : off[f] = t[f]
      /\ on \in UI /\ \A f \in Kept : on[f] = ui[f]
    <2>1. off \in UI /\ \A f \in Kept : off[f] = t[f]
        BY <1>1 DEF Good, UI, Kept
    <2>2. on \in UI /\ \A f \in Kept : on[f] = ui[f]
        BY InvariantGives DEF UI, Kept
    <2>. QED
        BY <2>1, <2>2
<1> HIDE DEF off, on
<1>4. Good(off, hold) /\ Good(on, hold)
    BY <1>1, <1>3, InvariantGives DEF Good, InStep, Accounted, Kept
<1>. QED
    BY <1>2, <1>4, InvariantGives, HandlerPreserves

(* The watchdog calls stopTx while the button may be up and text waits in  *)
(* the composer: it takes a frame then, and forgets the others itself.     *)
LEMMA StopTxWithoutButton ==
    ASSUME NEW s \in UI, s.btxok0 = s.iptt0, ~s.auto
    PROVE  /\ StopTx(s) \in UI
           /\ \A f \in {"iptt", "transmitting", "btxok", "auto"} : ~StopTx(s)[f]
           /\ StopTx(s).btxok0 = StopTx(s).iptt0
           /\ StopTx(s).ptt => StopTx(s).timer
<1> DEFINE e == EndTransmit(s)
           t == PrepareNextMessageFrame(e)
<1>1. /\ e \in UI /\ ~e.iptt /\ ~e.transmitting /\ ~e.btxok /\ e.timer
      /\ ~e.auto /\ e.btxok0 = e.iptt0
    BY EndTransmitEnds DEF Kept
<1> HIDE DEF e
<1>2. /\ t \in UI /\ ~t.iptt /\ ~t.transmitting /\ ~t.btxok /\ t.timer
      /\ ~t.auto /\ t.btxok0 = t.iptt0
    BY <1>1, NextFrameIsPrepared DEF Kept
<1>3. StopTx(s) = IF t.next = None THEN StopTxButton(t) ELSE t
    BY DEF StopTx, e
<1> HIDE DEF t
<1>4. Stoppable(t)
    BY <1>2 DEF Stoppable
<1>5. t.next = None => /\ Good(StopTxButton(t), FALSE)
                       /\ ~StopTxButton(t).auto
    BY <1>4, StopTxButtonStops
<1>6. CASE t.next = None
    BY <1>3, <1>5, <1>6 DEF Good, InStep, Accounted, UI
<1>7. CASE t.next # None
    BY <1>2, <1>3, <1>7
<1>. QED
    BY <1>6, <1>7

(* The idle watchdog.                                                      *)
LEMMA TxWatchdogPreserves ==
    ASSUME IInv, TxWatchdog
    PROVE  IInv'
<1> DEFINE a == IF ui.auto THEN StopTxButton(ui) ELSE ui
           s == StopTx(a)
           t == [s EXCEPT !.queue = << >>, !.count = 0, !.autoreply = FALSE]
<1>1. Good(a, hold) /\ ~a.auto
    BY InvariantGives, StopTxButtonStops
<1>2. Handler(t) /\ halts' = halts + 1 /\ UNCHANGED <<typed, changes>>
    BY DEF TxWatchdog
<1> HIDE DEF a
<1>3. /\ s \in UI /\ ~s.iptt /\ ~s.transmitting /\ ~s.btxok /\ ~s.auto
      /\ s.btxok0 = s.iptt0 /\ (s.ptt => s.timer)
    BY <1>1, StopTxWithoutButton DEF Good, InStep
<1> HIDE DEF s
<1>4. << >> \in Seq(Frame)
    OBVIOUS
<1>5. t \in UI /\ t.count = 0 /\ \A f \in Kept \ {"count"} : t[f] = s[f]
    BY <1>3, <1>4 DEF UI, Kept
<1> HIDE DEF t
<1>6. Good(t, hold)
    BY <1>3, <1>5 DEF Good, InStep, Accounted, Kept, UI
<1>. QED
    BY <1>2, <1>6, InvariantGives, HandlerPreserves

(* A command for the frequency repeats the PTT as it is.                   *)
LEMMA SetRigPreserves ==
    ASSUME IInv, SetRig
    PROVE  IInv'
<1> DEFINE s == EmitPtt(ui, ui.ptt)
<1>1. ui.ptt \in BOOLEAN
    BY InvariantGives DEF UI
<1>2. s \in UI /\ \A f \in Kept : s[f] = ui[f]
    BY <1>1, InvariantGives, EmitsPtt, EmitsOnlyPtt
<1>3. Handler(s) /\ changes' = changes + 1 /\ UNCHANGED <<typed, halts>>
    BY DEF SetRig, EmitFrequency
<1> HIDE DEF s
<1>4. Good(s, hold)
    BY <1>2, InvariantGives DEF Good, InStep, Accounted, Kept
<1>. QED
    BY <1>3, <1>4, InvariantGives, HandlerPreserves

(* The timer fires: the PTT is released, or held for a message.            *)
LEMMA StopTx2Preserves ==
    ASSUME IInv, StopTx2
    PROVE  IInv'
<1> DEFINE s == [ui EXCEPT !.timer = FALSE]
           e == EmitPtt(s, FALSE)
<1>1. s \in UI /\ ~s.timer /\ \A f \in Kept \ {"timer"} : s[f] = ui[f]
    BY InvariantGives DEF UI, Kept
<1>2. /\ Handler(IF hold /\ s.count > 0 THEN s ELSE e)
      /\ UNCHANGED <<typed, halts, changes>>
    BY DEF StopTx2
<1> HIDE DEF s
<1>3. e \in UI /\ ~e.ptt /\ \A f \in Kept \ {"ptt"} : e[f] = s[f]
    BY <1>1, EmitsPtt, EmitsOnlyPtt
<1> HIDE DEF e
<1>4. Good(e, hold)
    BY <1>1, <1>3, InvariantGives DEF Good, InStep, Accounted, Kept
<1>5. hold /\ s.count > 0 => Good(s, hold)
    BY <1>1, InvariantGives DEF Good, InStep, Accounted, Kept
<1>. QED
    BY <1>2, <1>4, <1>5, InvariantGives, HandlerPreserves

(* An update of the rig may start the modulator.                           *)
LEMMA HandleTransceiverUpdatePreserves ==
    ASSUME IInv, HandleTransceiverUpdate
    PROVE  IInv'
<1> DEFINE u == Head(updates)
           confirmed == hold \/ (u.ptt /\ ~ui.reported)
           starts == confirmed /\ ui.awaiting /\ ui.iptt /\ modulator = "idle"
           signals == IF starts THEN Append(ui.toModulator, "start")
                                ELSE ui.toModulator
           awaiting == ui.awaiting /\ ~confirmed
           s == [ui EXCEPT !.reported = u.ptt, !.awaiting = awaiting,
                           !.toModulator = signals]
<1>1. u \in Update /\ Tail(updates) \in Seq(Update)
    BY InvariantGives, HeadTailProperties DEF HandleTransceiverUpdate
<1>2. signals \in Seq({"start", "stop"}) /\ awaiting \in BOOLEAN
    BY InvariantGives, AppendProperties DEF UI
<1>3. /\ Return(IF ~u.current THEN ui ELSE s, Tail(updates))
      /\ UNCHANGED <<polled, typed, halts, changes>>
    BY DEF HandleTransceiverUpdate
<1> HIDE DEF signals, awaiting
<1>4. u.ptt \in BOOLEAN
    BY <1>1 DEF Update
<1> HIDE DEF u
<1>5. s \in UI /\ \A f \in Kept : s[f] = ui[f]
    BY <1>2, <1>4, InvariantGives DEF UI, Kept
<1> HIDE DEF s
<1>6. Good(s, hold)
    BY <1>5, InvariantGives DEF Good, InStep, Accounted, Kept
<1>. QED
    BY <1>1, <1>3, <1>6, InvariantGives, HandlerReturns DEF IInv, TypeOK

-----------------------------------------------------------------------------
(* The other threads and the clock leave the GUI thread alone.             *)

(* The rig thread.                                                         *)
LEMMA TransceiverSetPreserves ==
    ASSUME IInv, TransceiverSet
    PROVE  IInv'
<1>1. rigQ \in Seq(BOOLEAN) /\ rigQ # << >>
    BY DEF IInv, TypeOK, TransceiverSet
<1>2. Head(rigQ) \in BOOLEAN /\ Tail(rigQ) \in Seq(BOOLEAN)
    BY <1>1, HeadTailProperties
<1>3. [ptt |-> Head(rigQ), current |-> Tail(rigQ) = << >>] \in Update
    BY <1>2 DEF Update
<1>4. updates' \in Seq(Update)
    BY <1>3, AppendProperties DEF IInv, TypeOK, TransceiverSet
<1>5. onAir' \in Frame \cup {None}
    BY DEF IInv, TypeOK, TransceiverSet
<1>. QED
    BY <1>2, <1>4, <1>5 DEF IInv, TypeOK, TransceiverSet, modVars

(* The audio thread.                                                       *)
LEMMA ModulatorSignalPreserves ==
    ASSUME IInv, ModulatorSignal
    PROVE  IInv'
<1>1. modQ \in Seq({"start", "stop"}) /\ modQ # << >>
    BY DEF IInv, TypeOK, ModulatorSignal
<1>2. Tail(modQ) \in Seq({"start", "stop"})
    BY <1>1, HeadTailProperties
<1>3. onAir' \in Frame \cup {None}
    BY InvariantGives DEF ModulatorSignal, UI
<1>4. modulator' \in {"idle", "active"}
    BY DEF ModulatorSignal
<1>. QED
    BY <1>2, <1>3, <1>4 DEF IInv, TypeOK, ModulatorSignal, rigVars

(* The clock.                                                              *)
LEMMA ClockPreserves ==
    ASSUME IInv, Clock
    PROVE  IInv'
<1>1. phase' \in Phases
    BY DEF IInv, TypeOK, Clock, NextPhase, Phases
<1>2. aired' \subseteq Frame /\ onAir' \in Frame \cup {None}
    BY DEF IInv, TypeOK, Clock
<1>. QED
    BY <1>1, <1>2 DEF IInv, TypeOK, Clock, rigVars, modVars

-----------------------------------------------------------------------------
(* The invariant is inductive.                                             *)
LEMMA NextPreserves == IInv /\ [Next]_vars => IInv'
<1> SUFFICES ASSUME IInv, [Next]_vars PROVE IInv'
    OBVIOUS
<1>1. CASE User
    BY <1>1, TypePreserves, ErasePreserves, StartTxButtonPreserves,
       SendMacroPreserves, EnqueueMessagePreserves, OnStopTxButtonPreserves,
       EscapePreserves, OnMonitorTxButtonPreserves, TxWatchdogPreserves,
       SetRigPreserves DEF User
<1>2. CASE System
    BY <1>2, GuiUpdatePreserves, StopTx2Preserves,
       HandleTransceiverUpdatePreserves, TransceiverSetPreserves,
       ModulatorSignalPreserves, ClockPreserves DEF System
<1>3. CASE UNCHANGED vars
    BY <1>3 DEF vars, IInv, TypeOK
<1>. QED
    BY <1>1, <1>2, <1>3 DEF Next

(* It holds in every reachable state.                                      *)
LEMMA Invariance == Spec => []IInv
<1>1. Init => IInv
    BY InitIsGood
<1>2. IInv /\ [Next]_vars => IInv'
    BY NextPreserves
<1>. QED
    BY <1>1, <1>2, PTL DEF Spec

(* The variables of the four threads keep their types.                     *)
THEOREM TypeCorrect == Spec => []TypeOK
<1>1. IInv => TypeOK
    BY DEF IInv
<1>. QED
    BY <1>1, Invariance, PTL

(* m_iptt, m_transmitting, m_auto and the start button agree after every   *)
(* handler, whichever of stopTx, on_stopTxButton_clicked, startTx and      *)
(* prepareSending called which, also when a transmission is begun before   *)
(* the one that was stopped has come to rest.                              *)
THEOREM KeyedCorrect == Spec => []KeyedIsTransmitting
<1>1. IInv => KeyedIsTransmitting
    BY DEF IInv, Good, InStep, UI, KeyedIsTransmitting
<1>. QED
    BY <1>1, Invariance, PTL

(* Whatever the user, the clock and the other threads do, the program has  *)
(* a reason to leave the PTT on: a frame, the timer of stopTx that will    *)
(* release it, or more frames of the message when the PTT is held.         *)
THEOREM PttCorrect == Spec => []PttIsAccountedFor
<1>1. IInv => PttIsAccountedFor
    BY DEF IInv, Good, Accounted, PttIsAccountedFor
<1>. QED
    BY <1>1, Invariance, PTL

-----------------------------------------------------------------------------
(* What the operators do to each field of the record.                      *)

Fields == {"auto", "button", "enabled", "autoreply", "btxok", "btxok0", "iptt", "iptt0",
           "transmitting", "next", "itone", "sent", "unsent", "dirty", "queue", "count",
           "messages", "timer", "awaiting", "ptt", "reported", "toRig", "toModulator"}

(* addMessageText changes the composer only, and not while a message is    *)
(* queued.                                                                 *)
LEMMA AddMessageTextFields ==
    ASSUME NEW s \in UI, NEW frames \in Seq(Frame), NEW clear \in BOOLEAN
    PROVE  LET a == AddMessageText(s, frames, clear)
           IN  /\ a \in UI
               /\ \A f \in Fields \ {"unsent", "sent", "dirty"} : a[f] = s[f]
               /\ a = s \/ (a.dirty /\ a.sent = (s.sent /\ ~clear))
<1> DEFINE unsent == IF clear THEN frames ELSE s.unsent \o frames
           sent == IF clear THEN FALSE ELSE s.sent
           t == [s EXCEPT !.unsent = unsent, !.sent = sent, !.dirty = TRUE]
<1>1. unsent \in Seq(Frame) /\ sent \in BOOLEAN /\ sent = (s.sent /\ ~clear)
    BY ConcatProperties DEF UI
<1>2. AddMessageText(s, frames, clear) = IF Queued(s) THEN s ELSE t
    BY DEF AddMessageText
<1> HIDE DEF unsent, sent
<1>3. t \in UI /\ t.dirty /\ t.sent = sent
      /\ \A f \in Fields \ {"unsent", "sent", "dirty"} : t[f] = s[f]
    BY <1>1 DEF UI, Fields
<1> HIDE DEF t
<1>. QED
    BY <1>1, <1>2, <1>3

(* stopTx, but for the next frame.                                         *)
LEMMA EndTransmitFields ==
    ASSUME NEW s \in UI
    PROVE  LET e == EndTransmit(s)
           IN  /\ e \in UI /\ ~e.btxok /\ ~e.transmitting /\ ~e.iptt /\ e.timer
               /\ e.toModulator = Append(s.toModulator, "stop")
               /\ \A f \in Fields \ {"btxok", "transmitting", "iptt", "timer",
                                     "toModulator"} : e[f] = s[f]
<1> DEFINE signals == Append(s.toModulator, "stop")
<1>1. signals \in Seq({"start", "stop"})
    BY AppendProperties DEF UI
<1>2. EndTransmit(s) = [s EXCEPT !.btxok = FALSE, !.transmitting = FALSE,
                                 !.iptt = FALSE, !.timer = TRUE,
                                 !.toModulator = signals]
    BY DEF EndTransmit, UI
<1> HIDE DEF signals
<1>3. /\ EndTransmit(s) \in UI /\ ~EndTransmit(s).btxok /\ ~EndTransmit(s).transmitting
      /\ ~EndTransmit(s).iptt /\ EndTransmit(s).timer
      /\ EndTransmit(s).toModulator = signals
      /\ \A f \in Fields \ {"btxok", "transmitting", "iptt", "timer", "toModulator"} :
            EndTransmit(s)[f] = s[f]
    BY <1>1, <1>2 DEF UI, Fields
<1>. QED
    BY <1>3 DEF signals

(* on_stopTxButton_clicked ends the frame if the button was down.          *)
LEMMA StopTxButtonFields ==
    ASSUME NEW s \in UI
    PROVE  LET b == StopTxButton(s)
           IN  /\ b \in UI
               /\ ~b.auto /\ ~b.button /\ b.next = None /\ ~b.sent /\ b.dirty
               /\ b.unsent = << >> /\ b.queue = << >> /\ b.count = 0
               /\ \A f \in {"enabled", "autoreply", "btxok0", "iptt0", "itone", "messages",
                            "awaiting", "ptt", "reported", "toRig"} : b[f] = s[f]
               /\ s.button => /\ ~b.iptt /\ b.timer
                              /\ b.toModulator = Append(s.toModulator, "stop")
               /\ ~s.button => /\ b.iptt = s.iptt /\ b.timer = s.timer
                               /\ b.toModulator = s.toModulator
<1> DEFINE t == [ResetMessage(s) EXCEPT !.auto = FALSE, !.btxok = FALSE]
<1>1. << >> \in Seq(Frame) /\ None \in Frame \cup {None}
    OBVIOUS
<1>2. /\ t \in UI
      /\ ~t.auto /\ ~t.button /\ t.next = None /\ t.count = 0 /\ t.dirty
      /\ t.queue = << >> /\ t.unsent = << >> /\ ~t.sent
      /\ \A f \in Fields \ {"auto", "button", "next", "count", "dirty", "queue", "unsent",
                            "sent", "btxok"} : t[f] = s[f]
    BY <1>1 DEF ResetMessage, UI, Fields
<1>3. StopTxButton(s) = IF s.button THEN EndTransmit(t) ELSE t
    BY DEF StopTxButton
<1> HIDE DEF t
<1>4. CASE s.button
    BY <1>2, <1>3, <1>4, EndTransmitFields DEF Fields
<1>5. CASE ~s.button
    BY <1>2, <1>3, <1>5 DEF Fields
<1>. QED
    BY <1>4, <1>5

(* The frames from which the next one is taken.                            *)
Built(s) == IF s.dirty /\ HasText(s) THEN s.unsent ELSE s.queue

(* prepareNextMessageFrame takes the first of them, and locks its text.    *)
LEMMA PrepareNextMessageFrameFields ==
    ASSUME NEW s \in UI
    PROVE  LET p == PrepareNextMessageFrame(s)
           IN  /\ p \in UI
               /\ \A f \in Fields \ {"next", "count", "queue", "sent", "unsent", "dirty"} :
                    p[f] = s[f]
               /\ p.dirty = (s.dirty /\ ~HasText(s))
               /\ Built(s) = << >> => /\ p.next = None /\ p.queue = << >>
                                      /\ p.sent = s.sent /\ p.unsent = s.unsent
               /\ Built(s) # << >> => /\ p.next = Head(Built(s)) /\ p.next # None
                                      /\ p.queue = Tail(Built(s))
                                      /\ p.unsent = Tail(Built(s)) /\ p.sent
<1> DEFINE t == IF s.dirty /\ HasText(s)
                THEN [s EXCEPT !.queue = s.unsent, !.count = Len(s.unsent),
                               !.dirty = FALSE]
                ELSE s
<1>1. Len(s.unsent) \in Nat
    BY LenProperties DEF UI
<1>2. /\ t \in UI /\ \A f \in Fields \ {"count", "queue", "dirty"} : t[f] = s[f]
      /\ t.dirty = (s.dirty /\ ~HasText(s))
      /\ t.queue = Built(s)
    <2>1. CASE s.dirty /\ HasText(s)
        <3>1. t = [s EXCEPT !.queue = s.unsent, !.count = Len(s.unsent),
                            !.dirty = FALSE]
            BY <2>1
        <3> HIDE DEF t
        <3>. QED
            BY <1>1, <2>1, <3>1 DEF UI, Fields, Built
    <2>2. CASE ~(s.dirty /\ HasText(s))
        <3>1. t = s
            BY <2>2
        <3>2. s.dirty \in BOOLEAN /\ HasText(s) \in BOOLEAN
            BY DEF UI, HasText
        <3> HIDE DEF t
        <3>. QED
            BY <2>2, <3>1, <3>2 DEF Built
    <2>. QED
        BY <2>1, <2>2
<1>3. CASE t.queue = << >>
    <2>1. PrepareNextMessageFrame(s) = [t EXCEPT !.next = None]
        BY <1>3 DEF PrepareNextMessageFrame
    <2>2. None \in Frame \cup {None}
        OBVIOUS
    <2> HIDE DEF t
    <2>. QED
        BY <1>2, <1>3, <2>1, <2>2 DEF UI, Fields
<1>4. CASE t.queue # << >>
    <2> DEFINE h == Head(t.queue)
               r == Tail(t.queue)
    <2>1. PrepareNextMessageFrame(s) =
            [t EXCEPT !.next = h, !.queue = r, !.sent = TRUE, !.unsent = r]
        BY <1>2, <1>4 DEF PrepareNextMessageFrame, UI
    <2>2. t.queue \in Seq(Frame)
        BY <1>2 DEF UI
    <2>3. h \in Frame /\ r \in Seq(Frame)
        BY <1>4, <2>2, HeadTailProperties
    <2>5. h # None
        BY <2>3, BoundAssumption DEF Frame, None
    <2>4. h = Head(Built(s)) /\ r = Tail(Built(s))
        BY <1>2
    <2> HIDE DEF t, h, r
    <2>. QED
        BY <1>2, <1>4, <2>1, <2>3, <2>4, <2>5 DEF UI, Fields
<1>. QED
    BY <1>3, <1>4

(* prepareSending keys a frame: two commands to the rig.                   *)
Begins(s) == ~s.iptt /\ MayBegin /\ s.next # None

LEMMA KeyFields ==
    ASSUME NEW s \in UI
    PROVE  LET k == Key(s)
           IN  /\ k \in UI
               /\ ~Begins(s) => k = s
               /\ Begins(s) => /\ k.iptt /\ k.awaiting /\ k.ptt
                               /\ k.toRig = Append(Append(s.toRig, s.ptt), TRUE)
               /\ \A f \in Fields \ {"iptt", "awaiting", "ptt", "toRig"} : k[f] = s[f]
<1>1. CASE ~Begins(s)
    BY <1>1 DEF Key, Begins
<1>2. CASE Begins(s)
    <2> DEFINE k == [s EXCEPT !.iptt = TRUE, !.awaiting = TRUE]
               q == Append(Append(s.toRig, s.ptt), TRUE)
    <2>1. k \in UI /\ k.ptt = s.ptt /\ k.toRig = s.toRig /\ k.iptt /\ k.awaiting
          /\ \A f \in Fields \ {"iptt", "awaiting"} : k[f] = s[f]
        BY DEF UI, Fields
    <2>2. q \in Seq(BOOLEAN)
        BY AppendProperties DEF UI
    <2>3. Key(s) = [k EXCEPT !.ptt = TRUE, !.toRig = q]
        <3>1. Key(s) = EmitPtt(EmitFrequency(k), TRUE)
            BY <1>2 DEF Key, Begins
        <3>2. EmitFrequency(k) = [k EXCEPT !.toRig = Append(s.toRig, s.ptt)]
            BY <2>1 DEF EmitFrequency, EmitPtt, UI
        <3> HIDE DEF k
        <3>. QED
            BY <2>1, <3>1, <3>2 DEF EmitPtt, UI
    <2> HIDE DEF k, q
    <2>4. Key(s) \in UI /\ Key(s).ptt /\ Key(s).toRig = q
          /\ \A f \in Fields \ {"ptt", "toRig"} : Key(s)[f] = k[f]
        BY <2>1, <2>2, <2>3 DEF UI, Fields
    <2>. QED
        BY <1>2, <2>1, <2>4 DEF Fields, q
<1>. QED
    BY <1>1, <1>2

(* The other steps of prepareSending.                                      *)
LEMMA SendingFields ==
    ASSUME NEW s \in UI
    PROVE  /\ LET t == TimeToStop(s)
              IN  /\ t \in UI
                  /\ t.btxok = (s.btxok /\ phase # "gap")
                  /\ \A f \in Fields \ {"btxok"} : t[f] = s[f]
           /\ LET t == StartTransmitting(s)
              IN  /\ t \in UI
                  /\ s.iptt /\ ~s.iptt0 => t.itone = s.next /\ t.btxok
                  /\ ~(s.iptt /\ ~s.iptt0) => t = s
                  /\ \A f \in Fields \ {"itone", "transmitting", "btxok"} : t[f] = s[f]
<1> DEFINE t == [s EXCEPT !.itone = s.next, !.transmitting = TRUE, !.btxok = TRUE]
<1>2. t \in UI /\ t.itone = s.next /\ t.btxok
      /\ \A f \in Fields \ {"itone", "transmitting", "btxok"} : t[f] = s[f]
    BY DEF UI, Fields
<1>3. StartTransmitting(s) = IF s.iptt /\ ~s.iptt0 THEN t ELSE s
    BY DEF StartTransmitting
<1> HIDE DEF t
<1> DEFINE n == [s EXCEPT !.btxok = FALSE]
<1>4. n \in UI /\ n.btxok = FALSE /\ \A f \in Fields \ {"btxok"} : n[f] = s[f]
    BY DEF UI, Fields
<1>5. TimeToStop(s) = IF phase = "gap" THEN n ELSE s
    BY DEF TimeToStop
<1> HIDE DEF n
<1>6. s.btxok \in BOOLEAN
    BY DEF UI
<1>7. CASE phase = "gap"
    BY <1>2, <1>3, <1>4, <1>5, <1>7
<1>8. CASE phase # "gap"
    BY <1>2, <1>3, <1>5, <1>6, <1>8
<1>. QED
    BY <1>7, <1>8

-----------------------------------------------------------------------------
(* The composer.  A message that is being sent has locked text and a next  *)
(* frame; unless the text was edited since they were built, the frames     *)
(* queued are those of the text that is not sent; and text is locked only  *)
(* for a message that is being sent.  The idle watchdog forgets the frames *)
(* of a text that it leaves, and may leave it locked.                      *)
Composes(s) ==
    /\ s.auto => s.sent /\ s.next # None
    /\ ~s.dirty => s.queue = s.unsent \/ (s.queue = << >> /\ ~s.auto)
    /\ MayIdle \/ (s.sent => s.auto)

ComposerFields == {"auto", "sent", "next", "unsent", "dirty", "queue"}

LEMMA ComposerUnchanged ==
    ASSUME NEW s, NEW t, Composes(s), \A f \in ComposerFields : t[f] = s[f]
    PROVE  Composes(t) /\ Built(t) = Built(s)
BY DEF Composes, ComposerFields, Built, HasText

(* The next frame of a message that is being sent is the first that is not *)
(* sent of the text, edited or not.                                        *)
LEMMA BuiltIsUnsent ==
    ASSUME NEW s \in UI, Composes(s), s.auto
    PROVE  Built(s) = s.unsent
BY DEF Composes, Built, HasText, UI

(* An empty composer.                                                      *)
LEMMA StopTxButtonComposes ==
    ASSUME NEW s \in UI
    PROVE  Composes(StopTxButton(s))
BY StopTxButtonFields DEF Composes

(* stopTx takes the next frame, or empties the composer.                   *)
Took(s, t) == Built(s) # << >> /\ t.next = Head(Built(s)) /\ t.unsent = Tail(Built(s))

LEMMA StopTxComposes ==
    ASSUME NEW s \in UI, MayIdle \/ s.auto \/ Built(s) = << >>
    PROVE  /\ StopTx(s) \in UI
           /\ Composes(StopTx(s))
           /\ StopTx(s).messages = s.messages
           /\ StopTx(s).auto => s.auto /\ Took(s, StopTx(s))
           /\ Built(s) = << >> => ~StopTx(s).auto
<1> DEFINE e == EndTransmit(s)
           p == PrepareNextMessageFrame(e)
<1>1. /\ e \in UI /\ e.auto = s.auto /\ e.messages = s.messages
      /\ Built(e) = Built(s)
    BY EndTransmitFields DEF Fields, Built, HasText
<1> HIDE DEF e
<1>2. /\ p \in UI /\ p.auto = s.auto /\ p.messages = s.messages
      /\ Built(s) = << >> => p.next = None
      /\ Built(s) # << >> => /\ p.next = Head(Built(s)) /\ p.next # None
                             /\ p.queue = Tail(Built(s))
                             /\ p.unsent = Tail(Built(s)) /\ p.sent
    BY <1>1, PrepareNextMessageFrameFields DEF Fields
<1>3. StopTx(s) = IF p.next = None THEN StopTxButton(p) ELSE p
    BY DEF StopTx, e
<1> HIDE DEF p
<1>4. CASE p.next = None
    BY <1>2, <1>3, <1>4, StopTxButtonFields, StopTxButtonComposes
<1>5. CASE p.next # None
    BY <1>2, <1>3, <1>5 DEF Composes, Took, UI
<1>. QED
    BY <1>4, <1>5

(* prepareSending keeps the frame, or goes on to the next one.             *)
LEMMA PrepareSendingComposes ==
    ASSUME NEW s \in UI, Composes(s), s.auto
    PROVE  /\ PrepareSending(s) \in UI
           /\ Composes(PrepareSending(s))
           /\ PrepareSending(s).messages = s.messages
           /\ PrepareSending(s).auto =>
                \/ PrepareSending(s).next = s.next
                \/ Took(s, PrepareSending(s))
<1> DEFINE b == Key(s)
           c == TimeToStop(b)
           d == StartTransmitting(c)
<1>1. StopWithoutMessage(s) = s
    BY DEF StopWithoutMessage, Composes
<1>2. b \in UI /\ \A f \in ComposerFields \cup {"messages"} : b[f] = s[f]
    <2>1. b \in UI
          /\ \A f \in Fields \ {"iptt", "awaiting", "ptt", "toRig"} : b[f] = s[f]
        BY KeyFields
    <2>. QED
        BY <2>1 DEF Fields, ComposerFields
<1> HIDE DEF b
<1>3. c \in UI /\ \A f \in ComposerFields \cup {"messages"} : c[f] = s[f]
    BY <1>2, SendingFields DEF Fields, ComposerFields
<1> HIDE DEF c
<1>4. d \in UI /\ \A f \in ComposerFields \cup {"messages"} : d[f] = s[f]
    BY <1>3, SendingFields DEF Fields, ComposerFields
<1>5. PrepareSending(s) = StopWhenDone(d)
    BY <1>1 DEF PrepareSending, d, c, b
<1> HIDE DEF d
<1>6. Composes(d) /\ Built(d) = Built(s) /\ d.auto /\ d.next = s.next
      /\ d.messages = s.messages
    BY <1>4, ComposerUnchanged DEF ComposerFields
<1>7. CASE PrepareSending(s) = d
    BY <1>4, <1>6, <1>7
<1>8. CASE PrepareSending(s) = StopTx(d)
    BY <1>4, <1>6, <1>8, StopTxComposes DEF Took
<1>. QED
    BY <1>5, <1>7, <1>8 DEF StopWhenDone

(* startTx, when the button went down.                                     *)
LEMMA StartTxComposes ==
    ASSUME NEW s \in UI, Composes(s), ~s.auto
    PROVE  /\ StartTx(s) \in UI
           /\ Composes(StartTx(s))
           /\ StartTx(s).messages = s.messages
<1> DEFINE p == PrepareNextMessageFrame(s)
           u == [p EXCEPT !.auto = TRUE]
<1>1. CASE ~HasText(s)
    BY <1>1 DEF StartTx
<1>2. CASE HasText(s) /\ ~s.enabled
    BY <1>2, StopTxButtonFields, StopTxButtonComposes DEF StartTx
<1>3. CASE HasText(s) /\ s.enabled
    <2>1. /\ p \in UI /\ ~p.auto /\ p.messages = s.messages
          /\ p.dirty = FALSE
          /\ p.next = None => p.queue = << >> /\ p.sent = s.sent
          /\ p.next # None => p.queue = p.unsent /\ p.sent
        BY <1>3, PrepareNextMessageFrameFields DEF Fields
    <2>2. StartTx(s) = IF p.next = None THEN p ELSE PrepareSending(u)
        BY <1>3, <2>1 DEF StartTx
    <2> HIDE DEF p
    <2>3. /\ u \in UI /\ u.auto
          /\ \A f \in Fields \ {"auto"} : u[f] = p[f]
        BY <2>1 DEF UI, Fields
    <2> HIDE DEF u
    <2>4. CASE p.next = None
        BY <2>1, <2>2, <2>4 DEF Composes
    <2>5. CASE p.next # None
        <3>1. Composes(u) /\ u.messages = s.messages
            BY <2>1, <2>3, <2>5 DEF Composes, Fields
        <3>. QED
            BY <2>2, <2>3, <2>5, <3>1, PrepareSendingComposes
    <2>. QED
        BY <2>4, <2>5
<1>. QED
    BY <1>1, <1>2, <1>3

(* toggleTx(true) does nothing while a message is being sent.              *)
LEMMA ToggleTxComposes ==
    ASSUME NEW s \in UI, Composes(s), s.auto => s.button
    PROVE  /\ ToggleTx(s) \in UI
           /\ Composes(ToggleTx(s))
           /\ ToggleTx(s).messages = s.messages
           /\ s.auto => ToggleTx(s) = s
<1> DEFINE t == [s EXCEPT !.button = TRUE]
<1>1. CASE s.button
    BY <1>1 DEF ToggleTx
<1>2. CASE ~s.button
    <2>1. t \in UI /\ \A f \in Fields \ {"button"} : t[f] = s[f]
        BY DEF UI, Fields
    <2>2. ToggleTx(s) = StartTx(t)
        BY <1>2 DEF ToggleTx
    <2> HIDE DEF t
    <2>3. Composes(t) /\ ~t.auto /\ t.messages = s.messages
        BY <1>2, <2>1, ComposerUnchanged DEF Fields, ComposerFields
    <2>. QED
        BY <1>2, <2>1, <2>2, <2>3, StartTxComposes
<1>. QED
    BY <1>1, <1>2

(* Text is added to a composer, and replaces only text that is not locked. *)
LEMMA AddMessageTextComposes ==
    ASSUME NEW s \in UI, Composes(s), NEW frames \in Seq(Frame), NEW clear \in BOOLEAN,
           clear => ~s.sent
    PROVE  Composes(AddMessageText(s, frames, clear))
<1> DEFINE a == AddMessageText(s, frames, clear)
<1>1. /\ a.auto = s.auto /\ a.next = s.next
      /\ a = s \/ (a.dirty /\ a.sent = (s.sent /\ ~clear))
    BY AddMessageTextFields DEF Fields
<1> HIDE DEF a
<1>2. Composes(a)
    BY <1>1 DEF Composes
<1>. QED
    BY <1>2 DEF a

(* A queued message is put into an empty composer.                         *)
LEMMA ProcessTxQueueComposes ==
    ASSUME NEW s \in UI, Composes(s), s.auto => s.button
    PROVE  /\ ProcessTxQueue(s) \in UI
           /\ Composes(ProcessTxQueue(s))
           /\ \/ ProcessTxQueue(s) = s
              \/ /\ s.messages # << >> /\ ~s.auto
                 /\ ProcessTxQueue(s).messages = Tail(s.messages)
<1>1. CASE s.messages = << >> \/ s.queue # << >> \/ HasText(s) \/ Queued(s)
    BY <1>1 DEF ProcessTxQueue
<1>2. CASE ~(s.messages = << >> \/ s.queue # << >> \/ HasText(s) \/ Queued(s))
    <2> DEFINE m == Head(s.messages)
               rest == Tail(s.messages)
               p == [s EXCEPT !.messages = rest]
               t == AddMessageText(p, m.frames, TRUE)
    <2>1. s.messages \in Seq(Message) /\ s.messages # << >>
        BY <1>2 DEF UI
    <2>2. m \in Message /\ rest \in Seq(Message)
        BY <2>1, HeadTailProperties
    <2>3. p \in UI /\ p.messages = rest
          /\ \A f \in Fields \ {"messages"} : p[f] = s[f]
        <3> HIDE DEF rest
        <3>. QED
            BY <2>2 DEF UI, Fields
    <2>4. m.frames \in Seq(Frame)
        BY <2>2 DEF Message
    <2>5. ProcessTxQueue(s) = IF m.high \/ s.autoreply THEN ToggleTx(t) ELSE t
        BY <1>2 DEF ProcessTxQueue
    <2>6. ~s.sent
        BY <1>2 DEF HasText, UI
    <2>7. ~s.auto
        BY <2>6 DEF Composes
    <2> HIDE DEF p, m
    <2>8. Composes(p) /\ ~p.sent /\ ~p.auto
        BY <2>3, <2>6, <2>7, ComposerUnchanged DEF Fields, ComposerFields
    <2>9. t \in UI /\ Composes(t) /\ ~t.auto /\ t.messages = rest
        <3>1. Composes(t)
            BY <2>3, <2>4, <2>8, AddMessageTextComposes
        <3>2. t \in UI /\ \A f \in Fields \ {"unsent", "sent", "dirty"} : t[f] = p[f]
            BY <2>3, <2>4, AddMessageTextFields
        <3>. QED
            BY <2>3, <2>8, <3>1, <3>2 DEF Fields
    <2> HIDE DEF t
    <2>10. /\ ToggleTx(t) \in UI /\ Composes(ToggleTx(t))
           /\ ToggleTx(t).messages = rest
        BY <2>9, ToggleTxComposes
    <2> HIDE DEF rest
    <2>11. ProcessTxQueue(s) \in {ToggleTx(t), t}
        BY <2>5
    <2>. QED
        BY <2>1, <2>7, <2>9, <2>10, <2>11 DEF rest
<1>. QED
    BY <1>1, <1>2

-----------------------------------------------------------------------------
(* The handlers: each leaves the composer in order, and takes a frame only *)
(* where the poll goes on to the next one.                                 *)

CInv == IInv /\ Composes(ui)

SendsStep ==
    TakesNextFrame /\ ui.messages = ui'.messages =>
        ui.unsent = <<ui'.next>> \o ui'.unsent

(* A sequence is its head and its tail.                                    *)
LEMMA HeadAndTail ==
    ASSUME NEW S, NEW seq \in Seq(S), seq # << >>
    PROVE  seq = <<Head(seq)>> \o Tail(seq)
<1>1. Len(seq) \in Nat \ {0}
    BY EmptySeq
<1>2. 1 \in 1 .. Len(seq) /\ Len(seq) \in 1 .. Len(seq)
    BY <1>1
<1>3. SubSeq(seq, 1, Len(seq)) = <<seq[1]>> \o SubSeq(seq, 2, Len(seq))
    BY <1>2, SubSeqRecursiveFirst
<1>. QED
    BY <1>3, SubSeqFull, TailIsSubSeq

LEMMA TailIsAnother ==
    ASSUME NEW S, NEW seq \in Seq(S), seq # << >>
    PROVE  Tail(seq) # seq
<1>1. Len(Tail(seq)) = Len(seq) - 1 /\ Len(seq) \in Nat
    BY HeadTailProperties, LenProperties
<1> DEFINE n == Len(seq)
           m == Len(Tail(seq))
<1>2. m # n
    <2>1. m = n - 1 /\ n \in Nat
        BY <1>1
    <2> HIDE DEF m, n
    <2>. QED
        BY <2>1
<1>. QED
    BY <1>2

(* What a handler leaves in the composer is there when it has returned.    *)
LEMMA ReturnComposes ==
    ASSUME NEW s \in UI, Composes(s), NEW us, Return(s, us)
    PROVE  /\ Composes(ui')
           /\ ui'.auto = s.auto /\ ui'.next = s.next /\ ui'.unsent = s.unsent
           /\ ui'.messages = s.messages
<1> DEFINE t == [s EXCEPT !.toRig = << >>, !.toModulator = << >>]
<1>1. \A f \in Fields \ {"toRig", "toModulator"} : t[f] = s[f]
    BY DEF UI, Fields
<1>2. ui' = t
    BY DEF Return
<1> HIDE DEF t
<1>. QED
    BY <1>1, <1>2, ComposerUnchanged DEF Fields, ComposerFields

(* A handler that goes on with the frame it finds, or ends the message.    *)
LEMMA HandlerComposes ==
    ASSUME NEW s \in UI, Composes(s), NEW us, Return(s, us),
           ui.auto /\ s.auto => s.next = ui.next
    PROVE  Composes(ui') /\ SendsStep /\ ~TakesNextFrame
BY ReturnComposes DEF SendsStep, TakesNextFrame

(* What the lemmas on the actions take from the invariant.                 *)
LEMMA ComposerGives ==
    ASSUME CInv
    PROVE  /\ ui \in UI /\ Composes(ui)
           /\ ui.auto => ui.button
           /\ ui.iptt => ui.auto
           /\ ui.transmitting => ui.auto
           /\ updates \in Seq(Update) /\ typed \in 0 .. MaxFrames
BY DEF CInv, IInv, Good, InStep, TypeOK

(* Typing and erasing edit the text.                                       *)
LEMMA EditComposes ==
    ASSUME CInv, NEW unsent \in Seq(Frame),
           Handler([ui EXCEPT !.unsent = unsent, !.dirty = TRUE])
    PROVE  Composes(ui') /\ SendsStep /\ ~TakesNextFrame
<1> DEFINE s == [ui EXCEPT !.unsent = unsent, !.dirty = TRUE]
<1>1. s \in UI /\ s.dirty /\ \A f \in Fields \ {"unsent", "dirty"} : s[f] = ui[f]
    BY ComposerGives DEF UI, Fields
<1>2. Return(s, updates)
    BY DEF Handler
<1> HIDE DEF s
<1>3. Composes(s) /\ s.next = ui.next
    BY <1>1, ComposerGives DEF Composes, Fields
<1>. QED
    BY <1>1, <1>2, <1>3, HandlerComposes

LEMMA TypingComposes ==
    ASSUME CInv, Type \/ Erase
    PROVE  Composes(ui') /\ SendsStep /\ ~TakesNextFrame
<1>1. CASE Type
    <2>1. typed + 1 \in Frame
        BY <1>1, ComposerGives, BoundAssumption DEF Type, Frame
    <2>2. Append(ui.unsent, typed + 1) \in Seq(Frame)
        BY <2>1, ComposerGives, AppendProperties DEF UI
    <2>3. Handler([ui EXCEPT !.unsent = Append(ui.unsent, typed + 1), !.dirty = TRUE])
        BY <1>1, ComposerGives DEF Type, UI
    <2>. QED
        BY <2>2, <2>3, EditComposes
<1>2. CASE Erase
    <2>1. << >> \in Seq(Frame)
        OBVIOUS
    <2>. QED
        BY <1>2, <2>1, EditComposes DEF Erase
<1>. QED
    BY <1>1, <1>2

(* The start button and a macro.                                           *)
LEMMA StartComposes ==
    ASSUME CInv, StartTxButton \/ SendMacro
    PROVE  Composes(ui') /\ SendsStep /\ ~TakesNextFrame
<1>1. CASE StartTxButton
    <2> DEFINE t == StopTxButton(ui)
               e == EndTransmit(t)
    <2>1. t \in UI /\ Composes(t) /\ ~t.auto
        BY ComposerGives, StopTxButtonFields, StopTxButtonComposes
    <2> HIDE DEF t
    <2>2. e \in UI /\ \A f \in ComposerFields : e[f] = t[f]
        BY <2>1, EndTransmitFields DEF Fields, ComposerFields
    <2>3. Composes(e) /\ ~e.auto
        BY <2>1, <2>2, ComposerUnchanged DEF ComposerFields
    <2>4. Return(IF ui.button THEN e ELSE ToggleTx(ui), updates)
        BY <1>1 DEF StartTxButton, Handler, t
    <2> HIDE DEF e
    <2>5. /\ ToggleTx(ui) \in UI /\ Composes(ToggleTx(ui))
          /\ ui.auto => ToggleTx(ui) = ui
        BY ComposerGives, ToggleTxComposes
    <2>. QED
        BY <2>2, <2>3, <2>4, <2>5, HandlerComposes
<1>2. CASE SendMacro
    <2> DEFINE a == AddMessageText(ui, <<typed + 1>>, FALSE)
    <2>1. typed + 1 \in Frame
        BY <1>2, ComposerGives, BoundAssumption DEF SendMacro, Frame
    <2>2. <<typed + 1>> \in Seq(Frame)
        BY <2>1
    <2>3. a \in UI /\ \A f \in Fields \ {"unsent", "sent", "dirty"} : a[f] = ui[f]
        BY <2>2, ComposerGives, AddMessageTextFields
    <2>4. Composes(a)
        BY <2>2, ComposerGives, AddMessageTextComposes
    <2>5. Return(ToggleTx(a), updates)
        BY <1>2 DEF SendMacro, Handler
    <2> HIDE DEF a
    <2>6. a.auto = ui.auto /\ a.button = ui.button /\ a.next = ui.next
        BY <2>3 DEF Fields
    <2>7. /\ ToggleTx(a) \in UI /\ Composes(ToggleTx(a))
          /\ a.auto => ToggleTx(a) = a
        BY <2>3, <2>4, <2>6, ComposerGives, ToggleTxComposes
    <2>. QED
        BY <2>5, <2>6, <2>7, HandlerComposes
<1>. QED
    BY <1>1, <1>2

(* A message is queued, and may be taken at once.                          *)
LEMMA EnqueueComposes ==
    ASSUME CInv, NEW length \in 1 .. 2, NEW high \in BOOLEAN,
           NEW process \in BOOLEAN, EnqueueMessage(length, high, process)
    PROVE  Composes(ui') /\ SendsStep /\ ~TakesNextFrame
<1> DEFINE frames == [i \in 1 .. length |-> typed + i]
           m == [frames |-> frames, high |-> high]
           messages == Push(m, ui.messages)
           s == [ui EXCEPT !.messages = messages]
<1>1. frames \in Seq(Frame)
    <2>1. \A i \in 1 .. length : typed + i \in Frame
        BY ComposerGives, BoundAssumption DEF EnqueueMessage, Frame
    <2>. QED
        BY <2>1, IsASeq
<1>2. m \in Message
    <2> HIDE DEF frames
    <2>. QED
        BY <1>1 DEF Message
<1>3. Return(IF process THEN ProcessTxQueue(s) ELSE s, updates)
    BY DEF EnqueueMessage, Handler
<1> HIDE DEF m
<1>4. messages \in Seq(Message)
    <2>1. ui.messages \in Seq(Message) /\ <<m>> \in Seq(Message)
        BY <1>2, ComposerGives DEF UI
    <2>. QED
        BY <2>1, ConcatProperties DEF Push
<1> HIDE DEF messages
<1>5. s \in UI /\ \A f \in Fields \ {"messages"} : s[f] = ui[f]
    BY <1>4, ComposerGives DEF UI, Fields
<1> HIDE DEF s
<1>6. /\ Composes(s) /\ (s.auto => s.button) /\ s.next = ui.next /\ s.auto = ui.auto
    BY <1>5, ComposerGives, ComposerUnchanged DEF Fields, ComposerFields
<1>7. /\ ProcessTxQueue(s) \in UI /\ Composes(ProcessTxQueue(s))
      /\ s.auto => ProcessTxQueue(s) = s
    BY <1>5, <1>6, ProcessTxQueueComposes
<1>. QED
    BY <1>3, <1>5, <1>6, <1>7, HandlerComposes

(* The stop button, Escape and the transmit switch empty the composer.     *)
LEMMA HaltComposes ==
    ASSUME CInv, OnStopTxButton \/ Escape \/ OnMonitorTxButton
    PROVE  Composes(ui') /\ SendsStep /\ ~TakesNextFrame
<1> DEFINE t == StopTxButton(ui)
<1>1. /\ t \in UI /\ Composes(t) /\ ~t.auto /\ t.queue = << >> /\ t.unsent = << >> /\ ~t.sent
    BY ComposerGives, StopTxButtonFields, StopTxButtonComposes
<1>2. CASE OnStopTxButton
    <2>1. Return(t, updates)
        BY <1>2 DEF OnStopTxButton, Handler
    <2> HIDE DEF t
    <2>. QED
        BY <1>1, <2>1, HandlerComposes
<1>3. CASE Escape
    <2>1. Return(StopTx(t), updates)
        BY <1>3 DEF Escape, Handler
    <2> HIDE DEF t
    <2>2. Built(t) = << >>
        BY <1>1 DEF Built
    <2>3. StopTx(t) \in UI /\ Composes(StopTx(t)) /\ ~StopTx(t).auto
        BY <1>1, <2>2, StopTxComposes
    <2>. QED
        BY <2>1, <2>3, HandlerComposes
<1>4. CASE OnMonitorTxButton
    <2> DEFINE off == [t EXCEPT !.enabled = FALSE]
               on == [ui EXCEPT !.enabled = TRUE]
    <2>1. Return(IF ui.enabled THEN off ELSE on, updates)
        BY <1>4 DEF OnMonitorTxButton, Handler
    <2> HIDE DEF t
    <2>2. off \in UI /\ \A f \in Fields \ {"enabled"} : off[f] = t[f]
        BY <1>1 DEF UI, Fields
    <2>3. on \in UI /\ \A f \in Fields \ {"enabled"} : on[f] = ui[f]
        BY ComposerGives DEF UI, Fields
    <2> HIDE DEF off, on
    <2>4. Composes(off) /\ ~off.auto
        BY <1>1, <2>2, ComposerUnchanged DEF Fields, ComposerFields
    <2>5. Composes(on) /\ on.next = ui.next
        BY <2>3, ComposerGives, ComposerUnchanged DEF Fields, ComposerFields
    <2>. QED
        BY <2>1, <2>2, <2>3, <2>4, <2>5, HandlerComposes
<1>. QED
    BY <1>2, <1>3, <1>4

(* The idle watchdog forgets the frames it leaves.                         *)
LEMMA WatchdogComposes ==
    ASSUME CInv, TxWatchdog
    PROVE  Composes(ui') /\ SendsStep /\ ~TakesNextFrame
<1> DEFINE a == IF ui.auto THEN StopTxButton(ui) ELSE ui
           s == StopTx(a)
           t == [s EXCEPT !.queue = << >>, !.count = 0, !.autoreply = FALSE]
<1>1. a \in UI /\ ~a.auto
    BY ComposerGives, StopTxButtonFields
<1>2. MayIdle /\ Return(t, updates)
    BY DEF TxWatchdog, Handler
<1> HIDE DEF a
<1>3. s \in UI /\ ~s.auto /\ Composes(s)
    BY <1>1, <1>2, StopTxComposes
<1> HIDE DEF s
<1>4. << >> \in Seq(Frame)
    OBVIOUS
<1>5. /\ t \in UI /\ t.queue = << >>
      /\ \A f \in Fields \ {"queue", "count", "autoreply"} : t[f] = s[f]
    BY <1>3, <1>4 DEF UI, Fields
<1> HIDE DEF t
<1>6. Composes(t) /\ ~t.auto
    BY <1>2, <1>3, <1>5 DEF Composes, Fields
<1>. QED
    BY <1>2, <1>5, <1>6, HandlerComposes

(* Commands and updates of the rig leave the composer alone.               *)
LEMMA RigComposes ==
    ASSUME CInv, SetRig \/ StopTx2 \/ HandleTransceiverUpdate
    PROVE  Composes(ui') /\ SendsStep /\ ~TakesNextFrame
<1> SUFFICES ASSUME NEW s \in UI, \A f \in ComposerFields : s[f] = ui[f],
                    NEW us, Return(s, us)
             PROVE  Composes(ui') /\ SendsStep /\ ~TakesNextFrame
    <2>1. CASE SetRig
        <3> DEFINE s == EmitPtt(ui, ui.ptt)
        <3>1. ui.ptt \in BOOLEAN
            BY ComposerGives DEF UI
        <3>2. s \in UI
            BY <3>1, ComposerGives, EmitsPtt
        <3>3. \A f \in ComposerFields : s[f] = ui[f]
            BY <3>1, ComposerGives DEF EmitPtt, UI, ComposerFields
        <3>4. Return(s, updates)
            BY <2>1 DEF SetRig, EmitFrequency, Handler
        <3> HIDE DEF s
        <3>. QED
            BY <3>2, <3>3, <3>4
    <2>2. CASE StopTx2
        <3> DEFINE t == [ui EXCEPT !.timer = FALSE]
                   e == EmitPtt(t, FALSE)
        <3>1. t \in UI /\ \A f \in ComposerFields : t[f] = ui[f]
            BY ComposerGives DEF UI, ComposerFields
        <3>2. Return(IF hold /\ t.count > 0 THEN t ELSE e, updates)
            BY <2>2 DEF StopTx2, Handler
        <3> HIDE DEF t
        <3>3. e \in UI /\ \A f \in ComposerFields : e[f] = t[f]
            <4>1. e \in UI
                BY <3>1, EmitsPtt
            <4>. QED
                BY <3>1, <4>1 DEF EmitPtt, UI, ComposerFields
        <3> HIDE DEF e
        <3>. QED
            BY <3>1, <3>2, <3>3
    <2>3. CASE HandleTransceiverUpdate
        <3> DEFINE u == Head(updates)
                   confirmed == hold \/ (u.ptt /\ ~ui.reported)
                   starts == confirmed /\ ui.awaiting /\ ui.iptt /\ modulator = "idle"
                   signals == IF starts THEN Append(ui.toModulator, "start")
                                        ELSE ui.toModulator
                   awaiting == ui.awaiting /\ ~confirmed
                   ptt == u.ptt
                   s == [ui EXCEPT !.reported = ptt, !.awaiting = awaiting,
                                   !.toModulator = signals]
        <3>1. u \in Update
            BY <2>3, ComposerGives, HeadTailProperties DEF HandleTransceiverUpdate
        <3>2. signals \in Seq({"start", "stop"}) /\ awaiting \in BOOLEAN
            BY ComposerGives, AppendProperties DEF UI
        <3>3. Return(IF ~u.current THEN ui ELSE s, Tail(updates))
            BY <2>3 DEF HandleTransceiverUpdate
        <3>4. ptt \in BOOLEAN
            BY <3>1 DEF Update
        <3> HIDE DEF signals, awaiting, ptt, u
        <3>5. s \in UI /\ \A f \in ComposerFields : s[f] = ui[f]
            BY <3>2, <3>4, ComposerGives DEF UI, ComposerFields
        <3> HIDE DEF s
        <3>. QED
            BY <3>3, <3>5, ComposerGives
    <2>. QED
        BY <2>1, <2>2, <2>3
<1>1. Composes(s) /\ s.next = ui.next
    BY ComposerGives, ComposerUnchanged DEF ComposerFields
<1>. QED
    BY <1>1, HandlerComposes

(* The poll goes on to the first frame of the text that is not sent.       *)
LEMMA PollComposes ==
    ASSUME CInv, NEW second \in BOOLEAN, GuiUpdate(second)
    PROVE  Composes(ui') /\ SendsStep
<1> DEFINE s == IF ui.transmitting \/ ui.auto THEN PrepareSending(ui) ELSE ui
           d == TransmitDisplay(s)
           q == IF second THEN ProcessTxQueue(d) ELSE s
           k == KeepLastValues(q)
<1>1. /\ s \in UI /\ Composes(s) /\ s.messages = ui.messages
      /\ ui.auto /\ s.auto => s.next = ui.next \/ Took(ui, s)
      /\ Good(s, hold)
    <2>1. CASE ui.auto
        <3>1. s = PrepareSending(ui)
            BY <2>1
        <3>2. Good(PrepareSending(ui), hold)
            BY <2>1, PrepareSendingIsGood DEF CInv, IInv, TypeOK
        <3>. QED
            BY <2>1, <3>1, <3>2, ComposerGives, PrepareSendingComposes
    <2>2. CASE ~ui.auto
        <3>1. s = ui
            BY <2>2, ComposerGives
        <3>. QED
            BY <2>2, <3>1, ComposerGives DEF CInv, IInv
    <2>. QED
        BY <2>1, <2>2
<1>2. Return(k, updates)
    BY DEF GuiUpdate
<1> HIDE DEF s
<1>3. d \in UI /\ \A f \in ComposerFields \cup {"messages", "button"} : d[f] = s[f]
    <2> DEFINE b == [s EXCEPT !.btxok = TRUE]
    <2>1. b \in UI /\ \A f \in ComposerFields \cup {"messages", "button"} : b[f] = s[f]
        BY <1>1 DEF UI, ComposerFields
    <2>2. d = IF s.transmitting THEN b ELSE s
        BY DEF TransmitDisplay
    <2> HIDE DEF b
    <2>. QED
        BY <1>1, <2>1, <2>2
<1> HIDE DEF d
<1>4. Composes(d) /\ (d.auto => d.button)
    BY <1>1, <1>3, ComposerUnchanged DEF ComposerFields, Good, InStep
<1>5. /\ q \in UI /\ Composes(q)
      /\ \/ \A f \in ComposerFields \cup {"messages"} : q[f] = s[f]
         \/ s.messages # << >> /\ q.messages = Tail(s.messages)
    <2>1. CASE ~second
        BY <1>1, <2>1
    <2>2. CASE second
        <3>1. q = ProcessTxQueue(d)
            BY <2>2
        <3>2. /\ ProcessTxQueue(d) \in UI /\ Composes(ProcessTxQueue(d))
              /\ \/ ProcessTxQueue(d) = d
                 \/ d.messages # << >> /\ ProcessTxQueue(d).messages = Tail(d.messages)
            BY <1>3, <1>4, ProcessTxQueueComposes
        <3>3. d.messages = s.messages
            BY <1>3
        <3>. QED
            BY <1>3, <3>1, <3>2, <3>3
    <2>. QED
        BY <2>1, <2>2
<1> HIDE DEF q
<1>6. k \in UI /\ \A f \in ComposerFields \cup {"messages"} : k[f] = q[f]
    BY <1>5 DEF KeepLastValues, UI, ComposerFields
<1> HIDE DEF k
<1>7. Composes(k)
    BY <1>5, <1>6, ComposerUnchanged
<1>8. /\ Composes(ui')
      /\ ui'.auto = k.auto /\ ui'.next = k.next /\ ui'.unsent = k.unsent
      /\ ui'.messages = k.messages
    BY <1>2, <1>6, <1>7, ReturnComposes
<1>9. ASSUME TakesNextFrame, ui.messages = ui'.messages
      PROVE  ui.unsent = <<ui'.next>> \o ui'.unsent
    <2>1. s.messages = q.messages
        BY <1>1, <1>6, <1>8, <1>9
    <2>2. s.messages # << >> => Tail(s.messages) # s.messages
        <3>1. s.messages \in Seq(Message)
            BY <1>1 DEF UI
        <3>. QED
            BY <3>1, TailIsAnother
    <2>3. \A f \in ComposerFields \cup {"messages"} : q[f] = s[f]
        BY <1>5, <2>1, <2>2
    <2>4. ui'.auto = s.auto /\ ui'.next = s.next /\ ui'.unsent = s.unsent
        BY <1>6, <1>8, <2>3 DEF ComposerFields
    <2>5. Took(ui, s) /\ Built(ui) = ui.unsent
        BY <1>1, <1>9, <2>4, ComposerGives, BuiltIsUnsent DEF TakesNextFrame
    <2>6. ui.unsent \in Seq(Frame)
        BY ComposerGives DEF UI
    <2>. QED
        BY <2>4, <2>5, <2>6, HeadAndTail DEF Took
<1>. QED
    BY <1>8, <1>9 DEF SendsStep

(* The composer is in order after every step, and what it sends is the     *)
(* first frame of what it shows.                                           *)
LEMMA NextComposes ==
    ASSUME CInv, [Next]_vars
    PROVE  Composes(ui') /\ SendsStep
<1>1. CASE User
    BY <1>1, TypingComposes, StartComposes, EnqueueComposes, HaltComposes,
       WatchdogComposes, RigComposes DEF User
<1>2. CASE System
    <2>1. CASE TransceiverSet \/ ModulatorSignal \/ Clock
        <3>1. ui' = ui
            BY <2>1 DEF TransceiverSet, ModulatorSignal, Clock
        <3>. QED
            BY <3>1, ComposerGives DEF SendsStep, TakesNextFrame
    <2>. QED
        BY <1>2, <2>1, PollComposes, RigComposes DEF System
<1>3. CASE UNCHANGED vars
    BY <1>3, ComposerGives DEF vars, SendsStep, TakesNextFrame
<1>. QED
    BY <1>1, <1>2, <1>3 DEF Next

LEMMA ComposerInvariance == Spec => []CInv
<1>1. Init => CInv
    <2> SUFFICES ASSUME Init PROVE CInv
        OBVIOUS
    <2>1. PICK autoreply \in BOOLEAN : ui = [Idle EXCEPT !.autoreply = autoreply]
        BY DEF Init
    <2>2. Composes(ui)
        BY <2>1 DEF Idle, Composes
    <2>. QED
        BY <2>2, InitIsGood DEF CInv
<1>2. CInv /\ [Next]_vars => CInv'
    <2> SUFFICES ASSUME CInv, [Next]_vars PROVE CInv'
        OBVIOUS
    <2>1. IInv'
        BY NextPreserves DEF CInv
    <2>2. Composes(ui')
        BY NextComposes
    <2>. QED
        BY <2>1, <2>2 DEF CInv, Composes
<1>. QED
    BY <1>1, <1>2, PTL DEF Spec

(* Whatever the user types, erases and queues while a message is being     *)
(* sent, the next frame is the first of the text that is not sent yet.     *)
THEOREM SendsCorrect == Spec => SendsWhatIsTyped
<1>1. CInv /\ [Next]_vars => [TakesNextFrame /\ ui.messages = ui'.messages =>
                                ui.unsent = <<ui'.next>> \o ui'.unsent]_vars
    BY NextComposes DEF SendsStep
<1>. QED
    BY <1>1, ComposerInvariance, PTL DEF Spec, SendsWhatIsTyped

(* Without the idle watchdog no text is locked that is not being sent.     *)
THEOREM LockedCorrect ==
    ASSUME MayIdle = FALSE
    PROVE  Spec => []LockedIsBeingSent
<1>1. CInv => LockedIsBeingSent
    BY DEF CInv, Composes, LockedIsBeingSent
<1>. QED
    BY <1>1, ComposerInvariance, PTL

-----------------------------------------------------------------------------
(* What a handler does to the frame on the air, from the record a that it  *)
(* found to the record b that it leaves: nothing, or it ends the frame, or *)
(* it keys one.                                                            *)
TimedFields == {"iptt", "iptt0", "awaiting", "ptt", "reported", "timer", "itone",
                "toRig", "toModulator"}

Calm(a, b) ==
    /\ \A f \in TimedFields : b[f] = a[f]
    /\ b.iptt => b.next = a.next
    /\ MayBegin /\ b.auto /\ ~b.iptt => a.auto

Ends(a, b) ==
    /\ ~b.iptt
    /\ \A f \in {"iptt0", "awaiting", "ptt", "reported", "itone", "toRig"} : b[f] = a[f]
    /\ b.toModulator \in Seq({"stop"})
    /\ b.toModulator = << >> => a.toModulator = << >> /\ ~a.iptt /\ b.timer = a.timer
    /\ b.toModulator # << >> => b.timer
    /\ MayBegin => ~b.auto

Keys(a, b) ==
    /\ MayBegin /\ ~a.iptt
    /\ b.iptt /\ b.awaiting /\ b.ptt /\ b.itone = b.next
    /\ \A f \in {"iptt0", "reported", "timer", "toModulator"} : b[f] = a[f]
    /\ b.toRig = Append(Append(a.toRig, a.ptt), TRUE)

Outcome(a, b) == Calm(a, b) \/ Ends(a, b) \/ Keys(a, b)

(* What a handler has emitted so far ends a frame, if anything.            *)
OnlyStops(s) ==
    /\ s.toModulator \in Seq({"stop"})
    /\ s.toModulator # << >> => s.timer

(* The stop button.                                                        *)
LEMMA StopTxButtonEnds ==
    ASSUME NEW s \in UI, OnlyStops(s), s.iptt => s.button
    PROVE  Ends(s, StopTxButton(s))
<1> DEFINE b == StopTxButton(s)
<1>1. /\ ~b.auto
      /\ \A f \in {"awaiting", "ptt", "reported", "itone", "toRig", "iptt0"} : b[f] = s[f]
      /\ s.button => /\ ~b.iptt /\ b.timer
                     /\ b.toModulator = Append(s.toModulator, "stop")
      /\ ~s.button => /\ b.iptt = s.iptt /\ b.timer = s.timer
                      /\ b.toModulator = s.toModulator
    BY StopTxButtonFields
<1>2. /\ Append(s.toModulator, "stop") \in Seq({"stop"})
      /\ Append(s.toModulator, "stop") # << >>
    BY AppendProperties DEF OnlyStops
<1> HIDE DEF b
<1>3. Ends(s, b)
    <2>1. CASE s.button
        BY <1>1, <1>2, <2>1 DEF Ends
    <2>2. CASE ~s.button
        BY <1>1, <2>2 DEF Ends, OnlyStops
    <2>. QED
        BY <2>1, <2>2
<1>. QED
    BY <1>3 DEF b

(* stopTx, when it may go on with the next frame only after the period.    *)
LEMMA StopTxEnds ==
    ASSUME NEW s \in UI, OnlyStops(s), MayBegin => ~s.auto
    PROVE  Ends(s, StopTx(s))
<1> DEFINE e == EndTransmit(s)
           p == PrepareNextMessageFrame(e)
           r == StopTx(s)
           signals == Append(s.toModulator, "stop")
<1>1. signals \in Seq({"stop"}) /\ signals # << >>
    BY AppendProperties DEF OnlyStops
<1>2. /\ e \in UI /\ ~e.iptt /\ e.timer /\ e.toModulator = signals
      /\ \A f \in {"auto", "iptt0", "awaiting", "ptt", "reported", "itone", "toRig"} :
            e[f] = s[f]
    BY EndTransmitFields DEF Fields
<1> HIDE DEF e, signals
<1>3. /\ p \in UI /\ ~p.iptt /\ p.timer /\ p.toModulator = signals
      /\ \A f \in {"auto", "iptt0", "awaiting", "ptt", "reported", "itone", "toRig"} :
            p[f] = s[f]
    BY <1>2, PrepareNextMessageFrameFields DEF Fields
<1>4. r = IF p.next = None THEN StopTxButton(p) ELSE p
    BY DEF StopTx, e
<1> HIDE DEF p, r
<1>5. Ends(s, r)
    <2>1. CASE r = p
        BY <1>1, <1>3, <2>1 DEF Ends
    <2>2. CASE r = StopTxButton(p)
        <3>1. OnlyStops(p)
            BY <1>1, <1>3 DEF OnlyStops
        <3>2. Ends(p, r)
            BY <1>3, <2>2, <3>1, StopTxButtonEnds
        <3>. QED
            BY <1>1, <1>3, <3>2 DEF Ends
    <2>. QED
        BY <1>4, <2>1, <2>2
<1>. QED
    BY <1>5 DEF r

(* prepareSending, for a message that is being sent, if the last poll did  *)
(* not see another frame keyed when one begins, and saw the one that is    *)
(* keyed when the period ends.                                             *)
LEMMA PrepareSendingTimes ==
    ASSUME NEW s \in UI, InStep(s), Composes(s), s.auto, OnlyStops(s),
           s.iptt => s.itone = s.next,
           Begins(s) => ~s.iptt0,
           phase = "gap" => (s.iptt => s.iptt0)
    PROVE  LET r == PrepareSending(s)
           IN  /\ Outcome(s, r)
               /\ \/ r.auto /\ r.next = s.next /\ (phase = "gap" => ~r.iptt)
                  \/ phase = "gap" /\ s.iptt /\ Ends(s, r)
               /\ Begins(s) => Keys(s, r)
               /\ Ends(s, r) \/ Calm(s, r) \/ Begins(s)
<1> DEFINE b == Key(s)
           c == TimeToStop(b)
           d == StartTransmitting(c)
           r == PrepareSending(s)
<1>1. StopWithoutMessage(s) = s
    BY DEF StopWithoutMessage, Composes
<1>2. r = StopWhenDone(d)
    BY <1>1 DEF PrepareSending
<1>3. /\ b \in UI
      /\ ~Begins(s) => b = s
      /\ Begins(s) => /\ b.iptt /\ b.awaiting /\ b.ptt
                      /\ b.toRig = Append(Append(s.toRig, s.ptt), TRUE)
      /\ \A f \in Fields \ {"iptt", "awaiting", "ptt", "toRig"} : b[f] = s[f]
    BY KeyFields
<1> HIDE DEF b
<1>4. /\ c \in UI
      /\ c.btxok = (b.btxok /\ phase # "gap")
      /\ \A f \in Fields \ {"btxok"} : c[f] = b[f]
    BY <1>3, SendingFields
<1> HIDE DEF c
<1>5. /\ d \in UI
      /\ c.iptt /\ ~c.iptt0 => d.itone = c.next /\ d.btxok
      /\ ~(c.iptt /\ ~c.iptt0) => d = c
      /\ \A f \in Fields \ {"itone", "transmitting", "btxok"} : d[f] = c[f]
    BY <1>4, SendingFields
<1> HIDE DEF d, r
<1>6. /\ d.auto /\ d.next = s.next /\ d.iptt0 = s.iptt0 /\ d.btxok0 = s.iptt0
      /\ d.reported = s.reported /\ d.timer = s.timer /\ d.toModulator = s.toModulator
      /\ d.iptt = b.iptt /\ d.awaiting = b.awaiting /\ d.ptt = b.ptt /\ d.toRig = b.toRig
    BY <1>3, <1>4, <1>5 DEF Fields, InStep
<1>7. CASE Begins(s)
    <2>1. phase # "gap" /\ ~s.iptt /\ MayBegin /\ d.iptt /\ d.btxok /\ d.itone = s.next
        BY <1>3, <1>4, <1>5, <1>7 DEF Begins, MayBegin, Fields
    <2>2. r = d
        BY <1>2, <2>1 DEF StopWhenDone
    <2>3. Keys(s, r)
        BY <1>3, <1>6, <1>7, <2>1, <2>2 DEF Keys
    <2>. QED
        BY <1>6, <1>7, <2>1, <2>2, <2>3 DEF Outcome, r
<1>8. CASE ~Begins(s) /\ ~s.iptt
    <2>1. b = s /\ ~d.iptt /\ d.itone = s.itone
        BY <1>3, <1>4, <1>5, <1>8 DEF Fields
    <2>2. r = d
        BY <1>2, <2>1 DEF StopWhenDone
    <2>3. Calm(s, r)
        BY <1>6, <2>1, <2>2 DEF Calm, TimedFields
    <2>. QED
        BY <1>6, <1>8, <2>1, <2>2, <2>3 DEF Outcome, r
<1>9. CASE s.iptt /\ phase # "gap"
    <2>1. b = s /\ s.btxok
        BY <1>3, <1>9 DEF Begins, InStep
    <2>2. d.btxok /\ d.itone = s.itone
        BY <1>4, <1>5, <1>9, <2>1 DEF Fields
    <2>3. r = d
        BY <1>2, <2>2 DEF StopWhenDone
    <2>4. Calm(s, r)
        BY <1>6, <1>9, <2>1, <2>2, <2>3 DEF Calm, TimedFields
    <2>. QED
        BY <1>6, <1>9, <2>3, <2>4 DEF Outcome, Begins, r
<1>10. CASE s.iptt /\ phase = "gap"
    <2>1. b = s /\ s.iptt0
        BY <1>3, <1>10 DEF Begins
    <2>2. d = c /\ ~d.btxok /\ d.btxok0 /\ d.iptt
        BY <1>4, <1>5, <1>6, <1>10, <2>1 DEF Fields
    <2>3. r = StopTx(d)
        BY <1>2, <2>2 DEF StopWhenDone
    <2>4. OnlyStops(d)
        BY <1>6 DEF OnlyStops
    <2>5. ~MayBegin
        BY <1>10 DEF MayBegin
    <2>6. Ends(d, r)
        BY <1>5, <2>3, <2>4, <2>5, StopTxEnds
    <2>7. \A f \in {"iptt0", "awaiting", "ptt", "reported", "itone", "toRig", "iptt", "timer",
                    "toModulator"} : d[f] = s[f]
        BY <1>4, <2>1, <2>2 DEF Fields
    <2>8. Ends(s, r)
        BY <2>6, <2>7 DEF Ends
    <2>. QED
        BY <1>10, <2>8 DEF Outcome, Begins, r
<1>. QED
    BY <1>7, <1>8, <1>9, <1>10

(* toggleTx(true), if the last poll did not see a frame keyed.             *)
LEMMA ToggleTxTimes ==
    ASSUME NEW s \in UI, InStep(s), Composes(s), OnlyStops(s),
           MayBegin /\ ~s.button => ~s.iptt0
    PROVE  Outcome(s, ToggleTx(s))
<1> DEFINE t == [s EXCEPT !.button = TRUE]
           p == PrepareNextMessageFrame(t)
           u == [p EXCEPT !.auto = TRUE]
<1>1. CASE s.button
    <2>1. ToggleTx(s) = s
        BY <1>1 DEF ToggleTx
    <2>2. Calm(s, s)
        BY DEF Calm
    <2>. QED
        BY <2>1, <2>2 DEF Outcome
<1>2. CASE ~s.button
    <2>1. t \in UI /\ t.button /\ \A f \in Fields \ {"button"} : t[f] = s[f]
        BY DEF UI, Fields
    <2>2. ToggleTx(s) = StartTx(t)
        BY <1>2 DEF ToggleTx
    <2> HIDE DEF t
    <2>3. ~s.auto /\ ~s.iptt /\ ~t.auto /\ ~t.iptt
        BY <1>2, <2>1 DEF InStep, Fields
    <2>4. Composes(t)
        BY <2>1, ComposerUnchanged DEF Fields, ComposerFields
    <2>5. CASE ~HasText(t)
        <3>1. StartTx(t) = t
            BY <2>5 DEF StartTx
        <3>2. Calm(s, t)
            BY <2>1, <2>3 DEF Calm, Fields, TimedFields
        <3>. QED
            BY <2>2, <3>1, <3>2 DEF Outcome
    <2>6. CASE HasText(t) /\ ~t.enabled
        <3>1. StartTx(t) = StopTxButton(t)
            BY <2>6 DEF StartTx
        <3>2. OnlyStops(t)
            BY <2>1 DEF OnlyStops, Fields
        <3>3. Ends(t, StopTxButton(t))
            BY <2>1, <3>2, StopTxButtonEnds
        <3>4. Ends(s, StopTxButton(t))
            BY <2>1, <2>3, <3>3 DEF Ends, Fields
        <3>. QED
            BY <2>2, <3>1, <3>4 DEF Outcome
    <2>7. CASE HasText(t) /\ t.enabled
        <3>1. /\ p \in UI
              /\ \A f \in Fields \ {"next", "count", "queue", "sent", "unsent", "dirty"} :
                    p[f] = t[f]
              /\ p.dirty = FALSE
              /\ p.next # None => p.queue = p.unsent /\ p.sent
            BY <2>1, <2>7, PrepareNextMessageFrameFields
        <3>2. StartTx(t) = IF p.next = None THEN p ELSE PrepareSending(u)
            BY <2>3, <2>7, <3>1 DEF StartTx, Fields
        <3> HIDE DEF p
        <3>3. \A f \in Fields \ {"next", "count", "queue", "sent", "unsent", "dirty",
                                 "button"} : p[f] = s[f]
            BY <2>1, <3>1 DEF Fields
        <3>4. CASE p.next = None
            <4>1. Calm(s, p)
                BY <2>3, <3>3 DEF Calm, Fields, TimedFields
            <4>. QED
                BY <2>2, <3>2, <3>4, <4>1 DEF Outcome
        <3>5. CASE p.next # None
            <4>1. /\ u \in UI /\ u.auto /\ u.sent /\ u.next # None
                  /\ u.queue = u.unsent /\ u.button
                  /\ \A f \in TimedFields \cup {"btxok", "btxok0", "transmitting"} :
                        u[f] = s[f]
                <5>1. u \in UI /\ u.auto /\ \A f \in Fields \ {"auto"} : u[f] = p[f]
                    BY <3>1 DEF UI, Fields
                <5> HIDE DEF u
                <5>. QED
                    BY <2>1, <3>1, <3>3, <3>5, <5>1 DEF Fields, TimedFields
            <4> HIDE DEF u
            <4>2. Composes(u)
                BY <4>1 DEF Composes
            <4>3. InStep(u) /\ ~u.iptt
                BY <2>3, <4>1 DEF InStep, TimedFields
            <4>4. OnlyStops(u)
                BY <4>1 DEF OnlyStops, TimedFields
            <4>5. Begins(u) => ~u.iptt0
                BY <1>2, <4>1 DEF Begins, TimedFields
            <4> DEFINE r == PrepareSending(u)
            <4>6. /\ Ends(u, r) \/ Calm(u, r) \/ Begins(u)
                  /\ Begins(u) => Keys(u, r)
                BY <4>1, <4>2, <4>3, <4>4, <4>5, PrepareSendingTimes
            <4> HIDE DEF r
            <4>7. CASE Begins(u)
                <5>1. Keys(s, r)
                    BY <2>3, <4>1, <4>6, <4>7 DEF Keys, TimedFields
                <5>. QED
                    BY <2>2, <3>2, <3>5, <5>1 DEF Outcome, r
            <4>8. CASE ~Begins(u)
                <5>1. ~MayBegin
                    BY <4>1, <4>3, <4>8 DEF Begins
                <5>2. Ends(s, r) \/ Calm(s, r)
                    <6>1. CASE Ends(u, r)
                        BY <2>3, <4>1, <6>1 DEF Ends, TimedFields
                    <6>2. CASE Calm(u, r)
                        BY <2>3, <4>1, <5>1, <6>2 DEF Calm, TimedFields
                    <6>. QED
                        BY <4>6, <4>8, <6>1, <6>2
                <5>. QED
                    BY <2>2, <3>2, <3>5, <5>2 DEF Outcome, r
            <4>. QED
                BY <4>7, <4>8
        <3>. QED
            BY <3>4, <3>5
    <2>. QED
        BY <2>5, <2>6, <2>7
<1>. QED
    BY <1>1, <1>2

(* A change of the composer or of the queue of messages before a handler's *)
(* outcome, and none of the fields that it is about.                       *)
LEMMA OutcomeFrom ==
    ASSUME NEW a, NEW b, NEW c, Outcome(b, c), ~a.iptt,
           \A f \in TimedFields \cup {"auto"} : b[f] = a[f]
    PROVE  Outcome(a, c)
<1>1. CASE Calm(b, c)
    <2>1. Calm(a, c)
        BY <1>1 DEF Calm, TimedFields
    <2>. QED
        BY <2>1 DEF Outcome
<1>2. CASE Ends(b, c)
    <2>1. Ends(a, c)
        BY <1>2 DEF Ends, TimedFields
    <2>. QED
        BY <2>1 DEF Outcome
<1>3. CASE Keys(b, c)
    <2>1. Keys(a, c)
        BY <1>3 DEF Keys, TimedFields
    <2>. QED
        BY <2>1 DEF Outcome
<1>. QED
    BY <1>1, <1>2, <1>3 DEF Outcome

(* A message is taken from the queue while none is being sent.             *)
LEMMA ProcessTxQueueTimes ==
    ASSUME NEW s \in UI, InStep(s), Composes(s), OnlyStops(s),
           MayBegin /\ ~s.auto /\ s.messages # << >> => ~s.iptt0
    PROVE  /\ Outcome(s, ProcessTxQueue(s))
           /\ s.auto => ProcessTxQueue(s) = s
<1>1. CASE s.messages = << >> \/ s.queue # << >> \/ HasText(s) \/ Queued(s)
    <2>1. ProcessTxQueue(s) = s /\ Calm(s, s)
        BY <1>1 DEF ProcessTxQueue, Calm
    <2>. QED
        BY <2>1 DEF Outcome
<1>2. CASE ~(s.messages = << >> \/ s.queue # << >> \/ HasText(s) \/ Queued(s))
    <2> DEFINE m == Head(s.messages)
               rest == Tail(s.messages)
               p == [s EXCEPT !.messages = rest]
               t == AddMessageText(p, m.frames, TRUE)
    <2>1. s.messages \in Seq(Message) /\ s.messages # << >>
        BY <1>2 DEF UI
    <2>2. m \in Message /\ rest \in Seq(Message)
        BY <2>1, HeadTailProperties
    <2>3. p \in UI /\ \A f \in Fields \ {"messages"} : p[f] = s[f]
        <3> HIDE DEF rest
        <3>. QED
            BY <2>2 DEF UI, Fields
    <2>4. m.frames \in Seq(Frame)
        BY <2>2 DEF Message
    <2>5. ProcessTxQueue(s) = IF m.high \/ s.autoreply THEN ToggleTx(t) ELSE t
        BY <1>2 DEF ProcessTxQueue
    <2>6. ~s.sent /\ ~s.auto /\ ~s.iptt
        BY <1>2 DEF HasText, UI, Composes, InStep
    <2> HIDE DEF p, m
    <2>7. Composes(p) /\ ~p.sent
        BY <2>3, <2>6, ComposerUnchanged DEF Fields, ComposerFields
    <2>8. Composes(t)
        BY <2>3, <2>4, <2>7, AddMessageTextComposes
    <2>9. t \in UI /\ \A f \in Fields \ {"messages", "unsent", "sent", "dirty"} : t[f] = s[f]
        <3>1. t \in UI /\ \A f \in Fields \ {"unsent", "sent", "dirty"} : t[f] = p[f]
            BY <2>3, <2>4, AddMessageTextFields
        <3>. QED
            BY <2>3, <3>1 DEF Fields
    <2> HIDE DEF t
    <2>10. InStep(t) /\ OnlyStops(t)
        <3>1. \A f \in {"iptt", "transmitting", "btxok", "btxok0", "iptt0", "auto", "next",
                        "button", "toModulator", "timer"} : t[f] = s[f]
            BY <2>9 DEF Fields
        <3>. QED
            BY <3>1 DEF InStep, OnlyStops
    <2>11. MayBegin => ~t.iptt0
        BY <2>1, <2>6, <2>9 DEF Fields
    <2>12. Outcome(t, ToggleTx(t))
        BY <2>8, <2>9, <2>10, <2>11, ToggleTxTimes
    <2>13. \A f \in TimedFields \cup {"auto"} : t[f] = s[f]
        BY <2>9 DEF Fields, TimedFields
    <2>14. Outcome(s, ToggleTx(t))
        BY <2>6, <2>12, <2>13, OutcomeFrom
    <2>15. Calm(s, t)
        BY <2>6, <2>13 DEF Calm, TimedFields
    <2>. QED
        BY <2>5, <2>6, <2>14, <2>15 DEF Outcome
<1>. QED
    BY <1>1, <1>2

-----------------------------------------------------------------------------
(* The inductive invariant of the timing.  It holds when a transmission    *)
(* that was stopped comes to rest before another one begins in its period. *)

\* A handler has passed on what it emitted.
Emitted == ui.toRig = << >> /\ ui.toModulator = << >>

(* The last command on its way to the rig carries the PTT that the GUI     *)
(* thread last asked for; when none is, the rig has it, and the last       *)
(* update, which is the only one that counts, reports it.                  *)
CommandsFollow ==
    /\ rigQ # << >> => /\ rigQ[Len(rigQ)] = ui.ptt
                       /\ \A i \in DOMAIN updates : ~updates[i].current
    /\ rigQ = << >> =>
        /\ rigPtt = ui.ptt
        /\ updates = << >> => ui.reported = ui.ptt
        /\ updates # << >> => updates[Len(updates)].current
        /\ \A i \in DOMAIN updates :
            updates[i].current => i = Len(updates) /\ updates[i].ptt = ui.ptt

\* The tones of the keyed frame are computed and nothing releases its PTT.
KeyedTimer == ui.iptt => ~ui.timer /\ ui.ptt /\ ui.itone = ui.next

(* A message whose next frame is not keyed yet, when it may be, has its    *)
(* last frame behind it.                                                   *)
Ready ==
    MayBegin /\ ui.auto /\ ~ui.iptt =>
        ~ui.timer /\ ~ui.iptt0 /\ modQ = << >> /\ (hold \/ ~ui.reported)

(* A poll has seen the frame that is keyed before it ends, and ended it    *)
(* before the next period.                                                 *)
Polls ==
    /\ (phase = "late" /\ polled) \/ phase = "gap" => (ui.iptt => ui.iptt0)
    /\ phase = "gap" /\ polled => ~ui.iptt /\ ~ui.iptt0

(* The audio that waits for the PTT will be started: a command or its      *)
(* update is on its way, and the PTT it reports will be a confirmation.    *)
Awaits ==
    ui.iptt /\ ui.awaiting =>
        /\ MayBegin
        /\ modQ = << >> /\ modulator = "idle"
        /\ hold \/ ~ui.reported
        /\ rigQ # << >> \/ updates # << >>

\* The audio of a keyed frame was started in time, and it is the frame's.
Sounds ==
    ui.iptt /\ ~ui.awaiting =>
        \/ modQ = <<"start">> /\ modulator = "idle" /\ MayBegin
        \/ /\ modQ = << >> /\ modulator = "active"
           /\ IF phase = "gap" THEN ui.next \in aired ELSE onAir = ui.next

\* Without a keyed frame the modulator stops.
Rests ==
    ~ui.iptt => \/ modulator = "idle" /\ modQ = << >>
                \/ modQ # << >> /\ modQ[Len(modQ)] = "stop"

(* While there is audio, or will be, no command on its way releases the    *)
(* PTT.                                                                    *)
Voiced ==
    modulator = "active" \/ (\E i \in DOMAIN modQ : modQ[i] = "start") =>
        ui.ptt /\ rigPtt /\ \A i \in DOMAIN rigQ : rigQ[i]

Timed ==
    /\ Emitted /\ CommandsFollow /\ KeyedTimer /\ Ready /\ Polls
    /\ Awaits /\ Sounds /\ Rests /\ Voiced

TInv == CInv /\ Timed

(* What the lemmas on the actions take from the types.                     *)
LEMMA TimedTypes ==
    ASSUME CInv
    PROVE  /\ ui \in UI /\ InStep(ui) /\ Accounted(ui, hold) /\ Composes(ui)
           /\ ui.ptt \in BOOLEAN /\ hold \in BOOLEAN /\ phase \in Phases
           /\ rigQ \in Seq(BOOLEAN) /\ updates \in Seq(Update)
           /\ modQ \in Seq({"start", "stop"}) /\ modulator \in {"idle", "active"}
           /\ polled \in BOOLEAN /\ rigPtt \in BOOLEAN
BY DEF CInv, IInv, Good, TypeOK, UI

(* A frame that is keyed finds the one before it at rest.                  *)
LEMMA Fresh ==
    ASSUME TInv, MayBegin, ~ui.iptt, ui.auto \/ Rested
    PROVE  /\ ~ui.timer /\ ~ui.iptt0 /\ modQ = << >> /\ modulator = "idle"
           /\ hold \/ ~ui.reported
<1>1. ~ui.timer /\ ~ui.iptt0 /\ modQ = << >> /\ (hold \/ ~ui.reported)
    <2>1. CASE ui.auto
        BY <2>1 DEF TInv, Timed, Ready
    <2>2. CASE Rested
        <3>1. ~ui.timer /\ ~ui.iptt0 /\ rigQ = << >> /\ updates = << >> /\ modQ = << >>
            BY <2>2, TimedTypes DEF TInv, Rested, MayBegin, Quiet, UI
        <3>2. ui.reported = ui.ptt
            BY <3>1 DEF TInv, Timed, CommandsFollow
        <3>3. ui.ptt => hold
            BY <3>1, TimedTypes DEF TInv, Accounted
        <3>. QED
            BY <3>1, <3>2, <3>3
    <2>. QED
        BY <2>1, <2>2
<1>2. modulator = "idle"
    BY <1>1 DEF TInv, Timed, Rests
<1>. QED
    BY <1>1, <1>2

-----------------------------------------------------------------------------
(* The handlers, by what they do to the frame on the air.                  *)

(* The state that a handler leaves with the record b; the poll keeps the   *)
(* value of m_iptt.                                                        *)
Left(b) ==
    /\ \A f \in {"auto", "next", "iptt", "awaiting", "ptt", "reported", "timer", "itone"} :
            ui'[f] = b[f]
    /\ ui'.toRig = << >> /\ ui'.toModulator = << >>
    /\ rigQ' = rigQ \o b.toRig
    /\ modQ' = modQ \o b.toModulator
    /\ updates' = IF b.toRig = << >> THEN updates ELSE Outdated(updates)
    /\ onAir' = IF b.itone = ui.itone THEN onAir ELSE None
    /\ UNCHANGED <<phase, hold, rigPtt, modulator, aired>>
    /\ \/ ui'.iptt0 = b.iptt0 /\ polled' = polled
       \/ ui'.iptt0 = b.iptt /\ polled' = TRUE /\ (phase = "gap" => ~b.iptt)

LEMMA CalmKeeps ==
    ASSUME TInv, NEW b, Calm(ui, b), Left(b)
    PROVE  Timed'
<1>1. b.toRig = << >> /\ b.toModulator = << >> /\ ui.toRig = << >>
    BY DEF TInv, Timed, Emitted, Calm, TimedFields
<1>2. rigQ' = rigQ /\ modQ' = modQ /\ updates' = updates
    BY <1>1, TimedTypes DEF TInv, Left
<1>3. /\ \A f \in {"iptt", "awaiting", "ptt", "reported", "timer", "itone"} : ui'[f] = ui[f]
      /\ onAir' = onAir
      /\ ui'.iptt => ui'.next = ui.next
      /\ MayBegin /\ ui'.auto /\ ~ui'.iptt => ui.auto
      /\ phase' = phase /\ modulator' = modulator /\ hold' = hold /\ rigPtt' = rigPtt
      /\ aired' = aired
      /\ Emitted'
      /\ \/ ui'.iptt0 = ui.iptt0 /\ polled' = polled
         \/ ui'.iptt0 = ui.iptt /\ polled' = TRUE /\ (phase = "gap" => ~ui.iptt)
    BY DEF Left, Calm, TimedFields, Emitted
<1>4. MayBegin' = MayBegin
    BY <1>3 DEF MayBegin
<1>5. CommandsFollow' /\ KeyedTimer'
    BY <1>2, <1>3 DEF TInv, Timed, CommandsFollow, KeyedTimer
<1>6. Ready' /\ Polls'
    BY <1>2, <1>3, <1>4 DEF TInv, Timed, Ready, Polls
<1>7. Awaits' /\ Sounds'
    BY <1>2, <1>3, <1>4 DEF TInv, Timed, Awaits, Sounds
<1>8. Rests' /\ Voiced'
    BY <1>2, <1>3 DEF TInv, Timed, Rests, Voiced
<1>. QED
    BY <1>3, <1>5, <1>6, <1>7, <1>8 DEF Timed

(* The signals that a handler emits end what is queued.                    *)
LEMMA LastOfConcat ==
    ASSUME NEW S, NEW s \in Seq(S), NEW t \in Seq(S), t # << >>
    PROVE  s \o t # << >> /\ (s \o t)[Len(s \o t)] = t[Len(t)]
<1>1. Len(t) \in Nat \ {0} /\ Len(s) \in Nat
    BY EmptySeq, LenProperties
<1>2. Len(s \o t) = Len(s) + Len(t)
    BY ConcatProperties
<1>. QED
    BY <1>1, <1>2, ConcatProperties

LEMMA EndsKeeps ==
    ASSUME TInv, NEW b, Ends(ui, b), Left(b)
    PROVE  Timed'
<1>1. b.toRig = << >> /\ b.toModulator \in Seq({"stop"})
    BY DEF TInv, Timed, Emitted, Ends
<1>2. rigQ' = rigQ /\ modQ' = modQ \o b.toModulator /\ updates' = updates
    BY <1>1, TimedTypes DEF TInv, Left
<1>3. /\ ~ui'.iptt /\ (MayBegin => ~ui'.auto)
      /\ ui'.ptt = ui.ptt /\ ui'.reported = ui.reported
      /\ phase' = phase /\ modulator' = modulator /\ rigPtt' = rigPtt
      /\ Emitted'
      /\ \/ ui'.iptt0 = ui.iptt0 /\ polled' = polled
         \/ ~ui'.iptt0
    BY DEF Left, Ends, Emitted
<1>4. MayBegin' = MayBegin
    BY <1>3 DEF MayBegin
<1>5. CommandsFollow' /\ KeyedTimer'
    BY <1>2, <1>3 DEF TInv, Timed, CommandsFollow, KeyedTimer
<1>6. Ready' /\ Polls' /\ Awaits' /\ Sounds'
    BY <1>3, <1>4 DEF TInv, Timed, Ready, Polls, Awaits, Sounds
<1>7. Rests'
    <2>1. CASE b.toModulator = << >>
        <3>1. modQ' = modQ /\ ~ui.iptt
            BY <1>2, <2>1, TimedTypes DEF TInv, Ends
        <3>. QED
            BY <1>3, <3>1 DEF TInv, Timed, Rests
    <2>2. CASE b.toModulator # << >>
        <3>1. b.toModulator[Len(b.toModulator)] = "stop"
            BY <1>1, <2>2, EmptySeq, ElementOfSeq
        <3>2. b.toModulator \in Seq({"start", "stop"})
            BY <1>1
        <3>3. modQ' # << >> /\ modQ'[Len(modQ')] = "stop"
            BY <1>2, <2>2, <3>1, <3>2, TimedTypes, LastOfConcat DEF TInv
        <3>. QED
            BY <3>3 DEF Rests
    <2>. QED
        BY <2>1, <2>2
<1>8. Voiced'
    <2>1. ASSUME NEW i \in DOMAIN modQ', modQ'[i] = "start"
          PROVE  i \in DOMAIN modQ /\ modQ[i] = "start"
        <3> DEFINE t == b.toModulator
        <3>1. t \in Seq({"start", "stop"}) /\ \A j \in 1 .. Len(t) : t[j] = "stop"
            BY <1>1
        <3>2. modQ' = modQ \o t
            BY <1>2
        <3> HIDE DEF t
        <3>. QED
            BY <2>1, <3>1, <3>2, TimedTypes DEF TInv
    <2>. QED
        BY <1>2, <1>3, <2>1 DEF TInv, Timed, Voiced
<1>. QED
    BY <1>3, <1>5, <1>6, <1>7, <1>8 DEF Timed

(* A command outdates the updates on their way.                            *)
LEMMA OutdatedIsOutdated ==
    ASSUME NEW us \in Seq(Update)
    PROVE  \A i \in DOMAIN Outdated(us) : ~Outdated(us)[i].current
<1>1. \A i \in DOMAIN us : us[i] \in Update
    BY ElementOfSeq
<1>. QED
    BY <1>1 DEF Outdated, Update

LEMMA TwoAppended == \A p, q : Append(Append(<< >>, p), q) = <<p, q>>
<1> SUFFICES ASSUME NEW p, NEW q PROVE Append(Append(<< >>, p), q) = <<p, q>>
    OBVIOUS
<1> DEFINE S == {p, q}
           a == Append(<< >>, p)
           b == Append(a, q)
           c == <<p, q>>
<1>0. p \in S /\ q \in S
    OBVIOUS
<1> HIDE DEF S
<1>1. a \in Seq(S) /\ Len(a) = 1 /\ a[1] = p
    BY <1>0
<1>2. c \in Seq(S) /\ Len(c) = 2 /\ c[1] = p /\ c[2] = q
    BY <1>0
<1> HIDE DEF a, c
<1>3. b \in Seq(S) /\ Len(b) = 2 /\ b[1] = p /\ b[2] = q
    <2>1. b \in Seq(S) /\ Len(b) = Len(a) + 1
        BY <1>0, <1>1, AppendProperties
    <2>2. \A i \in 1 .. Len(a) : b[i] = a[i]
        BY <1>0, <1>1, AppendProperties
    <2>3. b[Len(a) + 1] = q
        BY <1>0, <1>1, AppendProperties
    <2>. QED
        BY <1>1, <2>1, <2>2, <2>3
<1> HIDE DEF b
<1>4. \A i \in 1 .. Len(b) : b[i] = c[i]
    BY <1>2, <1>3
<1>5. b = c
    BY <1>2, <1>3, <1>4, SeqEqual
<1>. QED
    BY <1>5 DEF a, b, c

LEMMA KeysKeeps ==
    ASSUME TInv, NEW b, Keys(ui, b), Left(b), ui.auto \/ Rested
    PROVE  Timed'
<1>1. /\ ~ui.timer /\ ~ui.iptt0 /\ modQ = << >> /\ modulator = "idle"
      /\ hold \/ ~ui.reported
    BY Fresh DEF Keys
<1>2. b.toRig = <<ui.ptt, TRUE>> /\ b.toModulator = << >>
    <2>1. /\ b.toRig = Append(Append(ui.toRig, ui.ptt), TRUE) /\ ui.toRig = << >>
          /\ b.toModulator = << >> /\ ui.ptt \in BOOLEAN
        BY TimedTypes DEF TInv, Timed, Emitted, Keys
    <2>. QED
        BY <2>1, TwoAppended
<1>3. /\ rigQ' = rigQ \o <<ui.ptt, TRUE>>
      /\ modQ' = << >>
      /\ updates' = Outdated(updates)
    BY <1>1, <1>2 DEF Left
<1>4. /\ ui'.iptt /\ ui'.awaiting /\ ui'.ptt /\ ui'.itone = ui'.next /\ ~ui'.timer
      /\ ui'.reported = ui.reported /\ hold' = hold /\ modulator' = modulator
      /\ phase' = phase /\ MayBegin
      /\ Emitted'
    BY <1>1 DEF Left, Keys, Emitted
<1>5. MayBegin'
    BY <1>4 DEF MayBegin
<1>6. rigQ' # << >> /\ rigQ'[Len(rigQ')] = TRUE
    <2> DEFINE t == <<ui.ptt, TRUE>>
    <2>1. t \in Seq(BOOLEAN) /\ t # << >> /\ t[Len(t)] = TRUE
        BY TimedTypes DEF TInv
    <2> HIDE DEF t
    <2>2. rigQ \in Seq(BOOLEAN)
        BY TimedTypes DEF TInv
    <2>3. rigQ' = rigQ \o t
        BY <1>3 DEF t
    <2>. QED
        BY <2>1, <2>2, <2>3, LastOfConcat
<1>7. \A i \in DOMAIN updates' : ~updates'[i].current
    BY <1>3, OutdatedIsOutdated, TimedTypes DEF TInv
<1>8. CommandsFollow' /\ KeyedTimer'
    BY <1>4, <1>6, <1>7 DEF CommandsFollow, KeyedTimer
<1>9. Ready' /\ Polls'
    BY <1>4, <1>5 DEF Ready, Polls, MayBegin
<1>10. Awaits' /\ Sounds'
    BY <1>1, <1>3, <1>4, <1>5, <1>6 DEF Awaits, Sounds
<1>11. Rests' /\ Voiced'
    BY <1>1, <1>3, <1>4 DEF Rests, Voiced
<1>. QED
    BY <1>4, <1>8, <1>9, <1>10, <1>11 DEF Timed

(* A handler that has one of the three outcomes keeps the invariant.       *)
LEMMA OutcomeKeeps ==
    ASSUME TInv, NEW b, Outcome(ui, b), Left(b), Keys(ui, b) => ui.auto \/ Rested
    PROVE  Timed'
BY CalmKeeps, EndsKeeps, KeysKeeps DEF Outcome

-----------------------------------------------------------------------------
(* The actions.                                                            *)

LEMMA HandlerLeaves ==
    ASSUME NEW s \in UI, Handler(s)
    PROVE  Left(s)
<1> DEFINE t == [s EXCEPT !.toRig = << >>, !.toModulator = << >>]
<1>1. /\ \A f \in Fields \ {"toRig", "toModulator"} : t[f] = s[f]
      /\ t.toRig = << >> /\ t.toModulator = << >>
    BY DEF UI, Fields
<1>2. Return(s, updates) /\ polled' = polled
    BY DEF Handler
<1>3. ui' = t
    BY <1>2 DEF Return
<1> HIDE DEF t
<1>4. /\ \A f \in {"auto", "next", "iptt", "awaiting", "ptt", "reported", "timer", "itone"} :
            ui'[f] = s[f]
      /\ ui'.toRig = << >> /\ ui'.toModulator = << >> /\ ui'.iptt0 = s.iptt0
    BY <1>1, <1>3 DEF Fields
<1>. QED
    BY <1>2, <1>4 DEF Left, Return

LEMMA PollLeaves ==
    ASSUME NEW q \in UI, Return(KeepLastValues(q), updates), polled' = TRUE,
           phase = "gap" => ~q.iptt
    PROVE  Left(q)
<1> DEFINE k == KeepLastValues(q)
           t == [k EXCEPT !.toRig = << >>, !.toModulator = << >>]
<1>1. k \in UI /\ k.iptt0 = q.iptt /\ \A f \in Fields \ {"iptt0", "btxok0"} : k[f] = q[f]
    BY DEF KeepLastValues, UI, Fields
<1>2. Return(k, updates)
    OBVIOUS
<1> HIDE DEF k
<1>3. /\ \A f \in Fields \ {"toRig", "toModulator"} : t[f] = k[f]
      /\ t.toRig = << >> /\ t.toModulator = << >>
    BY <1>1 DEF UI, Fields
<1>4. ui' = t
    BY <1>2 DEF Return
<1> HIDE DEF t
<1>5. /\ \A f \in {"auto", "next", "iptt", "awaiting", "ptt", "reported", "timer", "itone"} :
            ui'[f] = q[f]
      /\ ui'.toRig = << >> /\ ui'.toModulator = << >> /\ ui'.iptt0 = q.iptt
      /\ k.toRig = q.toRig /\ k.toModulator = q.toModulator /\ k.itone = q.itone
    BY <1>1, <1>3, <1>4 DEF Fields
<1>. QED
    BY <1>2, <1>5 DEF Left, Return

(* What the handlers find.                                                 *)
LEMMA TimedGives ==
    ASSUME TInv
    PROVE  /\ ui \in UI /\ InStep(ui) /\ Composes(ui) /\ OnlyStops(ui)
           /\ ui.iptt => ui.auto /\ ui.button
           /\ ui.auto => ui.button
           /\ Calm(ui, ui)
<1>1. ui \in UI /\ InStep(ui) /\ Composes(ui) /\ Emitted
    BY TimedTypes DEF TInv, Timed
<1>2. OnlyStops(ui)
    BY <1>1 DEF OnlyStops, Emitted
<1>. QED
    BY <1>1, <1>2 DEF InStep, Calm

(* Changes of the composer only.                                           *)
LEMMA CalmHandlerKeeps ==
    ASSUME TInv, NEW s \in UI, Handler(s),
           \A f \in TimedFields \cup {"auto", "next"} : s[f] = ui[f]
    PROVE  Timed'
<1>1. Calm(ui, s)
    BY DEF Calm, TimedFields
<1>. QED
    BY <1>1, HandlerLeaves, CalmKeeps

LEMMA EditKeepsTime ==
    ASSUME TInv, NEW unsent \in Seq(Frame),
           Handler([ui EXCEPT !.unsent = unsent, !.dirty = TRUE])
    PROVE  Timed'
<1> DEFINE s == [ui EXCEPT !.unsent = unsent, !.dirty = TRUE]
<1>1. s \in UI /\ \A f \in TimedFields \cup {"auto", "next"} : s[f] = ui[f]
    BY TimedGives DEF UI, TimedFields
<1>2. Handler(s)
    OBVIOUS
<1> HIDE DEF s
<1>. QED
    BY <1>1, <1>2, CalmHandlerKeeps

LEMMA TypingKeepsTime ==
    ASSUME TInv, Type \/ Erase
    PROVE  Timed'
<1>1. CASE Type
    <2>1. typed \in 0 .. MaxFrames /\ ui \in UI
        BY ComposerGives DEF TInv
    <2>2. typed + 1 \in Frame
        BY <1>1, <2>1, BoundAssumption DEF Type, Frame
    <2>3. Append(ui.unsent, typed + 1) \in Seq(Frame)
        BY <2>1, <2>2, AppendProperties DEF UI
    <2>4. Handler([ui EXCEPT !.unsent = Append(ui.unsent, typed + 1), !.dirty = TRUE])
        BY <1>1, <2>1 DEF Type, UI
    <2>. QED
        BY <2>3, <2>4, EditKeepsTime
<1>2. CASE Erase
    <2>1. << >> \in Seq(Frame)
        OBVIOUS
    <2>. QED
        BY <1>2, <2>1, EditKeepsTime DEF Erase
<1>. QED
    BY <1>1, <1>2

(* The start button is pressed when the last transmission is at rest, or   *)
(* ends the one that goes on.                                              *)
LEMMA StartTxButtonKeepsTime ==
    ASSUME MayRestart = FALSE, TInv, StartTxButton
    PROVE  Timed'
<1>1. CASE ui.button
    <2> DEFINE t == StopTxButton(ui)
               e == EndTransmit(t)
               signals == Append(t.toModulator, "stop")
    <2>1. Handler(e)
        BY <1>1 DEF StartTxButton
    <2>2. t \in UI /\ Ends(ui, t) /\ ~t.auto
        BY TimedGives, StopTxButtonFields, StopTxButtonEnds
    <2> HIDE DEF t
    <2>3. signals \in Seq({"stop"}) /\ signals # << >>
        BY <2>2, AppendProperties DEF Ends
    <2>4. /\ e \in UI /\ ~e.iptt /\ e.timer /\ e.toModulator = signals
          /\ \A f \in {"auto", "iptt0", "awaiting", "ptt", "reported", "itone", "toRig"} :
                e[f] = t[f]
        BY <2>2, EndTransmitFields DEF Fields
    <2> HIDE DEF e, signals
    <2>5. Ends(ui, e)
        BY <2>2, <2>3, <2>4 DEF Ends
    <2>. QED
        BY <2>1, <2>4, <2>5, HandlerLeaves, EndsKeeps
<1>2. CASE ~ui.button
    <2> DEFINE t == ToggleTx(ui)
    <2>1. Handler(t) /\ Rested
        BY <1>2 DEF StartTxButton, MayStart
    <2>2. t \in UI
        BY TimedGives, ToggleTxComposes
    <2>3. MayBegin => ~ui.iptt0
        BY <1>2, <2>1, TimedGives DEF Rested, MayBegin, UI
    <2>4. Outcome(ui, t)
        BY <2>3, TimedGives, ToggleTxTimes
    <2> HIDE DEF t
    <2>. QED
        BY <2>1, <2>2, <2>4, HandlerLeaves, OutcomeKeeps
<1>. QED
    BY <1>1, <1>2

LEMMA SendMacroKeepsTime ==
    ASSUME MayRestart = FALSE, TInv, SendMacro
    PROVE  Timed'
<1> DEFINE a == AddMessageText(ui, <<typed + 1>>, FALSE)
           t == ToggleTx(a)
<1>1. typed + 1 \in Frame
    BY ComposerGives, BoundAssumption DEF SendMacro, Frame, TInv
<1>2. <<typed + 1>> \in Seq(Frame)
    BY <1>1
<1>3. a \in UI /\ \A f \in Fields \ {"unsent", "sent", "dirty"} : a[f] = ui[f]
    BY <1>2, TimedGives, AddMessageTextFields
<1>4. Composes(a)
    BY <1>2, TimedGives, AddMessageTextComposes
<1>5. Handler(t) /\ Rested
    BY DEF SendMacro, MayStart
<1> HIDE DEF a
<1>6. \A f \in TimedFields \cup {"auto", "next", "button"} : a[f] = ui[f]
    BY <1>3 DEF Fields, TimedFields
<1>7. CASE ui.button
    <2>1. t = a
        BY <1>6, <1>7 DEF ToggleTx
    <2>. QED
        BY <1>3, <1>5, <1>6, <2>1, CalmHandlerKeeps
<1>8. CASE ~ui.button
    <2>1. MayBegin => ~ui.iptt0
        BY <1>5, <1>8, TimedGives DEF Rested, MayBegin, UI
    <2>2. t \in UI
        BY <1>3, <1>4, <1>6, TimedGives, ToggleTxComposes
    <2>3. InStep(a) /\ OnlyStops(a)
        <3>1. \A f \in {"iptt", "transmitting", "btxok", "btxok0", "iptt0", "auto", "next",
                        "button", "toModulator", "timer"} : a[f] = ui[f]
            BY <1>3 DEF Fields
        <3>. QED
            BY <3>1, TimedGives DEF InStep, OnlyStops
    <2>4. Outcome(a, t)
        BY <1>3, <1>4, <1>6, <2>1, <2>3, ToggleTxTimes DEF TimedFields
    <2> HIDE DEF t
    <2>5. Outcome(ui, t)
        BY <1>6, <1>8, <2>4, TimedGives, OutcomeFrom
    <2>. QED
        BY <1>5, <2>2, <2>5, HandlerLeaves, OutcomeKeeps
<1>. QED
    BY <1>7, <1>8

(* A message is queued, and taken at once only when the last transmission  *)
(* is at rest.                                                             *)
LEMMA EnqueueKeepsTime ==
    ASSUME MayRestart = FALSE, TInv, NEW length \in 1 .. 2, NEW high \in BOOLEAN,
           NEW process \in BOOLEAN, EnqueueMessage(length, high, process)
    PROVE  Timed'
<1> DEFINE frames == [i \in 1 .. length |-> typed + i]
           m == [frames |-> frames, high |-> high]
           messages == Push(m, ui.messages)
           s == [ui EXCEPT !.messages = messages]
<1>1. frames \in Seq(Frame)
    <2>1. \A i \in 1 .. length : typed + i \in Frame
        BY ComposerGives, BoundAssumption DEF EnqueueMessage, Frame, TInv
    <2>. QED
        BY <2>1, IsASeq
<1>2. m \in Message
    <2> HIDE DEF frames
    <2>. QED
        BY <1>1 DEF Message
<1>3. Handler(IF process THEN ProcessTxQueue(s) ELSE s) /\ (process => Rested)
    BY DEF EnqueueMessage, MayStart
<1> HIDE DEF m
<1>4. messages \in Seq(Message)
    <2>1. ui.messages \in Seq(Message) /\ <<m>> \in Seq(Message)
        BY <1>2, TimedGives DEF UI
    <2>. QED
        BY <2>1, ConcatProperties DEF Push
<1> HIDE DEF messages
<1>5. s \in UI /\ \A f \in Fields \ {"messages"} : s[f] = ui[f]
    BY <1>4, TimedGives DEF UI, Fields
<1> HIDE DEF s
<1>6. \A f \in TimedFields \cup {"auto", "next", "button"} : s[f] = ui[f]
    BY <1>5 DEF Fields, TimedFields
<1> DEFINE t == ProcessTxQueue(s)
<1>7. InStep(s) /\ OnlyStops(s) /\ Composes(s)
    <2>1. \A f \in ComposerFields \cup
                   {"iptt", "transmitting", "btxok", "btxok0", "iptt0", "auto", "next",
                    "button", "toModulator", "timer"} : s[f] = ui[f]
        BY <1>5 DEF Fields, ComposerFields
    <2>. QED
        BY <2>1, TimedGives, ComposerUnchanged DEF InStep, OnlyStops
<1>8. CASE ~process \/ t = s
    BY <1>3, <1>5, <1>6, <1>8, CalmHandlerKeeps
<1>9. CASE process /\ t # s
    <2>1. t \in UI
        BY <1>5, <1>6, <1>7, TimedGives, ProcessTxQueueComposes
    <2>2. Rested /\ Handler(t)
        BY <1>3, <1>9
    <2>3. MayBegin /\ ~s.auto => ~s.iptt0
        BY <1>6, <2>2, TimedGives DEF Rested, MayBegin, UI, TimedFields
    <2>4. Outcome(s, t) /\ (s.auto => t = s)
        BY <1>5, <1>7, <2>3, ProcessTxQueueTimes
    <2>5. ~ui.iptt
        BY <1>6, <1>9, <2>4, TimedGives
    <2> HIDE DEF t
    <2>6. Outcome(ui, t)
        BY <1>6, <2>4, <2>5, OutcomeFrom
    <2>. QED
        BY <2>1, <2>2, <2>6, HandlerLeaves, OutcomeKeeps
<1>. QED
    BY <1>8, <1>9

(* Two ends are one.                                                       *)
LEMMA EndsTwice ==
    ASSUME NEW a, NEW b, NEW c, Ends(a, b), Ends(b, c)
    PROVE  Ends(a, c)
BY DEF Ends

(* The stop button, Escape and the transmit switch end the frame.          *)
LEMMA HaltKeepsTime ==
    ASSUME TInv, OnStopTxButton \/ Escape \/ OnMonitorTxButton
    PROVE  Timed'
<1> DEFINE t == StopTxButton(ui)
<1>1. /\ t \in UI /\ ~t.auto /\ Ends(ui, t)
      /\ t.queue = << >> /\ t.unsent = << >> /\ ~t.sent
    BY TimedGives, StopTxButtonFields, StopTxButtonEnds
<1>2. CASE OnStopTxButton
    <2>1. Handler(t)
        BY <1>2 DEF OnStopTxButton
    <2> HIDE DEF t
    <2>. QED
        BY <1>1, <2>1, HandlerLeaves, EndsKeeps
<1>3. CASE Escape
    <2> DEFINE r == StopTx(t)
    <2>1. Handler(r)
        BY <1>3 DEF Escape
    <2> HIDE DEF t
    <2>2. OnlyStops(t)
        BY <1>1 DEF Ends, OnlyStops
    <2>3. Ends(t, r)
        BY <1>1, <2>2, StopTxEnds
    <2>4. r \in UI
        <3>1. Built(t) = << >>
            BY <1>1 DEF Built
        <3>. QED
            BY <1>1, <3>1, StopTxComposes
    <2> HIDE DEF r
    <2>5. Ends(ui, r)
        BY <1>1, <2>3, EndsTwice
    <2>. QED
        BY <2>1, <2>4, <2>5, HandlerLeaves, EndsKeeps
<1>4. CASE OnMonitorTxButton
    <2> DEFINE off == [t EXCEPT !.enabled = FALSE]
               on == [ui EXCEPT !.enabled = TRUE]
    <2>1. Handler(IF ui.enabled THEN off ELSE on)
        BY <1>4 DEF OnMonitorTxButton
    <2> HIDE DEF t
    <2>2. off \in UI /\ \A f \in Fields \ {"enabled"} : off[f] = t[f]
        BY <1>1 DEF UI, Fields
    <2>3. on \in UI /\ \A f \in TimedFields \cup {"auto", "next"} : on[f] = ui[f]
        BY TimedGives DEF UI, TimedFields
    <2> HIDE DEF off, on
    <2>4. Ends(ui, off)
        BY <1>1, <2>2 DEF Ends, Fields
    <2>. QED
        BY <2>1, <2>2, <2>3, <2>4, HandlerLeaves, EndsKeeps, CalmHandlerKeeps
<1>. QED
    BY <1>2, <1>3, <1>4

(* The idle watchdog ends the frame, or finds none.                        *)
LEMMA WatchdogKeepsTime ==
    ASSUME TInv, TxWatchdog
    PROVE  Timed'
<1> DEFINE a == IF ui.auto THEN StopTxButton(ui) ELSE ui
           s == StopTx(a)
           t == [s EXCEPT !.queue = << >>, !.count = 0, !.autoreply = FALSE]
<1>1. a \in UI /\ ~a.auto /\ OnlyStops(a) /\ (a = ui \/ Ends(ui, a))
    <2>1. CASE ui.auto
        <3> DEFINE b == StopTxButton(ui)
        <3>1. b \in UI /\ ~b.auto /\ Ends(ui, b)
            BY TimedGives, StopTxButtonFields, StopTxButtonEnds
        <3>2. a = b
            BY <2>1
        <3> HIDE DEF a, b
        <3>. QED
            BY <3>1, <3>2 DEF Ends, OnlyStops
    <2>2. CASE ~ui.auto
        BY <2>2, TimedGives
    <2>. QED
        BY <2>1, <2>2
<1>2. Handler(t) /\ MayIdle
    BY DEF TxWatchdog
<1> HIDE DEF a
<1>3. Ends(a, s) /\ s \in UI
    BY <1>1, <1>2, StopTxEnds, StopTxComposes
<1> HIDE DEF s
<1>4. << >> \in Seq(Frame)
    OBVIOUS
<1>5. /\ t \in UI
      /\ \A f \in Fields \ {"queue", "count", "autoreply"} : t[f] = s[f]
    BY <1>3, <1>4 DEF UI, Fields
<1> HIDE DEF t
<1>6. Ends(ui, s)
    BY <1>1, <1>3, EndsTwice
<1>7. Ends(ui, t)
    BY <1>5, <1>6 DEF Ends, Fields
<1>. QED
    BY <1>2, <1>5, <1>7, HandlerLeaves, EndsKeeps

(* The poll.  It ends the frame in the gap, and in the time in which one   *)
(* may begin it keys the next or leaves the one that is keyed.             *)
LEMMA PollTimes ==
    ASSUME MayRestart = FALSE, TInv, NEW second \in BOOLEAN, GuiUpdate(second)
    PROVE  /\ Timed'
           /\ TakesNextFrame => phase = "gap" /\ ui.iptt
<1> DEFINE s == IF ui.transmitting \/ ui.auto THEN PrepareSending(ui) ELSE ui
           d == TransmitDisplay(s)
           q == IF second THEN ProcessTxQueue(d) ELSE s
<1>1. /\ s \in UI /\ Composes(s) /\ InStep(s)
      /\ Outcome(ui, s) /\ OnlyStops(s)
      /\ phase = "gap" => ~s.iptt
      /\ \/ ~ui.auto /\ s = ui
         \/ ui.auto /\ s.auto /\ s.next = ui.next
         \/ ui.auto /\ ~s.auto /\ phase = "gap" /\ ui.iptt /\ Ends(ui, s)
         \/ ui.auto /\ s.auto /\ phase = "gap" /\ ui.iptt /\ Ends(ui, s)
    <2>1. CASE ui.auto
        <3> DEFINE r == PrepareSending(ui)
        <3>1. s = r
            BY <2>1
        <3>2. Good(r, hold)
            BY <2>1, PrepareSendingIsGood DEF TInv, CInv, IInv, TypeOK
        <3>3. Composes(r)
            BY <2>1, TimedGives, PrepareSendingComposes
        <3>4. Begins(ui) => ~ui.iptt0
            BY <2>1 DEF TInv, Timed, Ready, Begins
        <3>5. phase = "gap" => (ui.iptt => ui.iptt0)
            BY DEF TInv, Timed, Polls
        <3>6. ui.iptt => ui.itone = ui.next
            BY DEF TInv, Timed, KeyedTimer
        <3>7. /\ Outcome(ui, r)
              /\ \/ r.auto /\ r.next = ui.next /\ (phase = "gap" => ~r.iptt)
                 \/ phase = "gap" /\ ui.iptt /\ Ends(ui, r)
            BY <2>1, <3>4, <3>5, <3>6, TimedGives, PrepareSendingTimes
        <3> HIDE DEF r
        <3>8. OnlyStops(r)
            BY <3>7, TimedGives DEF Outcome, Calm, Ends, Keys, OnlyStops, TimedFields
        <3>9. phase = "gap" => ~r.iptt
            BY <3>7 DEF Ends
        <3>10. r \in UI /\ InStep(r)
            BY <3>2 DEF Good
        <3>11. r.auto \in BOOLEAN
            BY <3>10 DEF UI
        <3>. QED
            BY <2>1, <3>1, <3>3, <3>7, <3>8, <3>9, <3>10, <3>11
    <2>2. CASE ~ui.auto
        <3>1. s = ui
            BY <2>2, TimedGives DEF InStep
        <3>. QED
            BY <2>2, <3>1, TimedGives DEF Outcome
    <2>. QED
        BY <2>1, <2>2
<1>2. /\ Return(KeepLastValues(q), updates)
      /\ polled' = TRUE
      /\ second /\ s.messages # << >> => Rested
    BY DEF GuiUpdate, MayStart
<1> HIDE DEF s
<1>3. /\ d \in UI /\ InStep(d) /\ Composes(d) /\ OnlyStops(d)
      /\ \A f \in Fields \ {"btxok"} : d[f] = s[f]
    <2> DEFINE b == [s EXCEPT !.btxok = TRUE]
    <2>1. b \in UI /\ b.btxok /\ \A f \in Fields \ {"btxok"} : b[f] = s[f]
        BY <1>1 DEF UI, Fields
    <2>2. d = IF s.transmitting THEN b ELSE s
        BY DEF TransmitDisplay
    <2> HIDE DEF b, d
    <2>3. d \in UI /\ \A f \in Fields \ {"btxok"} : d[f] = s[f]
        BY <1>1, <2>1, <2>2
    <2>4. InStep(d)
        <3>1. CASE s.transmitting
            BY <1>1, <2>1, <2>2, <3>1 DEF InStep, Fields
        <3>2. CASE ~s.transmitting
            BY <1>1, <2>2, <3>2
        <3>. QED
            BY <3>1, <3>2
    <2>5. Composes(d) /\ OnlyStops(d)
        BY <1>1, <2>3, ComposerUnchanged DEF OnlyStops, ComposerFields, Fields
    <2>. QED
        BY <2>3, <2>4, <2>5
<1> HIDE DEF d
<1>4. CASE s.auto \/ ~second
    <2>1. \A f \in Fields \ {"btxok"} : q[f] = s[f]
        <3>1. CASE ~second
            BY <3>1
        <3>2. CASE second
            <4>1. d.auto
                BY <1>3, <1>4, <3>2 DEF Fields
            <4>2. q = d
                BY <1>3, <3>2, <4>1, ProcessTxQueueTimes
            <4>. QED
                BY <1>3, <4>2
        <3>. QED
            BY <3>1, <3>2
    <2>2. q \in UI
        <3>1. CASE ~second
            BY <1>1, <3>1
        <3>2. CASE second
            <4>1. q = ProcessTxQueue(d)
                BY <3>2
            <4>. QED
                BY <1>3, <4>1, ProcessTxQueueComposes DEF InStep
        <3>. QED
            BY <3>1, <3>2
    <2> HIDE DEF q
    <2>3. /\ Outcome(ui, q) /\ (phase = "gap" => ~q.iptt)
          /\ q.auto = s.auto /\ q.next = s.next /\ q.iptt = s.iptt
        <3>1. \A f \in TimedFields \cup {"auto", "next"} : q[f] = s[f]
            BY <2>1 DEF Fields, TimedFields
        <3>2. phase = "gap" => ~q.iptt
            BY <1>1, <3>1 DEF TimedFields
        <3>3. CASE Calm(ui, s)
            BY <3>1, <3>2, <3>3 DEF Calm, TimedFields, Outcome
        <3>4. CASE Ends(ui, s)
            BY <3>1, <3>2, <3>4 DEF Ends, TimedFields, Outcome
        <3>5. CASE Keys(ui, s)
            BY <3>1, <3>2, <3>5 DEF Keys, TimedFields, Outcome
        <3>. QED
            BY <1>1, <3>3, <3>4, <3>5 DEF Outcome
    <2>4. Left(q)
        BY <1>2, <2>2, <2>3, PollLeaves
    <2>5. Keys(ui, q) => ui.auto
        BY <1>1, <2>3, TimedGives DEF Keys
    <2>6. Timed'
        BY <2>3, <2>4, <2>5, OutcomeKeeps
    <2>7. ui'.auto = s.auto /\ ui'.next = s.next
        BY <2>3, <2>4 DEF Left
    <2>. QED
        BY <1>1, <2>6, <2>7 DEF TakesNextFrame
<1>5. CASE ~s.auto /\ second
    <2>1. q = ProcessTxQueue(d)
        BY <1>5
    <2>2. q \in UI
        BY <1>3, <2>1, ProcessTxQueueComposes DEF InStep
    <2>3. \A f \in TimedFields \cup {"auto", "next", "messages"} : d[f] = s[f]
        BY <1>3 DEF Fields, TimedFields
    <2>4. \/ ~ui.auto /\ s = ui
          \/ ui.auto /\ phase = "gap" /\ ui.iptt /\ Ends(ui, s)
        BY <1>1, <1>5
    <2>5. MayBegin /\ ~d.auto /\ d.messages # << >> => ~d.iptt0
        <3>1. ASSUME MayBegin, d.messages # << >>
              PROVE  ~d.iptt0
            <4>1. s = ui /\ ~ui.auto /\ ~ui.iptt /\ d.iptt0 = ui.iptt0
                BY <2>3, <2>4, <3>1, TimedGives DEF MayBegin, TimedFields, InStep
            <4>2. Rested
                BY <1>2, <1>5, <2>3, <3>1
            <4>. QED
                BY <3>1, <4>1, <4>2, TimedGives DEF Rested, MayBegin, UI
        <3>. QED
            BY <3>1
    <2>6. Outcome(d, q)
        BY <1>3, <2>1, <2>5, ProcessTxQueueTimes
    <2>7. d.messages = << >> => q = d
        BY <2>1 DEF ProcessTxQueue
    <2> HIDE DEF q
    <2>8. CASE ~ui.auto /\ s = ui
        <3>1. ~ui.iptt
            BY <2>8, TimedGives DEF InStep
        <3>2. Outcome(ui, q)
            BY <2>3, <2>6, <2>8, <3>1, OutcomeFrom
        <3>3. phase = "gap" => ~q.iptt
            BY <3>1, <3>2 DEF Outcome, Calm, Ends, Keys, MayBegin, TimedFields
        <3>4. Left(q)
            BY <1>2, <2>2, <3>3, PollLeaves
        <3>5. Keys(ui, q) => Rested
            <4>1. ASSUME Keys(ui, q) PROVE d.messages # << >>
                <5>1. q.iptt /\ ~d.iptt
                    BY <2>3, <2>8, <4>1 DEF Keys, TimedFields
                <5>. QED
                    BY <2>7, <5>1
            <4>. QED
                BY <1>2, <1>5, <2>3, <4>1
        <3>6. Timed'
            BY <3>2, <3>4, <3>5, OutcomeKeeps
        <3>. QED
            BY <2>8, <3>6 DEF TakesNextFrame
    <2>9. CASE ui.auto /\ phase = "gap" /\ ui.iptt /\ Ends(ui, s)
        <3>1. ~MayBegin
            BY <2>9 DEF MayBegin
        <3>2. Ends(ui, d)
            BY <2>3, <2>9 DEF Ends, TimedFields
        <3>3. Ends(ui, q)
            <4>1. CASE Calm(d, q)
                BY <3>1, <3>2, <4>1 DEF Calm, Ends, TimedFields
            <4>2. CASE Ends(d, q)
                BY <3>2, <4>2, EndsTwice
            <4>. QED
                BY <2>6, <3>1, <4>1, <4>2 DEF Outcome, Keys
        <3>4. ~q.iptt
            BY <3>3 DEF Ends
        <3>5. Left(q)
            BY <1>2, <2>2, <3>4, PollLeaves
        <3>6. Timed'
            BY <3>3, <3>5, EndsKeeps
        <3>. QED
            BY <2>9, <3>6
    <2>. QED
        BY <2>4, <2>8, <2>9
<1>. QED
    BY <1>4, <1>5

(* One command more to the rig: it becomes the last, and no update on its  *)
(* way is current.                                                         *)
LEMMA CommandFollows ==
    ASSUME TInv, NEW on \in BOOLEAN, ui'.ptt = on, rigQ' = Append(rigQ, on),
           updates' = Outdated(updates)
    PROVE  CommandsFollow' /\ rigQ' # << >>
<1>1. rigQ \in Seq(BOOLEAN) /\ updates \in Seq(Update)
    BY TimedTypes DEF TInv
<1>2. rigQ' # << >> /\ rigQ'[Len(rigQ')] = on
    BY <1>1, AppendProperties, LenProperties
<1>3. \A i \in DOMAIN updates' : ~updates'[i].current
    BY <1>1, OutdatedIsOutdated
<1>. QED
    BY <1>2, <1>3 DEF CommandsFollow

(* What is left of the record when a command was emitted.                  *)
LEMMA EmitLeaves ==
    ASSUME NEW s \in UI, s.toRig = << >>, s.toModulator = << >>, NEW on \in BOOLEAN,
           Handler(EmitPtt(s, on)), TypeOK
    PROVE  /\ ui'.ptt = on /\ Emitted'
           /\ \A f \in {"auto", "next", "iptt", "iptt0", "awaiting", "reported", "timer",
                        "itone"} : ui'[f] = s[f]
           /\ rigQ' = Append(rigQ, on)
           /\ modQ' = modQ
           /\ updates' = Outdated(updates)
           /\ onAir' = IF s.itone = ui.itone THEN onAir ELSE None
           /\ UNCHANGED <<phase, polled, hold, rigPtt, modulator, aired>>
<1> DEFINE b == EmitPtt(s, on)
           t == [b EXCEPT !.toRig = << >>, !.toModulator = << >>]
<1>1. b \in UI /\ b.ptt = on /\ b.toRig = Append(s.toRig, on)
      /\ \A f \in Fields \ {"ptt", "toRig"} : b[f] = s[f]
    <2>1. Append(s.toRig, on) \in Seq(BOOLEAN)
        BY AppendProperties DEF UI
    <2>. QED
        BY <2>1 DEF EmitPtt, UI, Fields
<1>2. Return(b, updates) /\ polled' = polled
    BY DEF Handler
<1> HIDE DEF b
<1>3. /\ t.toRig = << >> /\ t.toModulator = << >>
      /\ \A f \in Fields \ {"toRig", "toModulator"} : t[f] = b[f]
    BY <1>1 DEF UI, Fields
<1>4. ui' = t
    BY <1>2 DEF Return
<1> HIDE DEF t
<1>5. b.toRig = <<on>> /\ b.toRig # << >> /\ b.toModulator = << >> /\ b.itone = s.itone
    BY <1>1 DEF Fields
<1>6. /\ rigQ' = rigQ \o <<on>> /\ modQ' = modQ \o << >>
      /\ updates' = Outdated(updates)
      /\ onAir' = IF s.itone = ui.itone THEN onAir ELSE None
      /\ UNCHANGED <<phase, polled, hold, rigPtt, modulator, aired>>
    BY <1>2, <1>5 DEF Return
<1>7. rigQ \in Seq(BOOLEAN) /\ modQ \in Seq({"start", "stop"})
    BY DEF TypeOK
<1>8. rigQ' = Append(rigQ, on) /\ modQ' = modQ
    BY <1>6, <1>7, AppendIsConcat
<1>. QED
    BY <1>1, <1>3, <1>4, <1>6, <1>8 DEF Emitted, Fields

(* A command for the frequency carries the PTT that was last asked for.    *)
LEMMA SetRigKeepsTime ==
    ASSUME TInv, SetRig
    PROVE  Timed'
<1>1. ui \in UI /\ ui.ptt \in BOOLEAN /\ ui.toRig = << >> /\ ui.toModulator = << >>
    BY TimedTypes DEF TInv, Timed, Emitted
<1>2. Handler(EmitPtt(ui, ui.ptt))
    BY DEF SetRig, EmitFrequency
<1>3. TypeOK
    BY DEF TInv, CInv, IInv
<1>4. /\ ui'.ptt = ui.ptt /\ Emitted'
      /\ \A f \in {"auto", "next", "iptt", "iptt0", "awaiting", "reported", "timer",
                   "itone"} : ui'[f] = ui[f]
      /\ rigQ' = Append(rigQ, ui.ptt)
      /\ modQ' = modQ /\ updates' = Outdated(updates) /\ onAir' = onAir
      /\ UNCHANGED <<phase, polled, hold, rigPtt, modulator, aired>>
    BY <1>1, <1>2, <1>3, EmitLeaves
<1>5. CommandsFollow' /\ rigQ' # << >>
    BY <1>1, <1>4, CommandFollows
<1>6. MayBegin' = MayBegin
    BY <1>4 DEF MayBegin
<1>7. KeyedTimer' /\ Ready' /\ Polls'
    BY <1>4, <1>6 DEF TInv, Timed, KeyedTimer, Ready, Polls
<1>8. Awaits' /\ Sounds' /\ Rests'
    BY <1>4, <1>5, <1>6 DEF TInv, Timed, Awaits, Sounds, Rests
<1>9. Voiced'
    <2>1. rigQ \in Seq(BOOLEAN)
        BY TimedTypes DEF TInv
    <2>2. \A i \in DOMAIN rigQ' : i \in DOMAIN rigQ \/ rigQ'[i] = ui.ptt
        BY <1>1, <1>4, <2>1, AppendProperties
    <2>3. \A i \in DOMAIN rigQ' : i \in DOMAIN rigQ => rigQ'[i] = rigQ[i]
        BY <1>1, <1>4, <2>1, AppendProperties
    <2>. QED
        BY <1>4, <2>2, <2>3 DEF TInv, Timed, Voiced
<1>. QED
    BY <1>4, <1>5, <1>7, <1>8, <1>9 DEF Timed

(* The PTT is released, or kept for the next frame, when nothing is keyed  *)
(* and the modulator is idle.                                              *)
LEMMA StopTx2KeepsTime ==
    ASSUME TInv, StopTx2
    PROVE  Timed'
<1> DEFINE t == [ui EXCEPT !.timer = FALSE]
<1>1. ui.timer /\ modQ = << >> /\ ~ui.iptt /\ modulator = "idle"
    BY DEF StopTx2, TInv, Timed, KeyedTimer, Rests
<1>2. ~(MayBegin /\ ui.auto)
    BY <1>1 DEF TInv, Timed, Ready
<1>3. /\ t \in UI /\ ~t.timer /\ t.toRig = << >> /\ t.toModulator = << >>
      /\ \A f \in Fields \ {"timer"} : t[f] = ui[f]
    <2>1. t \in UI /\ ~t.timer /\ \A f \in Fields \ {"timer"} : t[f] = ui[f]
        BY TimedTypes DEF TInv, UI, Fields
    <2>. QED
        BY <2>1 DEF TInv, Timed, Emitted, Fields
<1>4. Handler(IF hold /\ t.count > 0 THEN t ELSE EmitPtt(t, FALSE))
    BY DEF StopTx2
<1> HIDE DEF t
<1>5. ASSUME /\ Emitted' /\ CommandsFollow' /\ modQ' = modQ
             /\ \A f \in {"auto", "iptt", "iptt0"} : ui'[f] = ui[f]
             /\ UNCHANGED <<phase, polled, modulator>>
      PROVE  Timed'
    <2>1. ~ui'.iptt /\ ~(MayBegin /\ ui.auto)'
        BY <1>1, <1>2, <1>5 DEF MayBegin
    <2>2. KeyedTimer' /\ Ready' /\ Awaits' /\ Sounds'
        BY <2>1 DEF KeyedTimer, Ready, Awaits, Sounds
    <2>3. Polls'
        BY <1>5 DEF TInv, Timed, Polls
    <2>4. Rests' /\ Voiced'
        BY <1>1, <1>5 DEF Rests, Voiced
    <2>. QED
        BY <1>5, <2>2, <2>3, <2>4 DEF Timed
<1>6. CASE hold /\ t.count > 0
    <2>1. Handler(t)
        BY <1>4, <1>6
    <2>2. Left(t)
        BY <1>3, <2>1, HandlerLeaves
    <2>3. rigQ' = rigQ /\ modQ' = modQ /\ updates' = updates
        BY <1>3, <2>2, TimedTypes DEF Left, TInv
    <2>4. /\ Emitted' /\ rigPtt' = rigPtt
          /\ \A f \in {"auto", "iptt", "ptt", "reported"} : ui'[f] = ui[f]
          /\ UNCHANGED <<phase, modulator>>
        BY <1>3, <2>2 DEF Left, Emitted, Fields
    <2>5. ui'.iptt0 = ui.iptt0 /\ polled' = polled
        <3>1. ui' = [t EXCEPT !.toRig = << >>, !.toModulator = << >>] /\ polled' = polled
            BY <2>1 DEF Handler, Return
        <3>. QED
            BY <1>3, <3>1 DEF UI, Fields
    <2>6. CommandsFollow'
        BY <2>3, <2>4 DEF TInv, Timed, CommandsFollow
    <2>. QED
        BY <1>5, <2>3, <2>4, <2>5, <2>6
<1>7. CASE ~(hold /\ t.count > 0)
    <2>1. Handler(EmitPtt(t, FALSE)) /\ TypeOK
        BY <1>4, <1>7 DEF TInv, CInv, IInv
    <2>2. /\ ui'.ptt = FALSE /\ Emitted'
          /\ \A f \in {"auto", "iptt", "iptt0"} : ui'[f] = t[f]
          /\ rigQ' = Append(rigQ, FALSE)
          /\ modQ' = modQ /\ updates' = Outdated(updates)
          /\ UNCHANGED <<phase, polled, modulator>>
        BY <1>3, <2>1, EmitLeaves
    <2>3. CommandsFollow'
        BY <2>2, CommandFollows
    <2>4. \A f \in {"auto", "iptt", "iptt0"} : ui'[f] = ui[f]
        BY <1>3, <2>2 DEF Fields
    <2>. QED
        BY <1>5, <2>2, <2>3, <2>4
<1>. QED
    BY <1>6, <1>7

(* An update that counts is the last and reports the PTT that was asked    *)
(* for; when it confirms that of a keyed frame, the audio starts.          *)
LEMMA UpdateKeepsTime ==
    ASSUME TInv, HandleTransceiverUpdate
    PROVE  Timed'
<1> DEFINE u == Head(updates)
           rest == Tail(updates)
           confirmed == hold \/ (u.ptt /\ ~ui.reported)
           starts == confirmed /\ ui.awaiting /\ ui.iptt /\ modulator = "idle"
           signals == IF starts THEN Append(ui.toModulator, "start") ELSE ui.toModulator
           awaiting == ui.awaiting /\ ~confirmed
           ptt == u.ptt
           s == [ui EXCEPT !.reported = ptt, !.awaiting = awaiting,
                           !.toModulator = signals]
<1>1. /\ Return(IF ~u.current THEN ui ELSE s, rest)
      /\ polled' = polled
      /\ updates \in Seq(Update) /\ updates # << >>
    BY TimedTypes DEF HandleTransceiverUpdate, TInv
<1>2. /\ u \in Update /\ u = updates[1] /\ rest \in Seq(Update)
      /\ Len(updates) \in Nat \ {0} /\ Len(rest) = Len(updates) - 1
      /\ \A i \in 1 .. Len(rest) : rest[i] = updates[i + 1]
    BY <1>1, HeadTailProperties, EmptySeq, LenProperties
<1>3. ptt \in BOOLEAN /\ u.current \in BOOLEAN
    BY <1>2 DEF Update
<1>4. /\ ui \in UI /\ ui.toRig = << >> /\ ui.toModulator = << >>
      /\ ui.reported \in BOOLEAN /\ hold \in BOOLEAN
    BY TimedTypes DEF TInv, Timed, Emitted, UI
<1>5. signals = IF starts THEN <<"start">> ELSE << >>
    BY <1>4
<1> HIDE DEF u, rest
<1>6. CASE ~u.current
    <2> DEFINE t == [ui EXCEPT !.toRig = << >>, !.toModulator = << >>]
    <2>1. t = ui
        BY <1>4 DEF UI
    <2>2. Return(ui, rest)
        BY <1>1, <1>6
    <2>3. ui' = t /\ rigQ' = rigQ \o << >> /\ modQ' = modQ \o << >> /\ updates' = rest
          /\ onAir' = onAir /\ UNCHANGED <<phase, hold, rigPtt, modulator, aired>>
        BY <1>4, <2>2 DEF Return
    <2> HIDE DEF t
    <2>4. ui' = ui /\ rigQ' = rigQ /\ modQ' = modQ
        BY <2>1, <2>3, TimedTypes DEF TInv
    <2>5. CommandsFollow' /\ (rigQ = << >> => rest # << >>)
        <3>1. CASE rigQ # << >>
            <4>1. \A i \in DOMAIN updates : ~updates[i].current
                BY <3>1 DEF TInv, Timed, CommandsFollow
            <4>2. \A i \in DOMAIN rest : ~rest[i].current
                BY <1>2, <4>1
            <4>3. rigQ[Len(rigQ)] = ui.ptt
                BY <3>1 DEF TInv, Timed, CommandsFollow
            <4>. QED
                BY <2>3, <2>4, <3>1, <4>2, <4>3 DEF CommandsFollow
        <3>2. CASE rigQ = << >>
            <4>1. /\ rigPtt = ui.ptt /\ updates[Len(updates)].current
                  /\ \A i \in DOMAIN updates : updates[i].current =>
                        i = Len(updates) /\ updates[i].ptt = ui.ptt
                BY <1>1, <3>2 DEF TInv, Timed, CommandsFollow
            <4>2. Len(updates) # 1
                BY <1>2, <1>6, <4>1
            <4>3. rest # << >> /\ Len(rest) \in Nat \ {0}
                BY <1>2, <4>2, EmptySeq
            <4>4. rest[Len(rest)].current
                BY <1>2, <4>1, <4>3
            <4>5. ASSUME NEW i \in DOMAIN rest, rest[i].current
                  PROVE  i = Len(rest) /\ rest[i].ptt = ui.ptt
                <5>1. i \in 1 .. Len(rest) /\ i + 1 \in DOMAIN updates
                    BY <1>1, <1>2, <4>5, LenProperties
                <5>2. rest[i] = updates[i + 1]
                    BY <1>2, <5>1
                <5>3. i + 1 = Len(updates) /\ updates[i + 1].ptt = ui.ptt
                    BY <4>1, <4>5, <5>1, <5>2
                <5>. QED
                    BY <1>2, <5>1, <5>2, <5>3
            <4>. QED
                BY <2>3, <2>4, <3>2, <4>1, <4>3, <4>4, <4>5 DEF CommandsFollow
        <3>. QED
            BY <3>1, <3>2
    <2>6. MayBegin' = MayBegin
        BY <2>3 DEF MayBegin
    <2>7. Emitted' /\ KeyedTimer' /\ Ready' /\ Polls'
        BY <1>1, <2>3, <2>4, <2>6 DEF TInv, Timed, Emitted, KeyedTimer, Ready, Polls
    <2>8. Awaits' /\ Sounds' /\ Rests' /\ Voiced'
        BY <2>3, <2>4, <2>5, <2>6 DEF TInv, Timed, Awaits, Sounds, Rests, Voiced
    <2>. QED
        BY <2>5, <2>7, <2>8 DEF Timed
<1>7. CASE u.current
    <2>1. rigQ = << >>
        BY <1>2, <1>7 DEF TInv, Timed, CommandsFollow
    <2>2. rigPtt = ui.ptt /\ Len(updates) = 1 /\ ptt = ui.ptt
        BY <1>1, <1>2, <1>7, <2>1 DEF TInv, Timed, CommandsFollow
    <2>3. rest = << >>
        BY <1>2, <2>2, EmptySeq
    <2>4. Return(s, << >>)
        BY <1>1, <1>7, <2>3
    <2> DEFINE t == [s EXCEPT !.toRig = << >>, !.toModulator = << >>]
    <2> HIDE DEF awaiting, signals, ptt
    <2>5. /\ s.toRig = << >> /\ s.toModulator = signals /\ s.itone = ui.itone
          /\ t.toRig = << >> /\ t.toModulator = << >> /\ t.reported = ptt
          /\ t.awaiting = awaiting
          /\ \A f \in {"auto", "next", "iptt", "iptt0", "ptt", "timer", "itone"} : t[f] = ui[f]
        BY <1>4 DEF UI
    <2> HIDE DEF s
    <2>6. /\ ui' = t /\ rigQ' = rigQ \o << >> /\ modQ' = modQ \o signals /\ updates' = << >>
          /\ onAir' = onAir /\ UNCHANGED <<phase, hold, rigPtt, modulator, aired>>
        BY <2>4, <2>5 DEF Return
    <2> HIDE DEF t
    <2>7. rigQ' = << >>
        BY <2>1, <2>6
    <2>8. Emitted' /\ CommandsFollow' /\ KeyedTimer' /\ Polls'
        <3>1. Emitted' /\ CommandsFollow'
            BY <2>2, <2>5, <2>6, <2>7 DEF Emitted, CommandsFollow
        <3>. QED
            BY <1>1, <2>5, <2>6, <3>1 DEF TInv, Timed, KeyedTimer, Polls
    <2>9. MayBegin' = MayBegin
        BY <2>6 DEF MayBegin
    <2>10. ui.iptt /\ ui.awaiting => confirmed /\ starts
        BY <2>2 DEF TInv, Timed, KeyedTimer, Awaits, ptt
    <2>11. starts => ui.ptt /\ MayBegin /\ modQ = << >> /\ modulator = "idle"
        BY DEF TInv, Timed, KeyedTimer, Awaits
    <2>12. CASE starts
        <3>1. modQ' = <<"start">> /\ ui.iptt /\ ~awaiting
            <4>1. signals = <<"start">>
                BY <1>5, <2>12
            <4>2. modQ' = << >> \o signals
                BY <2>6, <2>11, <2>12
            <4> HIDE DEF starts, confirmed
            <4>3. modQ' = <<"start">>
                BY <4>1, <4>2
            <4>. QED
                BY <2>12, <4>3 DEF awaiting, starts
        <3>2. Ready' /\ Awaits' /\ Sounds' /\ Rests'
            BY <2>5, <2>6, <2>9, <2>11, <2>12, <3>1 DEF Ready, Awaits, Sounds, Rests
        <3>3. Voiced'
            BY <2>2, <2>5, <2>6, <2>7, <2>11, <2>12 DEF Voiced
        <3>. QED
            BY <2>8, <3>2, <3>3 DEF Timed
    <2>13. CASE ~starts
        <3>1. modQ' = modQ
            <4>1. signals = << >> /\ modQ \in Seq({"start", "stop"})
                BY <1>5, <2>13, TimedTypes DEF TInv
            <4>. QED
                BY <2>6, <4>1
        <3>2. ~(ui.iptt /\ ui.awaiting)
            BY <2>10, <2>13
        <3>3. Ready'
            <4>1. ASSUME MayBegin, ui.auto, ~ui.iptt
                  PROVE  ~ui.timer /\ ~ui.iptt0 /\ modQ = << >> /\ (hold \/ ~ptt)
                <5>1. ~ui.timer /\ ~ui.iptt0 /\ modQ = << >>
                    BY <4>1 DEF TInv, Timed, Ready
                <5>2. ui.ptt => hold
                    BY <4>1, <5>1, TimedTypes DEF TInv, Accounted
                <5>. QED
                    BY <2>2, <5>1, <5>2
            <4>. QED
                BY <2>5, <2>6, <2>9, <3>1, <4>1 DEF Ready
        <3>4. Awaits' /\ Sounds'
            <4>1. ~(ui'.iptt /\ ui'.awaiting)
                BY <2>5, <2>6, <3>2 DEF awaiting
            <4>2. Awaits'
                BY <4>1 DEF Awaits
            <4>3. Sounds'
                BY <2>5, <2>6, <2>9, <3>1, <3>2 DEF TInv, Timed, Sounds
            <4>. QED
                BY <4>2, <4>3
        <3>5. Rests' /\ Voiced'
            BY <2>1, <2>5, <2>6, <2>7, <3>1 DEF TInv, Timed, Rests, Voiced
        <3>. QED
            BY <2>8, <3>3, <3>4, <3>5 DEF Timed
    <2>. QED
        BY <2>12, <2>13
<1>. QED
    BY <1>6, <1>7

LEMMA HeadIsFirst ==
    ASSUME NEW S, NEW seq \in Seq(S), seq # << >>
    PROVE  Head(seq) = seq[1]
OBVIOUS

(* The rig switches the PTT, and reports it.                               *)
LEMMA TransceiverSetKeepsTime ==
    ASSUME TInv, TransceiverSet
    PROVE  Timed'
<1> DEFINE on == Head(rigQ)
           rest == Tail(rigQ)
           u == [ptt |-> on, current |-> rest = << >>]
<1>1. /\ rigQ \in Seq(BOOLEAN) /\ rigQ # << >> /\ updates \in Seq(Update)
      /\ rigQ' = rest /\ rigPtt' = on /\ updates' = Append(updates, u)
      /\ onAir' = (IF on THEN onAir ELSE None)
      /\ UNCHANGED <<phase, polled, ui, hold, modQ, modulator, aired>>
    BY TimedTypes DEF TInv, TransceiverSet, modVars
<1>2. /\ on \in BOOLEAN /\ on = rigQ[1] /\ rest \in Seq(BOOLEAN)
      /\ Len(rigQ) \in Nat \ {0} /\ Len(rest) = Len(rigQ) - 1
      /\ \A i \in 1 .. Len(rest) : rest[i] = rigQ[i + 1]
    <2>1. on \in BOOLEAN /\ rest \in Seq(BOOLEAN)
        BY <1>1, HeadTailProperties
    <2>2. on = rigQ[1]
        BY <1>1, HeadIsFirst
    <2>3. Len(rigQ) \in Nat \ {0} /\ Len(rest) = Len(rigQ) - 1
        BY <1>1, HeadTailProperties, EmptySeq, LenProperties
    <2>4. \A i \in 1 .. Len(rest) : rest[i] = rigQ[i + 1]
        BY <1>1, HeadTailProperties
    <2>. QED
        BY <2>1, <2>2, <2>3, <2>4
<1>3. /\ rigQ[Len(rigQ)] = ui.ptt
      /\ \A i \in DOMAIN updates : ~updates[i].current
    BY <1>1 DEF TInv, Timed, CommandsFollow
<1> HIDE DEF rest, on
<1>4. u \in Update /\ u.ptt = on /\ u.current = (rest = << >>)
    BY <1>2 DEF Update
<1> HIDE DEF u
<1>5. /\ updates' # << >> /\ Len(updates') = Len(updates) + 1 /\ Len(updates) \in Nat
      /\ updates'[Len(updates')] = u
      /\ \A i \in DOMAIN updates' : i # Len(updates') => ~updates'[i].current
    BY <1>1, <1>3, <1>4, AppendProperties, LenProperties
<1>6. CommandsFollow'
    <2>1. CASE rest = << >>
        <3>1. on = ui.ptt
            <4>1. Len(rigQ) = 1
                BY <1>2, <2>1
            <4>. QED
                BY <1>2, <1>3, <4>1
        <3>2. \A i \in DOMAIN updates' : updates'[i].current =>
                i = Len(updates') /\ updates'[i].ptt = ui.ptt
            BY <1>4, <1>5, <3>1
        <3>. QED
            BY <1>1, <1>4, <1>5, <2>1, <3>1, <3>2 DEF CommandsFollow
    <2>2. CASE rest # << >>
        <3>1. Len(rest) \in Nat \ {0}
            BY <1>2, <2>2, EmptySeq
        <3>2. rest[Len(rest)] = ui.ptt
            BY <1>2, <1>3, <3>1
        <3>3. \A i \in DOMAIN updates' : ~updates'[i].current
            BY <1>4, <1>5, <2>2
        <3>. QED
            BY <1>1, <2>2, <3>2, <3>3 DEF CommandsFollow
    <2>. QED
        BY <2>1, <2>2
<1>7. MayBegin' = MayBegin
    BY <1>1 DEF MayBegin
<1>8. Emitted' /\ KeyedTimer' /\ Ready' /\ Polls' /\ Awaits' /\ Rests'
    BY <1>1, <1>5, <1>7 DEF TInv, Timed, Emitted, KeyedTimer, Ready, Polls, Awaits, Rests
<1>9. modulator = "active" \/ (\E i \in DOMAIN modQ : modQ[i] = "start") =>
        on /\ \A i \in DOMAIN rest : rest[i]
    <2> SUFFICES ASSUME \A i \in DOMAIN rigQ : rigQ[i]
                 PROVE  on /\ \A i \in DOMAIN rest : rest[i]
        BY DEF TInv, Timed, Voiced
    <2>1. on
        BY <1>1, <1>2
    <2>2. ASSUME NEW i \in DOMAIN rest PROVE rest[i]
        <3>1. i \in 1 .. Len(rest) /\ i + 1 \in DOMAIN rigQ
            BY <1>1, <1>2, LenProperties
        <3>. QED
            BY <1>2, <3>1
    <2>. QED
        BY <2>1, <2>2
<1>10. Voiced'
    BY <1>1, <1>9 DEF TInv, Timed, Voiced
<1>11. Sounds'
    BY <1>1, <1>7, <1>9 DEF TInv, Timed, Sounds
<1>. QED
    BY <1>6, <1>8, <1>10, <1>11 DEF Timed

(* The modulator handles a signal: the audio of a keyed frame starts, or   *)
(* stops without one.                                                      *)
LEMMA ModulatorSignalKeepsTime ==
    ASSUME TInv, ModulatorSignal
    PROVE  Timed'
<1> DEFINE rest == Tail(modQ)
           starts == Head(modQ) = "start"
<1>1. /\ modQ \in Seq({"start", "stop"}) /\ modQ # << >>
      /\ modQ' = rest
      /\ modulator' = (IF starts THEN "active" ELSE "idle")
      /\ onAir' = (IF starts /\ rigPtt /\ MayBegin THEN ui.itone ELSE None)
      /\ UNCHANGED <<phase, polled, ui, hold, rigQ, rigPtt, updates, aired>>
    BY TimedTypes DEF TInv, ModulatorSignal, rigVars
<1>2. /\ Head(modQ) = modQ[1] /\ rest \in Seq({"start", "stop"})
      /\ Len(modQ) \in Nat \ {0} /\ Len(rest) = Len(modQ) - 1
      /\ \A i \in 1 .. Len(rest) : rest[i] = modQ[i + 1]
      /\ 1 \in DOMAIN modQ
    BY <1>1, HeadTailProperties, EmptySeq, LenProperties
<1> HIDE DEF rest
<1>3. MayBegin' = MayBegin
    BY <1>1 DEF MayBegin
<1>4. Emitted' /\ CommandsFollow' /\ KeyedTimer' /\ Polls'
    BY <1>1 DEF TInv, Timed, Emitted, CommandsFollow, KeyedTimer, Polls
<1>5. Ready' /\ Awaits'
    BY <1>1, <1>3 DEF TInv, Timed, Ready, Awaits
<1>6. starts => rigPtt
    BY <1>2 DEF TInv, Timed, Voiced
<1>7. Sounds'
    <2>1. ASSUME ui.iptt, ~ui.awaiting
          PROVE  /\ rest = << >> /\ starts /\ MayBegin /\ phase # "gap"
                 /\ ui.itone = ui.next
        <3>1. modQ = <<"start">> /\ MayBegin /\ ui.itone = ui.next
            BY <1>1, <2>1 DEF TInv, Timed, Sounds, KeyedTimer
        <3>2. Head(modQ) = "start" /\ Len(modQ) = 1
            BY <3>1
        <3>3. rest = << >>
            BY <1>2, <3>2, EmptySeq
        <3>. QED
            BY <3>1, <3>2, <3>3 DEF MayBegin
    <2>. QED
        BY <1>1, <1>6, <2>1 DEF Sounds
<1>8. Rests'
    <2>1. ASSUME ~ui.iptt
          PROVE  \/ ~starts /\ rest = << >>
                 \/ rest # << >> /\ rest[Len(rest)] = "stop"
        <3>1. modQ[Len(modQ)] = "stop"
            BY <1>1, <2>1 DEF TInv, Timed, Rests
        <3>2. CASE rest = << >>
            <4>1. Len(modQ) = 1
                BY <1>2, <3>2
            <4>2. ~starts
                BY <1>2, <3>1, <4>1
            <4> HIDE DEF starts
            <4>. QED
                BY <3>2, <4>2
        <3>3. CASE rest # << >>
            <4>1. Len(rest) \in Nat \ {0}
                BY <1>2, <3>3, EmptySeq
            <4>. QED
                BY <1>2, <3>1, <3>3, <4>1
        <3>. QED
            BY <3>2, <3>3
    <2>. QED
        BY <1>1, <2>1 DEF Rests
<1>9. Voiced'
    <2>1. ASSUME starts \/ \E i \in DOMAIN rest : rest[i] = "start"
          PROVE  \E i \in DOMAIN modQ : modQ[i] = "start"
        <3>1. CASE starts
            BY <1>2, <3>1
        <3>2. CASE \E i \in DOMAIN rest : rest[i] = "start"
            <4>1. PICK i \in DOMAIN rest : rest[i] = "start"
                BY <3>2
            <4>2. i \in 1 .. Len(rest) /\ i + 1 \in DOMAIN modQ
                BY <1>1, <1>2, LenProperties
            <4>. QED
                BY <1>2, <4>1, <4>2
        <3>. QED
            BY <2>1, <3>1, <3>2
    <2>2. modulator' = "active" => starts
        BY <1>1
    <2>. QED
        BY <1>1, <2>1, <2>2 DEF TInv, Timed, Voiced
<1>. QED
    BY <1>4, <1>5, <1>7, <1>8, <1>9 DEF Timed

(* Time passes when the threads are done with what the phase asked of      *)
(* them.                                                                   *)
LEMMA ClockKeepsTime ==
    ASSUME TInv, Clock
    PROVE  Timed'
<1>1. /\ polled /\ polled' = FALSE
      /\ phase # "delay" => Quiet
      /\ phase \in {"late", "gap"} => ~ui.timer
      /\ aired' = (IF phase = "late" THEN aired \cup ({onAir} \ {None}) ELSE aired)
      /\ onAir' = (IF phase = "late" THEN None ELSE onAir)
      /\ UNCHANGED <<ui, hold, rigQ, rigPtt, updates, modQ, modulator>>
    BY DEF Clock, rigVars, modVars
<1>2. \/ phase = "delay" /\ phase' = "start"
      \/ phase = "start" /\ phase' = "late"
      \/ phase = "late" /\ phase' = "gap"
      \/ phase = "gap" /\ phase' = "delay"
    BY TimedTypes DEF Clock, NextPhase, Phases, TInv
<1>3. Emitted' /\ CommandsFollow' /\ KeyedTimer' /\ Rests' /\ Voiced'
    BY <1>1 DEF TInv, Timed, Emitted, CommandsFollow, KeyedTimer, Rests, Voiced
<1>4. Polls'
    <2>1. phase' = "gap" => phase = "late"
        BY <1>2
    <2>. QED
        BY <1>1, <2>1 DEF TInv, Timed, Polls
<1>5. Ready'
    <2>1. CASE phase = "gap"
        <3>1. ~ui.timer /\ ~ui.iptt /\ ~ui.iptt0 /\ rigQ = << >> /\ updates = << >>
              /\ modQ = << >>
            BY <1>1, <2>1 DEF TInv, Timed, Polls, Quiet
        <3>2. ui.reported = ui.ptt
            BY <3>1 DEF TInv, Timed, CommandsFollow
        <3>3. ui.ptt => hold
            BY <3>1, TimedTypes DEF TInv, Accounted
        <3>4. ~ui.timer /\ ~ui.iptt0 /\ modQ = << >> /\ (hold \/ ~ui.reported)
            BY <3>1, <3>2, <3>3
        <3>. QED
            BY <1>1, <3>4 DEF Ready
    <2>2. CASE phase # "gap"
        <3>1. MayBegin' => MayBegin
            BY <1>2, <2>2 DEF MayBegin
        <3>. QED
            BY <1>1, <3>1 DEF TInv, Timed, Ready
    <2>. QED
        BY <2>1, <2>2
<1>6. Awaits'
    <2>1. ui.iptt /\ ui.awaiting => phase = "delay"
        BY <1>1, <1>2 DEF TInv, Timed, Awaits, Quiet
    <2>2. phase = "delay" => MayBegin'
        BY <1>2 DEF MayBegin
    <2>. QED
        BY <1>1, <2>1, <2>2 DEF TInv, Timed, Awaits
<1>7. Sounds'
    <2>1. CASE phase = "delay"
        <3>1. MayBegin' /\ phase' # "gap" /\ phase # "late" /\ phase # "gap"
            BY <1>2, <2>1 DEF MayBegin
        <3>. QED
            BY <1>1, <3>1 DEF TInv, Timed, Sounds
    <2>2. CASE phase = "start"
        <3>1. modQ = << >> /\ phase' = "late"
            BY <1>1, <1>2, <2>2 DEF Quiet
        <3>. QED
            BY <1>1, <2>2, <3>1 DEF TInv, Timed, Sounds
    <2>3. CASE phase = "late"
        <3>1. modQ = << >> /\ phase' = "gap"
            BY <1>1, <1>2, <2>3 DEF Quiet
        <3>2. ui.iptt => ui.next # None
            BY TimedTypes DEF TInv, InStep
        <3>3. ui.iptt /\ ~ui.awaiting => modulator = "active" /\ onAir = ui.next
            BY <2>3, <3>1 DEF TInv, Timed, Sounds, MayBegin
        <3>. QED
            BY <1>1, <2>3, <3>1, <3>2, <3>3 DEF Sounds
    <2>4. CASE phase = "gap"
        <3>1. ~ui.iptt
            BY <1>1, <2>4 DEF TInv, Timed, Polls
        <3>. QED
            BY <1>1, <3>1 DEF Sounds
    <2>. QED
        BY <1>2, <2>1, <2>2, <2>3, <2>4
<1>. QED
    BY <1>3, <1>4, <1>5, <1>6, <1>7 DEF Timed

(* Every step keeps the timing, and takes the next frame of a message only *)
(* in the gap after a keyed one.                                           *)
LEMMA NextKeepsTime ==
    ASSUME MayRestart = FALSE, TInv, [Next]_vars
    PROVE  /\ Timed'
           /\ TakesNextFrame => phase = "gap" /\ ui.iptt
<1> USE DEF TInv
<1>1. CASE User
    <2>1. Timed'
        BY <1>1, TypingKeepsTime, StartTxButtonKeepsTime, SendMacroKeepsTime,
           EnqueueKeepsTime, HaltKeepsTime, WatchdogKeepsTime, SetRigKeepsTime DEF User
    <2>2. ~TakesNextFrame
        BY <1>1, TypingComposes, StartComposes, EnqueueComposes, HaltComposes,
           WatchdogComposes, RigComposes DEF User
    <2>. QED
        BY <2>1, <2>2
<1>2. CASE \E second \in BOOLEAN : GuiUpdate(second)
    BY <1>2, PollTimes
<1>3. CASE StopTx2 \/ HandleTransceiverUpdate
    BY <1>3, StopTx2KeepsTime, UpdateKeepsTime, RigComposes
<1>4. CASE TransceiverSet \/ ModulatorSignal \/ Clock
    <2>1. Timed'
        BY <1>4, TransceiverSetKeepsTime, ModulatorSignalKeepsTime, ClockKeepsTime
    <2>2. ui' = ui
        BY <1>4 DEF TransceiverSet, ModulatorSignal, Clock
    <2>. QED
        BY <2>1, <2>2 DEF TakesNextFrame
<1>5. CASE UNCHANGED vars
    <2>1. Timed'
        BY <1>5 DEF vars, Timed, Emitted, CommandsFollow, KeyedTimer, Ready, Polls, Awaits,
           Sounds, Rests, Voiced, MayBegin
    <2>2. ui' = ui
        BY <1>5 DEF vars
    <2>. QED
        BY <2>1, <2>2 DEF TakesNextFrame
<1>. QED
    BY <1>1, <1>2, <1>3, <1>4, <1>5 DEF Next, System

LEMMA InitIsTimed == Init => Timed
<1> SUFFICES ASSUME Init PROVE Timed
    OBVIOUS
<1>1. PICK autoreply \in BOOLEAN : ui = [Idle EXCEPT !.autoreply = autoreply]
    BY DEF Init
<1>2. /\ ~ui.iptt /\ ~ui.iptt0 /\ ~ui.auto /\ ui.ptt = FALSE /\ ui.reported = FALSE
      /\ ui.toRig = << >> /\ ui.toModulator = << >>
    BY <1>1 DEF Idle
<1>3. Emitted /\ KeyedTimer /\ Ready /\ Polls
    BY <1>2 DEF Init, Emitted, KeyedTimer, Ready, Polls
<1>. rigQ = << >> /\ updates = << >> /\ rigPtt = FALSE
    BY DEF Init
<1>5. \A i \in DOMAIN updates : ~updates[i].current
    OBVIOUS
<1>6. CommandsFollow
    BY <1>2, <1>5 DEF CommandsFollow
<1>4. Awaits /\ Sounds /\ Rests /\ Voiced
    BY <1>2 DEF Init, Awaits, Sounds, Rests, Voiced
<1>. QED
    BY <1>3, <1>4, <1>6 DEF Timed

LEMMA TimedInvariance ==
    ASSUME MayRestart = FALSE
    PROVE  Spec => []Timed
<1>1. Init => Timed
    BY InitIsTimed
<1>2. CInv /\ Timed /\ [Next]_vars => Timed'
    BY NextKeepsTime DEF TInv
<1>. QED
    BY <1>1, <1>2, ComposerInvariance, PTL DEF Spec

(* Whatever the user does, and whenever commands, updates, signals and the *)
(* PTT timer come, there is no audio without PTT.                          *)
THEOREM AudioCorrect ==
    ASSUME MayRestart = FALSE
    PROVE  Spec => []AudioOnlyWithPtt
<1>1. Timed => AudioOnlyWithPtt
    BY DEF Timed, Voiced, AudioOnlyWithPtt
<1>. QED
    BY <1>1, TimedInvariance, PTL

(* A frame that was keyed is on the air from its beginning, once it is too *)
(* late to begin one.                                                      *)
THEOREM OnAirCorrect ==
    ASSUME MayRestart = FALSE
    PROVE  Spec => []KeyedIsOnAir
<1>1. Timed => KeyedIsOnAir
    BY DEF Timed, Awaits, Sounds, KeyedIsOnAir, MayBegin
<1>. QED
    BY <1>1, TimedInvariance, PTL

(* The next frame of a message is taken only when the last one was sent in *)
(* whole.                                                                  *)
THEOREM NoSkipCorrect ==
    ASSUME MayRestart = FALSE
    PROVE  Spec => NoFrameIsSkipped
<1>1. CInv /\ Timed /\ [Next]_vars => [TakesNextFrame => ui.next \in aired]_vars
    <2> SUFFICES ASSUME CInv, Timed, [Next]_vars, TakesNextFrame
                 PROVE  ui.next \in aired
        OBVIOUS
    <2>1. phase = "gap" /\ ui.iptt
        BY NextKeepsTime DEF TInv
    <2>. QED
        BY <2>1 DEF Timed, Awaits, Sounds, MayBegin
<1>. QED
    BY <1>1, ComposerInvariance, TimedInvariance, PTL DEF Spec, NoFrameIsSkipped
=============================================================================
