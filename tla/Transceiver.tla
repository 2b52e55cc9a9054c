---------------------------- MODULE Transceiver ----------------------------
(***************************************************************************)
(* Control of the radio.  The GUI thread (the main window and the gateway  *)
(* in Configuration) sends the whole state it wants, under a number, to a  *)
(* Transceiver object in the rig thread; that object issues what differs   *)
(* from what it was asked before, polls the radio and reports its state    *)
(* with the number of the last command.  A failure closes the object; it   *)
(* is opened again once by itself, then by the user.                       *)
(*                                                                         *)
(* The rig thread handles a command, a start, a stop or a poll at a time,  *)
(* and the signals of a handler leave it one by one: the GUI thread may    *)
(* disconnect between two of them.  A number is kept as what is done with  *)
(* it: whether it is the newest.  The mode of the radio is left out, and   *)
(* of the split modes of Hamlib the one with two addressable VFOs is       *)
(* modelled.  Of the main window there is what it asks of the rig while    *)
(* it receives, transmits, and releases the PTT after a transmission.      *)
(***************************************************************************)
EXTENDS Integers, Sequences, SequencesExt

CONSTANTS
    Freq,               \* dial frequencies
    Tuned,              \* where the radio is tuned at first
    Xit,                \* m_XIT, by which one transmits lower
    SplitModes,         \* the user's choices: "none", "rig", "emulate"
    QsyAllowed,         \* tx_qsy_allowed
    PollsToStabilize,   \* polls_to_stabilize
    ReleaseFails,       \* the radio may fail while it is being closed
    MaxQueued,          \* bound: commands and signals when the user acts
    MaxUpdates,         \* bound: signals after a poll
    MaxQsys,            \* bound: times the user changes the frequency
    MaxTroubles         \* bound: failures of the radio, changes made at it, and
                        \* times the user opens it anew

ASSUME FrequencyAssumption ==
    /\ Freq \subseteq Nat \ {0} /\ Tuned \in Freq
    /\ Xit \in Nat /\ \A f \in Freq : f > Xit
    /\ SplitModes \subseteq {"none", "rig", "emulate"} /\ SplitModes # {}

ASSUME ParameterAssumption ==
    /\ PollsToStabilize \in Nat \ {0}
    /\ {QsyAllowed, ReleaseFails} \subseteq BOOLEAN
    /\ {MaxQueued, MaxUpdates, MaxQsys, MaxTroubles} \subseteq Nat

VARIABLES
    splitMode,      \* Configuration's split_mode
    gui,            \* the GUI thread
    toRig,          \* events queued to the rig thread
    rig,            \* the Transceiver object in the rig thread
    out,            \* signals its handler has still to emit
    toGui,          \* events queued to the GUI thread
    radio,          \* the radio itself
    qsys,           \* bounds
    troubles

vars == <<splitMode, gui, toRig, rig, out, toGui, radio, qsys, troubles>>

-----------------------------------------------------------------------------
(* TransceiverState; tx 0 means the same as freq.                          *)
State == [online : BOOLEAN, freq : Int, tx : Int,
          split : {"unknown", "off", "on"}, ptt : BOOLEAN]

Unknown == [online |-> FALSE, freq |-> 0, tx |-> 0, split |-> "unknown", ptt |-> FALSE]

SplitIs(b) == IF b THEN "on" ELSE "off"

TxOf(f) == f - Xit

(* Its second VFO is always tuned to something.                            *)
Radio == [freq : Int, tx : Int \ {0}, split : BOOLEAN, ptt : BOOLEAN]

(* What is queued between the threads; newest: its number is the newest.   *)
Command == [do : {"start", "set", "stop"}, state : State, newest : BOOLEAN]
Signal  == [what : {"update", "failure"}, state : State, newest : BOOLEAN]

GUI == [ active : BOOLEAN,          \* rig_active_
         cached : State,            \* cached_rig_state_
         reported : State,          \* m_rigState
         nominal : Int,             \* m_freqNominal
         txNominal : Int,           \* m_freqTxNominal
         tx : {"receive", "transmit", "release"},
         first : BOOLEAN,           \* m_first_error
         reopen : BOOLEAN,          \* rigOpen is posted
         box : BOOLEAN,             \* m_rigErrorMessageBox is open
         issued : BOOLEAN,          \* this handler has issued a number
         sent : Seq(Command) ]      \* and sent these

Rig == [ requested : State,         \* requested_
         actual : State,            \* actual_
         last : State,              \* last_
         next : State,              \* next_state_
         signalled : State,         \* last_signalled_state_
         retries : 0 .. PollsToStabilize,
         polling : BOOLEAN,         \* poll_timer_ is running
         newest : BOOLEAN,          \* last_sequence_number_ is the newest
         failed : BOOLEAN,          \* history: the radio did not obey
         wanted : State ]           \* EmulateSplitTransceiver's *_frequency_, split_

NewRig ==
    [requested |-> Unknown, actual |-> Unknown, last |-> Unknown, next |-> Unknown,
     signalled |-> Unknown, retries |-> 0, polling |-> FALSE, newest |-> FALSE,
     failed |-> FALSE, wanted |-> Unknown]

-----------------------------------------------------------------------------
(* The rig thread.  A handler is a chain of operators on a record of the   *)
(* object, the radio, the signals it emits, the number of accesses to the  *)
(* radio until one fails, and whether an exception is on its way.          *)
Handling(accesses) ==
    [rig |-> rig, radio |-> radio, out |-> << >>, left |-> accesses, threw |-> FALSE]

NeverFails == 9     \* more accesses than any handler makes

(* t is what comes of an access in s, unless it fails.                     *)
Access(s, t) ==
    IF s.threw THEN s
    ELSE IF s.left = 0 THEN [s EXCEPT !.threw = TRUE]
    ELSE [t EXCEPT !.left = s.left - 1]

Expect(s, t) == IF s.rig.next = t.rig.next THEN t
                ELSE [t EXCEPT !.rig.retries = PollsToStabilize]

(* do_ptt, do_frequency, do_tx_frequency with their do_post_*.             *)
Ptt(s, b) ==
    Access(s, Expect(s, [s EXCEPT !.radio.ptt = b, !.rig.actual.ptt = b,
                                  !.rig.next.ptt = b]))

Frequency(s, f) ==
    Access(s, Expect(s, [s EXCEPT !.radio.freq = f, !.rig.actual.freq = f,
                                  !.rig.next.freq = f]))

TxFrequency(s, f) ==
    LET t == IF f = 0 THEN [s EXCEPT !.radio.split = FALSE]
                      ELSE [s EXCEPT !.radio.split = TRUE, !.radio.tx = f]
        u == [t EXCEPT !.rig.actual.tx = f, !.rig.actual.split = SplitIs(f # 0)]
    IN  Access(s, IF s.rig.next.tx = f THEN u
                  ELSE Expect(s, [u EXCEPT !.rig.next.tx = f,
                                           !.rig.next.split = SplitIs(f # 0)]))

(* hamlib_bug_bandaid: the frequency is changed without telling anybody.   *)
Bandaid(s, want) ==
    IF want.freq = want.tx /\ want.split = "on" /\ want.ptt
    THEN Access(s, [s EXCEPT !.radio.freq = want.freq + 1])
    ELSE s

(* poll: the receive frequency is not read while transmitting split.       *)
Read(s) ==
    LET a == s.rig.actual
        r == s.radio
        f == IF a.ptt /\ r.split THEN a.freq ELSE r.freq
    IN  Access(s, [s EXCEPT
            !.rig.actual = [a EXCEPT !.freq = f, !.split = SplitIs(r.split), !.ptt = r.ptt,
                                     !.tx = IF r.split THEN r.tx ELSE @],
            !.rig.requested.freq = IF a.ptt /\ r.split THEN @ ELSE r.freq])

(* What is emitted as update(actual_), through EmulateSplitTransceiver     *)
(* (its handle_update) if that is there.                                   *)
Emitted(r) ==
    LET a == r.actual
        update(s) == [what |-> "update", state |-> s, newest |-> r.newest]
    IN  IF splitMode # "emulate" THEN update(a)
        ELSE IF a.split = "on"
        THEN [what |-> "failure", state |-> Unknown, newest |-> FALSE]
        ELSE update([a EXCEPT !.freq = IF a.ptt THEN r.wanted.freq ELSE @,
                              !.tx = r.wanted.tx,
                              !.split = SplitIs(r.wanted.split = "on")])

(* update_complete, with do_pre_update.                                    *)
UpdateComplete(s, force) ==
    IF force \/ (s.rig.actual # s.rig.last
                 /\ (s.rig.retries = 0 \/ s.rig.actual = s.rig.next))
    THEN [s EXCEPT !.out = Append(@, Emitted(s.rig)), !.rig.last = s.rig.actual]
    ELSE s

(* Mutant: the object goes offline without a thought for the PTT.          *)
ShutdownKeyed(s, accesses) ==
    UpdateComplete([s EXCEPT !.threw = FALSE, !.rig.polling = FALSE,
                             !.rig.actual.online = FALSE,
                             !.rig.requested.online = FALSE], FALSE)

(* shutdown: exceptions are swallowed.                                     *)
Shutdown(s, accesses) ==
    LET t == [s EXCEPT !.left = accesses, !.threw = FALSE]
        u == IF ~s.rig.requested.online THEN t
             ELSE IF s.rig.requested.split = "on" THEN TxFrequency(Ptt(t, FALSE), 0)
             ELSE Ptt(t, FALSE)
    IN  UpdateComplete([u EXCEPT !.threw = FALSE,
                                 !.rig.failed = @ \/ u.threw,
                                 !.rig.polling = FALSE,
                                 !.rig.actual.online = FALSE,
                                 !.rig.requested.online = FALSE], FALSE)

(* startup: do_start reads the radio, do_post_start expects it online.     *)
Startup(s) ==
    LET t == Read(s)
    IN  IF t.threw THEN t
        ELSE [t EXCEPT !.rig.polling = TRUE,
                       !.rig.retries = IF t.rig.next.online THEN @ ELSE PollsToStabilize,
                       !.rig.next.online = TRUE,
                       !.rig.actual.online = TRUE,
                       !.rig.requested.online = TRUE]

(* offline: the failure is emitted, then the rest of the handler.          *)
Offline(s, accesses) ==
    Shutdown([s EXCEPT !.out = Append(@, [what |-> "failure", state |-> Unknown,
                                          newest |-> FALSE]),
                       !.rig.failed = TRUE],
             accesses)

(* Mutant: only what has changed is emitted.                               *)
FinishQuietly(s, newest, accesses) ==
    IF s.threw THEN Offline(UpdateComplete(s, FALSE), accesses)
    ELSE UpdateComplete([s EXCEPT !.rig.newest = newest], FALSE)

(* The end of start and set: may_update emits an update, also when an      *)
(* exception passes it, then the exception is turned into a failure.       *)
Finish(s, newest, accesses) ==
    IF s.threw THEN Offline(UpdateComplete(s, TRUE), accesses)
    ELSE UpdateComplete([s EXCEPT !.rig.newest = newest], TRUE)

-----------------------------------------------------------------------------
(* The parts of TransceiverBase::set, for the state that is wanted.        *)
PttOn(s, want)  == want.ptt /\ ~s.rig.requested.ptt
PttOff(s, want) == ~want.ptt /\ s.rig.requested.ptt

SetFrequency(s, want, released) ==
    IF want.freq # 0 /\ (want.freq # s.rig.requested.freq \/ released)
    THEN LET t == Frequency(s, want.freq)
         IN  IF t.threw THEN t
             ELSE [t EXCEPT !.rig.requested.freq = t.rig.actual.freq]
    ELSE s

SetTxFrequency(s, want) ==
    IF want.tx # s.rig.requested.tx \/ (want.tx # 0 /\ PttOn(s, want))
    THEN LET t == TxFrequency(Bandaid(s, want), want.tx)
         IN  IF t.threw THEN t
             ELSE [t EXCEPT !.rig.requested.tx = t.rig.actual.tx,
                            !.rig.requested.split = t.rig.actual.split]
    ELSE s

SetPtt(s, want) ==
    LET t == IF PttOn(s, want) THEN Ptt(s, TRUE) ELSE s
    IN  IF t.threw THEN t ELSE [t EXCEPT !.rig.requested.ptt = t.rig.actual.ptt]

(* Mutant: the PTT is only ever switched on.                               *)
ApplyKeyed(s, want) ==
    SetPtt(SetTxFrequency(SetFrequency(s, want, PttOff(s, want)), want), want)

(* The PTT goes off before, and on after, the frequencies are set.         *)
Apply(s, want) ==
    LET t == IF PttOff(s, want) THEN Ptt(s, FALSE) ELSE s
    IN  SetPtt(SetTxFrequency(SetFrequency(t, want, PttOff(s, want)), want), want)

(* Mutant: the dial stays where it is.                                     *)
EmulatedDial(want) == [want EXCEPT !.split = "off", !.tx = 0]

(* EmulateSplitTransceiver::set: the dial follows the PTT.                 *)
Emulated(want) ==
    [want EXCEPT !.freq = IF want.ptt /\ want.split = "on" THEN want.tx ELSE @,
                 !.split = "off", !.tx = 0]

Set(s, want, newest, accesses) ==
    LET t == IF splitMode # "emulate" THEN s
             ELSE [s EXCEPT !.rig.wanted = [want EXCEPT !.online = FALSE, !.ptt = FALSE]]
        u == IF t.rig.requested.online THEN t ELSE Startup(Shutdown(t, t.left))
        v == IF u.threw THEN u
             ELSE Apply(u, IF splitMode = "emulate" THEN Emulated(want) ELSE want)
    IN  Finish(v, newest, accesses)

Start(s, newest, accesses) ==
    Finish(Startup([s EXCEPT !.rig = NewRig]), newest, accesses)

(* do_sync, after the radio was read.                                      *)
Sync(s) ==
    LET left    == IF s.rig.retries = 0 THEN 0 ELSE s.rig.retries - 1
        signals == IF s.rig.retries > 0 THEN s.rig.actual = s.rig.next \/ left = 0
                                        ELSE s.rig.actual # s.rig.signalled
    IN  IF ~signals THEN [s EXCEPT !.rig.retries = left]
        ELSE UpdateComplete([s EXCEPT !.rig.retries = 0, !.rig.next = s.rig.actual,
                                      !.rig.signalled = s.rig.actual], TRUE)

(* handle_timeout                                                          *)
Poll(s, accesses) ==
    LET t == Read(s)
    IN  IF t.threw THEN Offline(t, accesses) ELSE Sync(t)

-----------------------------------------------------------------------------
(* The GUI thread.  A handler is a chain of operators on gui.              *)
Outdated(q) == [i \in DOMAIN q |-> [q[i] EXCEPT !.newest = FALSE]]

(* A command gets a new number, and is sent if a rig is connected.         *)
Send(g, do) ==
    LET c == [do |-> do, state |-> g.cached, newest |-> TRUE]
    IN  [g EXCEPT !.issued = TRUE,
                  !.sent = IF g.active THEN Append(Outdated(@), c) ELSE Outdated(@)]

(* Mutant: the object is left behind, running.                             *)
CloseRigSilently(g) == [g EXCEPT !.active = FALSE]

CloseRig(g) ==
    IF ~g.active THEN g
    ELSE [g EXCEPT !.active = FALSE,
                   !.sent = Append(@, [do |-> "stop", state |-> Unknown, newest |-> FALSE])]

OpenRig(g, force) ==
    IF g.active /\ ~force THEN g
    ELSE Send([CloseRig(g) EXCEPT !.active = TRUE, !.cached = Unknown], "start")

TransceiverFrequency(g, f) ==
    Send([g EXCEPT !.cached.online = TRUE, !.cached.freq = f], "set")

TransceiverTxFrequency(g, f) ==
    IF splitMode = "none" THEN g
    ELSE Send([g EXCEPT !.cached.online = TRUE, !.cached.tx = f,
                        !.cached.split = SplitIs(f # 0)], "set")

TransceiverPtt(g, b) ==
    Send([g EXCEPT !.cached.online = TRUE, !.cached.ptt = b], "set")

(* setRig and setXIT of the main window; it is monitoring.                 *)
SetRig(g) ==
    IF g.tx = "transmit" /\ ~QsyAllowed THEN g
    ELSE LET h == OpenRig(g, FALSE)
         IN  TransceiverFrequency(TransceiverTxFrequency(h, h.txNominal), h.nominal)

Nominal(g, f) ==
    [g EXCEPT !.nominal = f, !.txNominal = IF splitMode = "none" THEN f ELSE TxOf(f)]

SetXit(g) ==
    IF splitMode = "none" \/ ~g.active \/ (g.tx = "transmit" /\ ~QsyAllowed) THEN g
    ELSE LET h == [g EXCEPT !.txNominal = TxOf(g.nominal)]
         IN  TransceiverTxFrequency(h, h.txNominal)

(* handle_transceiver_update of the main window: it follows the rig, the   *)
(* receive frequency only while the rig receives.                          *)
FollowRig(g, s) ==
    LET nominal == IF g.nominal = 0 THEN s.freq ELSE g.nominal
        moved   == \/ s.freq # g.reported.freq
                   \/ (s.split = "on") # (g.reported.split = "on")
    IN  IF ~moved THEN [g EXCEPT !.reported = s, !.nominal = nominal]
        ELSE IF s.ptt
        THEN [g EXCEPT !.reported = s, !.nominal = nominal,
                       !.txNominal = IF s.split = "on" THEN s.tx ELSE s.freq]
        ELSE [g EXCEPT !.reported = s, !.nominal = s.freq,
                       !.txNominal = IF g.nominal = s.freq THEN @ ELSE s.freq]

(* The cache takes from the rig all but what only the program decides.      *)
Follow(g, s) ==
    [g EXCEPT !.cached = [s EXCEPT !.split = SplitIs(@ = "on"),
                                   !.tx = g.cached.tx, !.ptt = g.cached.ptt]]

(* handle_transceiver_update of Configuration: every update is taken into  *)
(* the cache, the newest one is passed on.                                 *)
FollowUpdate(g, u) ==
    LET h == Follow(g, u.state)
        i == IF u.state.online THEN h ELSE CloseRig(h)
    IN  IF u.newest THEN FollowRig(i, u.state) ELSE i

(* Mutant: a failure is only shown.                                        *)
RigFailureShown(g, visible) ==
    IF visible THEN g
    ELSE IF g.first THEN [g EXCEPT !.reopen = TRUE, !.first = FALSE]
    ELSE [g EXCEPT !.box = TRUE]

(* handle_transceiver_failure of the main window: the transmission is      *)
(* stopped (the PTT timer runs); one automatic retry, then the user is     *)
(* asked.                                                                  *)
TellFailure(g) ==
    LET h == [g EXCEPT !.tx = IF @ = "transmit" THEN "release" ELSE @]
    IN  IF h.first THEN [h EXCEPT !.reopen = TRUE, !.first = FALSE]
                   ELSE [h EXCEPT !.box = TRUE]

(* handle_transceiver_failure of Configuration: while the settings are     *)
(* visible, they show it and the main window is not told.                  *)
RigFailure(g, visible) == IF visible THEN CloseRig(g) ELSE TellFailure(CloseRig(g))

-----------------------------------------------------------------------------
Init ==
    /\ splitMode \in SplitModes
    /\ radio = [freq |-> Tuned, tx |-> Tuned, split |-> FALSE, ptt |-> FALSE]
    /\ gui = [active |-> TRUE, cached |-> Unknown, reported |-> Unknown,
              nominal |-> 0, txNominal |-> 0, tx |-> "receive", first |-> TRUE,
              reopen |-> FALSE, box |-> FALSE, issued |-> FALSE, sent |-> << >>]
    /\ toRig = <<[do |-> "start", state |-> Unknown, newest |-> TRUE]>>
    /\ rig = NewRig
    /\ out = << >>
    /\ toGui = << >>
    /\ qsys = 0
    /\ troubles = 0

(* A handler of the GUI thread returns with the record g; a new number     *)
(* outdates all those given before.                                        *)
Return(g, events) ==
    LET age(q) == IF g.issued THEN Outdated(q) ELSE q
    IN  /\ gui' = [g EXCEPT !.issued = FALSE, !.sent = << >>]
        /\ toRig' = age(toRig) \o g.sent
        /\ toGui' = age(events)
        /\ out' = age(out)
        /\ rig' = IF g.issued THEN [rig EXCEPT !.newest = FALSE] ELSE rig
        /\ UNCHANGED <<splitMode, radio>>

Handler(g) == Return(g, toGui) /\ UNCHANGED <<qsys, troubles>>

UserMayAct == Len(toRig) + Len(toGui) =< MaxQueued

(* The user tunes to f.                                                    *)
Qsy(f) ==
    /\ UserMayAct
    /\ f # gui.nominal
    /\ qsys < MaxQsys
    /\ qsys' = qsys + 1
    /\ Return(SetRig(Nominal(gui, f)), toGui)
    /\ UNCHANGED troubles

(* prepareSending keys the rig.                                            *)
Key ==
    /\ UserMayAct
    /\ gui.tx = "receive" /\ gui.nominal # 0
    /\ Handler([TransceiverPtt(SetXit(SetRig(gui)), TRUE) EXCEPT !.tx = "transmit"])

(* stopTx, and stopTx2 when its timer fires.                               *)
StopTx ==
    /\ gui.tx = "transmit"
    /\ Handler([gui EXCEPT !.tx = "release"])

StopTx2 ==
    /\ gui.tx = "release"
    /\ Handler([TransceiverPtt(gui, FALSE) EXCEPT !.tx = "receive"])

(* on_readFreq_clicked opens a closed rig.                                 *)
ReadFreq ==
    /\ UserMayAct
    /\ gui.tx # "transmit" /\ ~gui.active
    /\ Handler(OpenRig(gui, FALSE))

(* In the settings: a test of the CAT connection opens the rig anew; so    *)
(* does OK when the rig was changed, and it opens a closed one (which is   *)
(* not bounded).                                                           *)
TestCat ==
    /\ UserMayAct
    /\ troubles < MaxTroubles
    /\ troubles' = troubles + 1
    /\ Return(OpenRig(gui, TRUE), toGui)
    /\ UNCHANGED qsys

AcceptSettings(changed) ==
    /\ UserMayAct
    /\ changed \/ gui.active => troubles < MaxTroubles
    /\ troubles' = IF changed \/ gui.active THEN troubles + 1 ELSE troubles
    /\ Return(SetXit(OpenRig(gui, changed)), toGui)
    /\ UNCHANGED qsys

RigOpen ==
    /\ gui.reopen
    /\ Handler(OpenRig([gui EXCEPT !.reopen = FALSE], FALSE))

AnswerBox(retry) ==
    /\ gui.box
    /\ Handler([gui EXCEPT !.box = FALSE, !.first = TRUE, !.reopen = @ \/ retry])

HandleUpdate ==
    /\ toGui # << >> /\ Head(toGui).what = "update"
    /\ Return(FollowUpdate(gui, Head(toGui)), Tail(toGui))
    /\ UNCHANGED <<qsys, troubles>>

(* The settings may be open at any time.                                   *)
HandleFailure ==
    /\ toGui # << >> /\ Head(toGui).what = "failure"
    /\ \E visible \in BOOLEAN : Return(RigFailure(gui, visible), Tail(toGui))
    /\ UNCHANGED <<qsys, troubles>>

-----------------------------------------------------------------------------
(* The rig thread.  The object at work is connected unless the GUI thread  *)
(* has closed it, in which case its stop is on its way.                    *)
Connected == gui.active /\ \A i \in DOMAIN toRig : toRig[i].do = "set"

Worked(s) ==
    /\ rig' = s.rig
    /\ radio' = s.radio
    /\ out' = s.out
    /\ UNCHANGED <<splitMode, gui, toGui, qsys>>

(* The access that fails in a handler, and in the shutdown that follows.   *)
MayFail(n, m) ==
    /\ n # NeverFails \/ m # NeverFails => troubles < MaxTroubles
    /\ m # NeverFails => ReleaseFails
    /\ troubles' = IF n = NeverFails /\ m = NeverFails THEN troubles ELSE troubles + 1

Accesses == 0 .. 4 \cup {NeverFails}

Serve(do) == out = << >> /\ toRig # << >> /\ Head(toRig).do = do /\ toRig' = Tail(toRig)

ServeStart ==
    /\ Serve("start")
    /\ \E n \in {0, NeverFails} :
         /\ MayFail(n, NeverFails)
         /\ Worked(Start(Handling(n), Head(toRig).newest, NeverFails))

ServeSet ==
    /\ Serve("set")
    /\ \E n \in Accesses, m \in {0, NeverFails} :
         LET s == Set(Handling(n), Head(toRig).state, Head(toRig).newest, m)
         IN  /\ n = NeverFails => m = NeverFails
             /\ n # NeverFails => s.rig.failed
             /\ MayFail(n, m)
             /\ Worked(s)

(* stop: the object is deleted when it has finished.                       *)
ServeStop ==
    /\ Serve("stop")
    /\ \E m \in {0, NeverFails} :
         LET s == Shutdown(Handling(m), m)
         IN  /\ m # NeverFails => rig.requested.online
             /\ MayFail(NeverFails, m)
             /\ Worked([s EXCEPT !.out = << >>,
                                  !.rig = [NewRig EXCEPT !.failed = s.rig.failed]])

HandleTimeout ==
    /\ out = << >> /\ rig.polling
    /\ Len(toGui) < MaxUpdates
    /\ \E n \in {0, NeverFails}, m \in {0, NeverFails} :
         /\ n = NeverFails => m = NeverFails
         /\ MayFail(n, m)
         /\ Worked(Poll(Handling(n), m))
    /\ UNCHANGED toRig

(* A signal is emitted, and queued to the GUI thread if it is connected.   *)
Emit ==
    /\ out # << >>
    /\ out' = Tail(out)
    /\ toGui' = IF Connected THEN Append(toGui, Head(out)) ELSE toGui
    /\ UNCHANGED <<splitMode, gui, toRig, rig, radio, qsys, troubles>>

(* The user turns the dial of the radio, or presses its split button, of   *)
(* which a rig in emulated split complains.                                *)
TurnKnob ==
    /\ troubles < MaxTroubles
    /\ ~radio.ptt
    /\ \/ \E f \in Freq \ {radio.freq} : radio' = [radio EXCEPT !.freq = f]
       \/ splitMode = "emulate" /\ radio' = [radio EXCEPT !.split = ~@]
    /\ troubles' = troubles + 1
    /\ UNCHANGED <<splitMode, gui, toRig, rig, out, toGui, qsys>>

GuiThread == HandleUpdate \/ HandleFailure

RigThread == ServeStart \/ ServeSet \/ ServeStop \/ Emit

Next ==
    \/ \E f \in Freq : Qsy(f)
    \/ Key \/ StopTx \/ StopTx2
    \/ ReadFreq \/ TestCat \/ RigOpen
    \/ \E changed \in BOOLEAN : AcceptSettings(changed)
    \/ \E retry \in BOOLEAN : AnswerBox(retry)
    \/ GuiThread
    \/ RigThread \/ HandleTimeout
    \/ TurnKnob

Spec == Init /\ [][Next]_vars

(* Each thread handles what is queued to it (weak fairness of GuiThread and *)
(* of RigThread, written with the guards that say when they are enabled);   *)
(* timers fire; a transmission ends.  Nothing is asked of polls or users.   *)
Fairness ==
    /\ []<>(toGui = << >>) \/ []<><<GuiThread>>_vars
    /\ []<>(toRig = << >> /\ out = << >>) \/ []<><<RigThread>>_vars
    /\ WF_vars(RigOpen)
    /\ WF_vars(StopTx)
    /\ WF_vars(StopTx2)

FairSpec == Spec /\ Fairness

-----------------------------------------------------------------------------
TypeOK ==
    /\ splitMode \in SplitModes
    /\ gui \in GUI
    /\ toRig \in Seq(Command)
    /\ rig \in Rig
    /\ out \in Seq(Signal)
    /\ toGui \in Seq(Signal)
    /\ radio \in Radio
    /\ qsys \in 0 .. MaxQsys
    /\ troubles \in 0 .. MaxTroubles

(* An object that is offline has released the PTT.                         *)
OfflineIsReceiving == ~rig.requested.online => ~radio.ptt

(* Nobody has touched the radio since it was last read or set.             *)
Undisturbed == Read(Handling(NeverFails)).rig.actual = rig.actual

(* Whenever the rig is keyed it transmits on the frequency that belongs to *)
(* the dial frequency of the command (its split button is not pressed, and *)
(* it has not failed; a transmit frequency of 0 asks for no split).        *)
KeysUndisturbed ==
    /\ ~radio.ptt /\ radio'.ptt
    /\ Undisturbed /\ ~rig.failed
    /\ radio.split => splitMode = "rig"

OnTxFrequency ==
    LET want == Head(toRig).state
    IN  \/ splitMode # "none" /\ TxOf(want.freq) = 0
        \/ (IF radio'.split THEN radio'.tx ELSE radio'.freq)
               = (IF splitMode = "none" THEN want.freq ELSE TxOf(want.freq))

KeyedOnTxFrequency == [][KeysUndisturbed => OnTxFrequency]_vars

(* Nothing is on its way, and the object waits for no change to show.      *)
Settled ==
    /\ toRig = << >> /\ out = << >> /\ toGui = << >>
    /\ gui.active /\ rig.requested.online /\ rig.retries = 0

(* The updates that are withheld, outdated or emulated leave nothing out.  *)
SettledAgrees ==
    Settled =>
        /\ rig.newest
        /\ gui.reported = Emitted(rig).state
        /\ gui.cached.freq = gui.reported.freq
        /\ radio.ptt => gui.tx # "receive"

(* What is said of the numbers: they avoid a "ping-pong" of crossing       *)
(* signals, so that the newest command asks for the frequency on display.  *)
NewestAsksForNominal ==
    \A i \in DOMAIN toRig :
        toRig[i].do = "set" /\ toRig[i].newest => toRig[i].state.freq = gui.nominal

PttCommand(c) ==
    CASE c.do = "start" -> "open"
      [] c.do = "stop"  -> "close"
      [] c.do = "set"   -> IF c.state.ptt THEN "on" ELSE "off"

PttCommands == [i \in DOMAIN toRig |-> PttCommand(toRig[i])]

Switch == INSTANCE PttSwitch WITH
    commands <- PttCommands, on <- radio.ptt, failed <- rig.failed

ImplementsPttSwitch == Switch!PttSwitchSpec

(* The PTT goes off.                                                       *)
PttGoesOff == radio.ptt ~> ~radio.ptt

(* A rig that failed is closed.                                            *)
FailureIsHandled == rig.failed ~> ~rig.failed \/ ~gui.active
=============================================================================
