----------------------------- MODULE RxAssembly -----------------------------
(***************************************************************************)
(* From decoded frames to commands.  A message is sent as a chain of       *)
(* frames, one in each period: the caller's compound callsign if he has    *)
(* one, a header, and frames of text.  The frames of one message meet in   *)
(* a buffer, which is found by its audio offset and follows the sender     *)
(* when he drifts; what becomes complete, or grows too old, is handed to   *)
(* the processing of commands.                                             *)
(*                                                                         *)
(* Decoding calls processDecodeEvent for each frame; about once per second *)
(* a timer calls processActivity.  Time goes in steps of half a period,    *)
(* and what is remembered is the age of a thing.  Text is a sequence of    *)
(* parts, each with its origin; what the program sees of it is its words,  *)
(* which several parts may have in common.  A checksum is valid for the    *)
(* words of the whole text of a message and for no others.  The stations   *)
(* do what their operators do: they begin when nobody transmits near to    *)
(* them, and may transmit at once with those far away.  Everything is at   *)
(* one speed.                                                              *)
(***************************************************************************)
EXTENDS Integers, Sequences, FiniteSets, SequencesExt, FiniteSetsExt

CONSTANTS
    Station,
    Offsets,        \* the audio offsets at which a station is decoded
    Compound,       \* the stations with a compound callsign
    RxThreshold,    \* rxThreshold
    Minutes,        \* half periods in a minute: 4 for Slow, 8 for Normal
    MaxText,        \* bound: frames of text in a message
    MaxMessages,    \* bound: messages of all stations
    MaxLost,        \* bound: frames that are not decoded
    Words           \* Words[n][i]: what the i-th frame of text of the n-th
                    \* message says; i = 0 is its command

Unresolved == "<....>"

ASSUME ConstantAssumption ==
    /\ Compound \subseteq Station /\ Unresolved \notin Station
    /\ Offsets \in [Station -> SUBSET Nat]
    /\ \A s \in Station : Offsets[s] # {} /\ 0 \notin Offsets[s]
    /\ {RxThreshold, MaxText, MaxMessages, MaxLost} \subseteq Nat
    /\ Minutes \subseteq Nat /\ \A m \in Minutes : m >= 4 /\ m % 2 = 0
    /\ Words \in [1 .. MaxMessages -> [0 .. MaxText -> Nat]]

VARIABLES
    minute,         \* of the speed in use
    station,        \* what the stations send
    begun, lost,    \* bounds: messages begun, frames not decoded
    seen,           \* m_messageDupeCache: decoded within half a period
    band,           \* m_bandActivity: the last activity at an offset
    buffers,        \* m_messageBuffer
    commands,       \* m_rxCommandQueue
    processed,      \* processActivity has been called in this half period
    handled,        \* history: the commands that were processed
    received        \* history: the messages of which every frame was decoded
                    \* and none was dropped as a duplicate

vars == <<minute, station, begun, lost, seen, band, buffers, commands, processed,
          handled, received>>

-----------------------------------------------------------------------------
Message == [from : Station, number : 1 .. MaxMessages,
            checked : BOOLEAN, parts : 0 .. MaxText]

None == [none |-> TRUE]

Text(m) == [i \in 1 .. m.parts |-> <<m.from, m.number, i>>]

Ellipsis == <<"mfi">>       \* where a frame is missing

(* What a text says, whoever it is from.                                   *)
Says(text) == [i \in DOMAIN text |-> IF text[i] = Ellipsis THEN -1
                                     ELSE Words[text[i][2]][text[i][3]]]

(* The frames of a message (buildMessageFrames); its header is at HeaderAt. *)
HeaderAt(m) == IF m.from \in Compound THEN 2 ELSE 1

LastAt(m) == HeaderAt(m) + m.parts

KindOf(m, f) ==
    CASE f < HeaderAt(m) -> "compound"
      [] f = HeaderAt(m) -> "directed"
      [] f > HeaderAt(m) -> "data"

Frames(m) ==
    [f \in 1 .. LastAt(m) |->
        [kind |-> KindOf(m, f), message |-> m, part |-> f - HeaderAt(m),
         first |-> f = 1, last |-> f = LastAt(m)]]

Frame == [kind : {"compound", "directed", "data"}, message : Message, part : Int,
          first : BOOLEAN, last : BOOLEAN]

CloseAfter == minute              \* 60 seconds, as an age
DropAfter  == (3 * minute) \div 2   \* 90 seconds

MaxAge == DropAfter + 1

Age == 0 .. MaxAge

Older(age) == IF age = MaxAge THEN age ELSE age + 1

Aged(x) == [x EXCEPT !.age = Older(@)]

(* The buffered command: the header of a message, from whom it seems to be.*)
Header == [message : Message, from : Station \cup {Unresolved}, last : BOOLEAN, age : Age]

Call == [call : Station, last : BOOLEAN, age : Age]

Part == {<<s, n, i>> : s \in Station, n \in 1 .. MaxMessages, i \in 1 .. MaxText}
            \cup {Ellipsis}

Buffer == [cmd : Header \cup {None}, compound : Seq(Call),
           msgs : Seq(Part), last : BOOLEAN, age : Age]     \* of the last of msgs

NoBuffer == [cmd |-> None, compound |-> << >>, msgs |-> << >>, last |-> FALSE, age |-> 0]

Command == [message : Message, from : Station \cup {Unresolved}, text : Seq(Part)]

Offset == UNION {Offsets[s] : s \in Station}

-----------------------------------------------------------------------------
(* Functions on offsets, as QMap.                                          *)
Put(map, o, value) == [x \in DOMAIN map \cup {o} |-> IF x = o THEN value ELSE map[x]]

Without(map, o) == [x \in DOMAIN map \ {o} |-> map[x]]

Near(map, o) == {x \in DOMAIN map : o - RxThreshold =< x /\ x =< o + RxThreshold}

(* The lowest that is near moves to o, unless there is something at o.     *)
Follow(map, o) ==
    IF o \in DOMAIN map \/ Near(map, o) = {} THEN map
    ELSE LET from == Min(Near(map, o))
         IN  Put(Without(map, from), o, map[from])

BufferAt(o, b) == IF o \in DOMAIN b THEN b[o] ELSE NoBuffer

-----------------------------------------------------------------------------
(* processDecodeEvent, for a frame that is decoded at offset o.            *)

(* Mutant: the first frame of a message leaves what is there.              *)
ClearNothing(b, frame, o) == b

(* A first frame clears a buffer.                                          *)
ClearIfFirst(b, frame, o) == IF frame.first THEN Without(Follow(b, o), o) ELSE b

(* General activity: data is added to a buffer that is there.              *)
GeneralActivity(b, frame, o) ==
    LET c == Follow(ClearIfFirst(b, frame, o), o)
    IN  IF frame.kind = "data" /\ o \in DOMAIN c
        THEN Put(c, o, [c[o] EXCEPT !.msgs = Append(@, Text(frame.message)[frame.part]),
                                    !.last = frame.last, !.age = 0])
        ELSE c

CompoundFrame(b, frame, o) ==
    LET c == Follow(b, o)
        call == [call |-> frame.message.from, last |-> frame.last, age |-> 0]
    IN  Put(c, o, [BufferAt(o, c) EXCEPT !.compound = Append(@, call)])

HeaderOf(frame) ==
    [message |-> frame.message, last |-> frame.last, age |-> 0,
     from |-> IF frame.message.from \in Compound THEN Unresolved ELSE frame.message.from]

(* A header waits for text or for a callsign, or is a command by itself.   *)
(* (isCommandBuffered holds of every command that a frame can have.)       *)
Waits(header) == ~header.last \/ header.from = Unresolved

DirectedFrame(b, frame, o) ==
    LET c == Follow(b, o)
    IN  Put(c, o, [BufferAt(o, c) EXCEPT !.cmd = HeaderOf(frame), !.msgs = << >>,
                                         !.last = FALSE, !.age = 0])

(* Of a frame the cache of duplicates has its characters: neither the      *)
(* offset nor, for data, the sender.                                       *)
Characters(frame) ==
    LET m == frame.message
    IN  CASE frame.kind = "compound" -> <<"compound", m.from>>
          [] frame.kind = "directed" ->
                <<"directed", HeaderOf(frame).from, m.checked, Words[m.number][0]>>
          [] frame.kind = "data" -> <<"data", Words[m.number][frame.part]>>

(* Mutant: a frame decoded in two overlapping ranges counts twice.         *)
IsDuplicateNever(frame) == FALSE

IsDuplicate(frame) == \E other \in seen : Characters(other) = Characters(frame)

CommandOf(header, text) == [message |-> header.message, from |-> header.from, text |-> text]

ProcessDecodeEvent(frame, o) ==
    IF IsDuplicate(frame) THEN UNCHANGED <<seen, band, buffers, commands>>
    ELSE
    LET b == GeneralActivity(buffers, frame, o)
        waits == frame.kind = "directed" /\ Waits(HeaderOf(frame))
    IN  /\ seen' = seen \cup {frame}
        /\ band' = Put(Follow(band, o), o, [idle |-> frame.last, age |-> 0])
        /\ buffers' = IF frame.kind = "compound" THEN CompoundFrame(b, frame, o)
                      ELSE IF waits THEN DirectedFrame(b, frame, o) ELSE b
        /\ commands' = IF frame.kind = "directed" /\ ~waits
                       THEN Append(commands, CommandOf(HeaderOf(frame), << >>))
                       ELSE commands

-----------------------------------------------------------------------------
(* processActivity.                                                        *)

IdleAfter == 3      \* one and a half periods

IdleOffsets == {o \in DOMAIN band : ~band[o].idle /\ band[o].age >= IdleAfter}

(* processIdleActivity: from the lowest to the highest, an ellipsis goes   *)
(* into the buffer of this offset, if there is a buffer near it by now.    *)
Reached(b, idle) ==
    UNION {some \in SUBSET idle :
             \A o \in some : Near(b, o) # {} \/ \E r \in some : o - RxThreshold =< r /\ r < o}

AddEllipses(b, idle) ==
    [o \in DOMAIN b \cup Reached(b, idle) |->
        IF o \notin Reached(b, idle) THEN b[o]
        ELSE [BufferAt(o, b) EXCEPT !.msgs = Append(@, Ellipsis),
                                    !.last = FALSE, !.age = band[o].age]]

(* processCompoundActivity: a callsign that has come is put into the       *)
(* header that waits for it.                                               *)
Resolved(buffer) ==
    IF buffer.compound = << >> \/ buffer.cmd = None \/ buffer.cmd.from # Unresolved
    THEN buffer
    ELSE LET call == Head(buffer.compound)
             header == [buffer.cmd EXCEPT !.from = call.call,
                                          !.last = @ \/ call.last,
                                          !.age = IF call.age > @ THEN call.age ELSE @]
         IN  [buffer EXCEPT !.compound = Tail(@), !.cmd = header]

CompoundComplete(before) ==
    /\ before.compound # << >>
    /\ before.cmd # None
    /\ Resolved(before).cmd.last

(* processBufferedActivity.                                                *)
Youngest(buffer) ==
    Min({MaxAge}
        \cup (IF buffer.cmd = None THEN {} ELSE {buffer.cmd.age})
        \cup (IF buffer.compound = << >> THEN {} ELSE {Last(buffer.compound).age})
        \cup (IF buffer.msgs = << >> THEN {} ELSE {buffer.age}))

(* Mutant: a buffer without text is kept.                                  *)
DropsOnlyText(buffer) == Youngest(buffer) >= DropAfter /\ buffer.msgs # << >>

Drops(buffer) == Youngest(buffer) >= DropAfter

Closes(buffer) ==
    /\ buffer.msgs # << >>
    /\ buffer.last \/ Youngest(buffer) >= CloseAfter

Valid(buffer) ==
    buffer.cmd # None /\ buffer.cmd.message.checked
        => Says(buffer.msgs) = Says(Text(buffer.cmd.message))

(* What processCommandActivity takes up; in which order is left open.      *)
Taken(queue) ==
    LET some == SetToSeq({i \in DOMAIN queue : queue[i].from # Unresolved})
    IN  [k \in DOMAIN some |-> queue[some[k]]]

CommandsOf(b, some) ==
    {CommandOf(b[o].cmd, b[o].msgs) : o \in {x \in some : b[x].cmd # None}}

ProcessActivity ==
    LET b == AddEllipses(buffers, IdleOffsets)
        ready == {o \in DOMAIN b : CompoundComplete(b[o])}
        c == [o \in DOMAIN b \ ready |-> Resolved(b[o])]
        drops == {o \in DOMAIN c : Drops(c[o])}
        closes == {o \in DOMAIN c \ drops : Closes(c[o])}
        queue == commands
            \o SetToSeq(CommandsOf([o \in ready |->
                    [Resolved(b[o]) EXCEPT !.msgs = << >>]], ready))
            \o SetToSeq(CommandsOf(c, {o \in closes : Valid(c[o])}))
    IN  /\ band' = [o \in DOMAIN band |->
                        IF o \in IdleOffsets THEN [idle |-> TRUE, age |-> 0] ELSE band[o]]
        /\ buffers' = [o \in DOMAIN c \ (drops \cup closes) |-> c[o]]
        /\ commands' = << >>
        /\ handled' = handled \o Taken(queue)
        /\ processed' = TRUE
        /\ UNCHANGED <<minute, station, begun, lost, seen, received>>

-----------------------------------------------------------------------------
(* A station: the message it sends and what it has sent of it, the time    *)
(* until its next frame, the offset at which it was decoded last (0: never *)
(* in this message), how far it has moved from frame to frame, and whether *)
(* all frames were decoded and taken.                                      *)
Drift == {"none", "near", "far"}

StationState ==
    [message : Message \cup {None}, sent : 0 .. MaxText + 1, wait : 0 .. 2,
     offset : Nat, drift : Drift, whole : BOOLEAN]

Init ==
    /\ minute \in Minutes
    /\ station = [s \in Station |->
            [message |-> None, sent |-> 0, wait |-> 0, offset |-> 0,
             drift |-> "none", whole |-> TRUE]]
    /\ begun = 0
    /\ lost = 0
    /\ seen = {}
    /\ band = << >>
    /\ buffers = << >>
    /\ commands = << >>
    /\ processed = FALSE
    /\ handled = << >>
    /\ received = {}

Sending(s) == station[s].message # None

NearStations(s, t) ==
    \E o \in Offsets[s], p \in Offsets[t] : p - 2 * RxThreshold =< o /\ o =< p + 2 * RxThreshold

Begin(s, checked, parts) ==
    /\ ~Sending(s) /\ station[s].wait = 0
    /\ begun < MaxMessages
    /\ \A t \in Station \ {s} : NearStations(s, t) => ~Sending(t) /\ station[t].wait = 0
    /\ begun' = begun + 1
    /\ station' = [station EXCEPT ![s].message =
            [from |-> s, number |-> begun + 1, checked |-> checked, parts |-> parts]]
    /\ UNCHANGED <<minute, lost, seen, band, buffers, commands, processed, handled, received>>

DriftTo(st, o) ==
    IF 0 \in {o, st.offset} \/ o = st.offset THEN st.drift
    ELSE IF st.drift # "far" /\ o \in st.offset - RxThreshold .. st.offset + RxThreshold
    THEN "near" ELSE "far"

(* Its next frame has been sent, and is taken at o or (o = 0) is not.      *)
Sent(s, o) ==
    LET st == station[s]
        last == st.sent + 1 = LastAt(st.message)
        whole == st.whole /\ o # 0
        drift == DriftTo(st, o)
    IN  /\ station' = [station EXCEPT ![s] =
                IF last THEN [st EXCEPT !.message = None, !.sent = 0, !.wait = 2,
                                        !.offset = 0, !.drift = "none", !.whole = TRUE]
                ELSE [st EXCEPT !.sent = @ + 1, !.wait = 2, !.drift = drift, !.whole = whole,
                                !.offset = IF o = 0 THEN @ ELSE o]]
        /\ received' = IF last /\ whole
                       THEN received \cup {[message |-> st.message, drift |-> drift]}
                       ELSE received

NextFrame(s) == Frames(station[s].message)[station[s].sent + 1]

(* It is decoded; as a duplicate of another it is dropped.                 *)
SendDecoded(s, o) ==
    /\ Sending(s) /\ station[s].wait = 0
    /\ ProcessDecodeEvent(NextFrame(s), o)
    /\ Sent(s, IF IsDuplicate(NextFrame(s)) THEN 0 ELSE o)
    /\ processed' = FALSE
    /\ UNCHANGED <<minute, begun, lost, handled>>

SendLost(s) ==
    /\ Sending(s) /\ station[s].wait = 0
    /\ lost < MaxLost
    /\ lost' = lost + 1
    /\ Sent(s, 0)
    /\ UNCHANGED <<minute, begun, seen, band, buffers, commands, processed, handled>>

(* A frame is decoded once more, in an overlapping range.                  *)
DecodeAgain(frame, o) ==
    /\ frame \in seen
    /\ o \in Offsets[frame.message.from]
    /\ ProcessDecodeEvent(frame, o)
    /\ UNCHANGED <<minute, station, begun, lost, processed, handled, received>>

(* Half a period passes.                                                   *)
Tick ==
    /\ processed
    /\ \A s \in Station : Sending(s) => station[s].wait > 0
    /\ station' = [s \in Station |->
            [station[s] EXCEPT !.wait = IF @ = 0 THEN 0 ELSE @ - 1]]
    /\ seen' = {}
    /\ band' = [o \in DOMAIN band |->
            IF band[o].idle THEN band[o] ELSE Aged(band[o])]
    /\ buffers' = [o \in DOMAIN buffers |->
            [buffers[o] EXCEPT
                !.cmd = IF @ = None THEN None ELSE Aged(@),
                !.compound = [i \in DOMAIN @ |-> Aged(@[i])],
                !.age = IF buffers[o].msgs = << >> THEN 0 ELSE Older(@)]]
    /\ processed' = FALSE
    /\ UNCHANGED <<minute, begun, lost, commands, handled, received>>

Next ==
    \/ \E s \in Station, checked \in BOOLEAN, parts \in 0 .. MaxText :
         Begin(s, checked, parts)
    \/ \E s \in Station : SendLost(s) \/ \E o \in Offsets[s] : SendDecoded(s, o)
    \/ \E frame \in seen, o \in Offset : DecodeAgain(frame, o)
    \/ ProcessActivity
    \/ Tick

Spec == Init /\ [][Next]_vars

(* In every half period the timer of the main window fires, which is what  *)
(* makes processed true; stations go on sending, and time passes.          *)
FairSpec ==
    /\ Spec
    /\ WF_processed(processed' = TRUE)
    /\ WF_processed(Tick)
    /\ \A s \in Station : WF_station(\E o \in Offsets[s] : SendDecoded(s, o))

-----------------------------------------------------------------------------
TypeOK ==
    /\ minute \in Minutes
    /\ station \in [Station -> StationState]
    /\ begun \in 0 .. MaxMessages /\ lost \in 0 .. MaxLost
    /\ seen \subseteq Frame
    /\ DOMAIN band \subseteq Offset
    /\ \A o \in DOMAIN band : band[o] \in [idle : BOOLEAN, age : Age]
    /\ DOMAIN buffers \subseteq Offset
    /\ \A o \in DOMAIN buffers : buffers[o] \in Buffer
    /\ commands \in Seq(Command)
    /\ processed \in BOOLEAN
    /\ handled \in Seq(Command)
    /\ received \subseteq [message : Message, drift : Drift]

(* The text was sent in this order, though not all of it may have arrived. *)
IsExcerpt(text, whole) ==
    /\ \A i \in DOMAIN text : text[i] # Ellipsis => text[i] \in ToSet(whole)
    /\ \A i, j \in DOMAIN text :
         i < j /\ Ellipsis \notin {text[i], text[j]} => text[i][3] < text[j][3]

(* Every command has one sender's header, his callsign, and nobody else's  *)
(* text.                                                                   *)
SentByOne ==
    \A i \in DOMAIN handled :
        LET c == handled[i]
        IN  c.from = c.message.from /\ IsExcerpt(c.text, Text(c.message))

(* If it has a checksum, it says all of the text.                          *)
CheckedIsWhole ==
    \A i \in DOMAIN handled :
        LET c == handled[i] IN c.message.checked => Says(c.text) = Says(Text(c.message))

(* Nothing is handed over twice.                                           *)
HandledOnce ==
    \A i, j \in DOMAIN handled : handled[i].message = handled[j].message => i = j

(* What is handed over was sent, by that station, and once.                *)
HandledWasSent == SentByOne /\ CheckedIsWhole /\ HandledOnce

AtRest ==
    /\ buffers = << >> /\ commands = << >>
    /\ \A s \in Station : ~Sending(s)

Arrived(m) == \E i \in DOMAIN handled : handled[i] = CommandOf([message |-> m, from |-> m.from], Text(m))

(* A message of which every frame was decoded at one offset, and none was  *)
(* dropped as a duplicate of another, is handed over whole.                *)
SteadyArrives == AtRest => \A r \in received : r.drift = "none" => Arrived(r.message)

(* So is one whose frames were decoded near to each other.                 *)
DriftingArrives == AtRest => \A r \in received : r.drift # "far" => Arrived(r.message)

(* When every frame is decoded, every message is handed over.              *)
AllArrive ==
    AtRest /\ lost = 0 =>
        \A n \in 1 .. begun : \E i \in DOMAIN handled :
            handled[i].message.number = n /\ Arrived(handled[i].message)

(* No buffer stays open.                                                   *)
BuffersClose == buffers # << >> ~> buffers = << >>
=============================================================================
