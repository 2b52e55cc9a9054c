------------------------- MODULE RigReports_proofs -------------------------
(* Proofs about the two directions between the GUI thread and the rig.     *)
(* What it is told: when nothing is on its way it shows the state the rig  *)
(* object is in, under the newest number, and transmits only if it knows   *)
(* of it.  What it asks for: both frequencies are prepared, in this order, *)
(* before the radio is keyed, and it is keyed on the one that was meant.   *)
EXTENDS Transceiver_proofs

-----------------------------------------------------------------------------
(* The numbers and the order of the commands on their way.                 *)

(* The last command has the newest number, and asks for this PTT.          *)
Newest(q, ptt) ==
    LET c == q[Len(q)] IN
    /\ q # << >>
    /\ c.newest /\ c.do # "stop"
    /\ c.do = "set" => c.state.ptt = ptt

(* No object is set after its stop; open: it is not stopped before them.   *)
Resumed(q, open) ==
    \A i \in DOMAIN q :
        q[i].do = "set" => IF i = 1 THEN open ELSE q[i - 1].do # "stop"

AllSet(q) == \A i \in DOMAIN q : q[i].do = "set"

LEMMA OutdatedResumes ==
    ASSUME NEW q \in Seq(Command), NEW open \in BOOLEAN
    PROVE  /\ Resumed(q, open) => Resumed(Outdated(q), open)
           /\ AllSet(Outdated(q)) => AllSet(q)
           /\ Outdated(q) = << >> <=> q = << >>
           /\ q # << >> => Outdated(q)[Len(Outdated(q))].do = q[Len(q)].do
<1>1. /\ Outdated(q) \in Seq(Command) /\ Len(Outdated(q)) = Len(q)
      /\ \A i \in 1 .. Len(q) : Outdated(q)[i].do = q[i].do
    BY OutdatedKeeps
<1>2. DOMAIN Outdated(q) = 1 .. Len(q) /\ DOMAIN q = 1 .. Len(q) /\ Len(q) \in Nat
    BY <1>1
<1>3. Outdated(q) = << >> <=> q = << >>
    BY <1>1, EmptySeq
<1>4. q # << >> => Len(q) \in 1 .. Len(q)
    OBVIOUS
<1>5. Resumed(q, open) => Resumed(Outdated(q), open)
    BY <1>1, <1>2 DEF Resumed
<1>6. AllSet(Outdated(q)) => AllSet(q)
    BY <1>1, <1>2 DEF AllSet
<1>. QED
    BY <1>1, <1>3, <1>4, <1>5, <1>6

LEMMA AppendResumes ==
    ASSUME NEW q \in Seq(Command), NEW c \in Command, NEW open \in BOOLEAN,
           Resumed(q, open),
           c.do = "set" => IF q = << >> THEN open ELSE q[Len(q)].do # "stop"
    PROVE  /\ Append(q, c) \in Seq(Command) /\ Append(q, c) # << >>
           /\ Resumed(Append(q, c), open)
           /\ Append(q, c)[Len(Append(q, c))] = c
<1>. DEFINE a == Append(q, c)
<1>1. /\ a \in Seq(Command) /\ Len(a) = Len(q) + 1 /\ a # << >>
      /\ \A i \in 1 .. Len(q) : a[i] = q[i]
      /\ a[Len(q) + 1] = c
    BY AppendProperties
<1>. HIDE DEF a
<1>2. Resumed(a, open)
    <2>. SUFFICES ASSUME NEW i \in 1 .. Len(a), a[i].do = "set"
                  PROVE  IF i = 1 THEN open ELSE a[i - 1].do # "stop"
        BY <1>1 DEF Resumed
    <2>1. CASE i \in 1 .. Len(q)
        <3>0. i \in DOMAIN q /\ q[i].do = "set"
            BY <1>1, <2>1
        <3>1. IF i = 1 THEN open ELSE q[i - 1].do # "stop"
            BY <3>0, Zenon DEF Resumed
        <3>2. i # 1 => i - 1 \in 1 .. Len(q)
            BY <2>1
        <3>. QED
            BY <1>1, <3>1, <3>2
    <2>2. CASE i = Len(q) + 1
        <3>1. IF q = << >> THEN open ELSE q[Len(q)].do # "stop"
            BY <1>1, <2>2
        <3>2. q # << >> => Len(q) \in 1 .. Len(q) /\ i - 1 = Len(q) /\ i # 1
            BY <2>2
        <3>3. q = << >> => i = 1
            BY <2>2
        <3>4. CASE q = << >>
            BY <3>1, <3>3, <3>4
        <3>5. CASE q # << >>
            <4>1. a[i - 1] = q[Len(q)]
                BY <1>1, <3>2, <3>5
            <4>. QED
                BY <3>1, <3>2, <3>5, <4>1
        <3>. QED
            BY <3>4, <3>5
    <2>. QED
        BY <1>1, <2>1, <2>2
<1>. QED
    BY <1>1, <1>2 DEF a

LEMMA ConcatResumes ==
    ASSUME NEW p \in Seq(Command), NEW q \in Seq(Command), NEW open \in BOOLEAN,
           Resumed(p, TRUE), Resumed(q, open),
           open /\ p # << >> => p[Len(p)].do # "stop"
    PROVE  /\ Resumed(p \o q, TRUE)
           /\ AllSet(p \o q) => AllSet(p) /\ AllSet(q)
           /\ p \o q = << >> <=> p = << >> /\ q = << >>
           /\ q # << >> => (p \o q)[Len(p \o q)] = q[Len(q)]
<1>. DEFINE a == p \o q
<1>1. /\ a \in Seq(Command) /\ Len(a) = Len(p) + Len(q)
      /\ \A i \in 1 .. Len(a) : a[i] = IF i =< Len(p) THEN p[i] ELSE q[i - Len(p)]
    BY ConcatProperties
<1>2. Len(p) \in Nat /\ Len(q) \in Nat
    OBVIOUS
<1>. HIDE DEF a
<1>3. Resumed(a, TRUE)
    <2>. SUFFICES ASSUME NEW i \in 1 .. Len(a), a[i].do = "set", i # 1
                  PROVE  a[i - 1].do # "stop"
        BY <1>1 DEF Resumed
    <2>1. CASE i =< Len(p)
        <3>1. i \in DOMAIN p /\ p[i].do = "set"
            BY <1>1, <2>1
        <3>2. p[i - 1].do # "stop"
            BY <3>1 DEF Resumed
        <3>3. i - 1 \in 1 .. Len(a) /\ i - 1 =< Len(p)
            BY <1>1, <2>1
        <3>. QED
            BY <1>1, <3>2, <3>3
    <2>2. CASE i = Len(p) + 1
        <3>1. 1 \in DOMAIN q /\ q[1].do = "set"
            BY <1>1, <2>2
        <3>2. open
            BY <3>1 DEF Resumed
        <3>3. p # << >> /\ i - 1 = Len(p) /\ Len(p) \in 1 .. Len(a)
            BY <1>1, <1>2, <2>2
        <3>4. a[i - 1] = p[Len(p)]
            BY <1>1, <1>2, <3>3
        <3>. QED
            BY <3>2, <3>3, <3>4
    <2>3. CASE i > Len(p) + 1
        <3>. DEFINE j == i - Len(p)
        <3>1. j \in DOMAIN q /\ j # 1 /\ q[j].do = "set"
            BY <1>1, <2>3
        <3>2. q[j - 1].do # "stop"
            BY <3>1, Zenon DEF Resumed
        <3>3. i - 1 \in 1 .. Len(a) /\ ~(i - 1 =< Len(p)) /\ (i - 1) - Len(p) = j - 1
            BY <2>3
        <3>. QED
            BY <1>1, <3>2, <3>3
    <2>. QED
        BY <2>1, <2>2, <2>3
<1>4. ASSUME AllSet(a) PROVE AllSet(p) /\ AllSet(q)
    <2>1. ASSUME NEW i \in DOMAIN p PROVE p[i].do = "set"
        <3>1. i \in 1 .. Len(a) /\ i =< Len(p)
            BY <1>1
        <3>. QED
            BY <1>1, <1>4, <3>1 DEF AllSet
    <2>2. ASSUME NEW i \in DOMAIN q PROVE q[i].do = "set"
        <3>1. i + Len(p) \in 1 .. Len(a) /\ ~(i + Len(p) =< Len(p)) /\ (i + Len(p)) - Len(p) = i
            BY <1>1
        <3>. QED
            BY <1>1, <1>4, <3>1 DEF AllSet
    <2>. QED
        BY <2>1, <2>2 DEF AllSet
<1>5. a = << >> <=> p = << >> /\ q = << >>
    BY <1>1, <1>2, EmptySeq
<1>6. ASSUME q # << >> PROVE a[Len(a)] = q[Len(q)]
    <2>1. Len(a) \in 1 .. Len(a) /\ ~(Len(a) =< Len(p)) /\ Len(a) - Len(p) = Len(q)
        BY <1>1, <1>6
    <2>. QED
        BY <1>1, <2>1
<1>. QED
    BY <1>3, <1>4, <1>5, <1>6 DEF a

LEMMA TailResumes ==
    ASSUME NEW q \in Seq(Command), q # << >>, Resumed(q, TRUE)
    PROVE  /\ Tail(q) \in Seq(Command)
           /\ Resumed(Tail(q), TRUE)
           /\ Tail(q) = << >> => Head(q) = q[Len(q)]
           /\ Tail(q) # << >> => Tail(q)[Len(Tail(q))] = q[Len(q)]
           /\ AllSet(Tail(q)) /\ Head(q).do = "set" => AllSet(q)
           /\ AllSet(Tail(q)) /\ Head(q).do = "stop" => Tail(q) = << >>
<1>. DEFINE t == Tail(q)
<1>1. /\ t \in Seq(Command) /\ Len(t) = Len(q) - 1 /\ Len(q) > 0 /\ Len(q) \in Nat
      /\ \A i \in 1 .. Len(t) : t[i] = q[i + 1]
      /\ Head(q) = q[1]
    BY HeadTailProperties
<1>. HIDE DEF t
<1>2. Resumed(t, TRUE)
    <2>. SUFFICES ASSUME NEW i \in 1 .. Len(t), t[i].do = "set", i # 1
                  PROVE  t[i - 1].do # "stop"
        BY <1>1 DEF Resumed
    <2>1. i + 1 \in DOMAIN q /\ i + 1 # 1 /\ q[i + 1].do = "set"
        BY <1>1
    <2>2. q[(i + 1) - 1].do # "stop"
        BY <2>1, Zenon DEF Resumed
    <2>3. (i + 1) - 1 = i /\ i - 1 \in 1 .. Len(t) /\ (i - 1) + 1 = i
        BY <1>1
    <2>. QED
        BY <1>1, <2>2, <2>3
<1>3. t = << >> => Len(q) = 1
    BY <1>1
<1>4. ASSUME t # << >> PROVE t[Len(t)] = q[Len(q)]
    <2>1. Len(t) \in 1 .. Len(t) /\ Len(t) + 1 = Len(q)
        BY <1>1, <1>4
    <2>. QED
        BY <1>1, <2>1
<1>5. ASSUME AllSet(t), Head(q).do = "set" PROVE AllSet(q)
    <2>. SUFFICES ASSUME NEW i \in 1 .. Len(q), i # 1
                  PROVE  q[i].do = "set"
        BY <1>1, <1>5 DEF AllSet
    <2>1. i - 1 \in 1 .. Len(t) /\ (i - 1) + 1 = i
        BY <1>1
    <2>2. t[i - 1].do = "set"
        BY <1>1, <1>5, <2>1 DEF AllSet
    <2>3. t[i - 1] = q[(i - 1) + 1]
        BY <1>1, <2>1
    <2>. QED
        BY <2>1, <2>2, <2>3
<1>6. ASSUME AllSet(t), Head(q).do = "stop", t # << >> PROVE FALSE
    <2>1. 1 \in 1 .. Len(t)
        BY <1>1, <1>6
    <2>2. q[2].do = "set" /\ 2 \in DOMAIN q
        <3>1. t[1].do = "set" /\ t[1] = q[1 + 1]
            BY <1>1, <1>6, <2>1 DEF AllSet
        <3>2. 2 \in 1 .. Len(q) /\ 1 + 1 = 2
            BY <1>1, <2>1
        <3>. QED
            BY <3>1, <3>2
    <2>3. q[2 - 1].do # "stop"
        BY <2>2 DEF Resumed
    <2>. QED
        BY <1>1, <1>6, <2>3
<1>. QED
    BY <1>1, <1>2, <1>3, <1>4, <1>5, <1>6 DEF t

LEMMA OutdatedTells ==
    ASSUME NEW q \in Seq(Signal), HasFailure(q)
    PROVE  HasFailure(Outdated(q))
<1>1. PICK i \in DOMAIN q : q[i].what = "failure"
    BY DEF HasFailure
<1>2. DOMAIN q = 1 .. Len(q) /\ q[i] \in Signal
    BY <1>1, ElementOfSeq
<1>3. [q[i] EXCEPT !.newest = FALSE].what = "failure"
    BY <1>1, <1>2 DEF Signal
<1>4. Outdated(q) = [j \in DOMAIN q |-> [q[j] EXCEPT !.newest = FALSE]]
    BY Zenon DEF Outdated
<1>5. i \in DOMAIN Outdated(q) /\ Outdated(q)[i].what = "failure"
    BY <1>1, <1>3, <1>4
<1>. QED
    BY <1>5 DEF HasFailure

-----------------------------------------------------------------------------
(* The GUI thread.                                                         *)

(* What a handler that began in gui has come to: if it leaves a rig        *)
(* connected it has sent it its last word, or nothing at all.              *)
Begun(g) ==
    /\ g \in GUI
    /\ g.active /\ ~g.issued =>
         gui.active /\ g.sent = << >> /\ g.cached.ptt = gui.cached.ptt
    /\ g.active /\ g.issued => Newest(g.sent, g.cached.ptt)
    /\ Resumed(g.sent, gui.active)

(* It does not key what was not keyed, nor begin or end a transmission.    *)
Unkeyed(h, g) == h.tx = g.tx /\ (h.cached.ptt => g.cached.ptt)

(* A change of what is no command.                                         *)
LEMMA BegunStill ==
    ASSUME NEW g, Begun(g), NEW h \in GUI,
           h.active = g.active, h.issued = g.issued, h.sent = g.sent,
           h.cached.ptt = g.cached.ptt
    PROVE  Begun(h)
BY DEF Begun

LEMMA CachedTells ==
    ASSUME gui \in GUI, NEW g, Begun(g), NEW c \in State
    PROVE  LET h == Send([g EXCEPT !.cached = c], "set") IN
           Begun(h) /\ h.tx = g.tx /\ h.cached = c /\ h.nominal = g.nominal
                    /\ h.txNominal = g.txNominal
<1>. DEFINE e == [g EXCEPT !.cached = c]
            d == [do |-> "set", state |-> c, newest |-> TRUE]
            o == Outdated(g.sent)
            q == IF g.active THEN Append(o, d) ELSE o
            h == [e EXCEPT !.issued = TRUE, !.sent = q]
<1>1. d \in Command /\ d.do = "set" /\ d.newest /\ d.state = c
    BY DEF Command
<1>2. /\ g \in GUI /\ g.sent \in Seq(Command) /\ g.active \in BOOLEAN
      /\ g.issued \in BOOLEAN /\ gui.active \in BOOLEAN
      /\ Resumed(g.sent, gui.active)
    BY DEF Begun, GUI
<1>3. Send(e, "set") = h
    BY <1>2 DEF Send, GUI
<1>4. /\ e \in GUI /\ e.cached = c /\ e.active = g.active /\ e.tx = g.tx
      /\ e.nominal = g.nominal /\ e.txNominal = g.txNominal
    BY <1>2 DEF GUI
<1>. HIDE DEF d, e
<1>5. /\ o \in Seq(Command) /\ Resumed(o, gui.active)
      /\ o = << >> <=> g.sent = << >>
      /\ g.sent # << >> => o[Len(o)].do = g.sent[Len(g.sent)].do
    BY <1>2, OutdatedKeeps, OutdatedResumes
<1>. HIDE DEF o
<1>6. g.active => IF o = << >> THEN gui.active ELSE o[Len(o)].do # "stop"
    <2>1. CASE g.active /\ ~g.issued
        BY <1>5, <2>1 DEF Begun
    <2>2. CASE g.active /\ g.issued
        BY <1>5, <2>2 DEF Begun, Newest
    <2>. QED
        BY <1>2, <2>1, <2>2
<1>7. g.active => /\ Append(o, d) \in Seq(Command)
                  /\ Resumed(Append(o, d), gui.active)
                  /\ Newest(Append(o, d), c.ptt)
    <2>. SUFFICES ASSUME g.active
                  PROVE  /\ Append(o, d) \in Seq(Command)
                         /\ Resumed(Append(o, d), gui.active)
                         /\ Newest(Append(o, d), c.ptt)
        OBVIOUS
    <2>1. /\ Append(o, d) \in Seq(Command) /\ Append(o, d) # << >>
          /\ Resumed(Append(o, d), gui.active)
          /\ Append(o, d)[Len(Append(o, d))] = d
        BY <1>1, <1>2, <1>5, <1>6, AppendResumes
    <2>. QED
        BY <1>1, <2>1 DEF Newest
<1>8. /\ q \in Seq(Command) /\ Resumed(q, gui.active)
      /\ g.active => Newest(q, c.ptt)
    BY <1>5, <1>7
<1>. HIDE DEF q
<1>9. /\ h \in GUI /\ h.sent = q /\ h.active = g.active /\ h.issued
      /\ h.cached = c /\ h.tx = g.tx
      /\ h.nominal = g.nominal /\ h.txNominal = g.txNominal
    BY <1>4, <1>8 DEF GUI
<1>. HIDE DEF h
<1>10. Begun(h)
    BY <1>8, <1>9 DEF Begun
<1>. QED
    BY <1>3, <1>9, <1>10 DEF e

LEMMA CloseRigTells ==
    ASSUME gui \in GUI, NEW g, Begun(g)
    PROVE  LET h == CloseRig(g) IN
           /\ Begun(h) /\ ~h.active /\ h.tx = g.tx /\ h.cached = g.cached
<1>1. CASE ~g.active
    BY <1>1 DEF CloseRig
<1>2. CASE g.active
    <2>. DEFINE c == [do |-> "stop", state |-> Unknown, newest |-> FALSE]
                q == Append(g.sent, c)
                h == [g EXCEPT !.active = FALSE, !.sent = q]
    <2>1. /\ c \in Command /\ c.do = "stop" /\ g.sent \in Seq(Command)
          /\ Resumed(g.sent, gui.active) /\ gui.active \in BOOLEAN /\ g \in GUI
        BY UnknownState DEF GUI, Command, Begun
    <2>2. CloseRig(g) = h
        BY <1>2, <2>1 DEF CloseRig, GUI
    <2>. HIDE DEF c
    <2>3. q \in Seq(Command) /\ Resumed(q, gui.active)
        BY <2>1, AppendResumes
    <2>. HIDE DEF q
    <2>4. /\ h \in GUI /\ h.sent = q /\ h.active = FALSE
          /\ h.tx = g.tx /\ h.cached = g.cached
        BY <2>1, <2>3 DEF GUI
    <2>. HIDE DEF h
    <2>. QED
        BY <2>2, <2>3, <2>4 DEF Begun
<1>. QED
    BY <1>1, <1>2

LEMMA OpenRigTells ==
    ASSUME gui \in GUI, NEW g, Begun(g), NEW force \in BOOLEAN
    PROVE  Begun(OpenRig(g, force)) /\ Unkeyed(OpenRig(g, force), g)
<1>. DEFINE h == CloseRig(g)
            c == [do |-> "start", state |-> Unknown, newest |-> TRUE]
            o == Outdated(h.sent)
            q == Append(o, c)
            i == [h EXCEPT !.active = TRUE, !.cached = Unknown]
            j == [i EXCEPT !.issued = TRUE, !.sent = q]
<1>1. OpenRig(g, force) = g \/ OpenRig(g, force) = Send(i, "start")
    BY DEF OpenRig
<1>2. Begun(h) /\ h.tx = g.tx
    BY CloseRigTells
<1>. HIDE DEF h
<1>3. /\ h \in GUI /\ h.sent \in Seq(Command) /\ gui.active \in BOOLEAN
      /\ Resumed(h.sent, gui.active)
    BY <1>2 DEF Begun, GUI
<1>4. c \in Command /\ c.do = "start" /\ c.newest
    BY UnknownState DEF Command
<1>5. Send(i, "start") = j
    BY <1>3 DEF Send, GUI
<1>6. i \in GUI /\ i.active /\ i.cached = Unknown /\ i.tx = h.tx
    BY <1>3, UnknownState DEF GUI
<1>. HIDE DEF i, c
<1>7. o \in Seq(Command) /\ Resumed(o, gui.active)
    BY <1>3, OutdatedKeeps, OutdatedResumes
<1>. HIDE DEF o
<1>8. /\ q \in Seq(Command) /\ q # << >> /\ Resumed(q, gui.active)
      /\ q[Len(q)] = c
    BY <1>3, <1>4, <1>7, AppendResumes
<1>. HIDE DEF q
<1>9. j \in GUI /\ j.sent = q /\ j.active /\ j.issued /\ j.cached = Unknown /\ j.tx = h.tx
    BY <1>6, <1>8 DEF GUI
<1>. HIDE DEF j
<1>10. Begun(j)
    BY <1>4, <1>8, <1>9 DEF Begun, Newest
<1>11. Unkeyed(j, g)
    BY <1>2, <1>9 DEF Unkeyed, Unknown
<1>. QED
    BY <1>1, <1>5, <1>10, <1>11 DEF Unkeyed

LEMMA TransceiverFrequencyTells ==
    ASSUME gui \in GUI, NEW g, Begun(g), NEW f \in Int
    PROVE  Begun(TransceiverFrequency(g, f)) /\ Unkeyed(TransceiverFrequency(g, f), g)
<1>. DEFINE c == [g.cached EXCEPT !.online = TRUE, !.freq = f]
<1>1. c \in State /\ c.ptt = g.cached.ptt
    BY DEF Begun, GUI, State
<1>2. [g EXCEPT !.cached.online = TRUE, !.cached.freq = f] = [g EXCEPT !.cached = c]
    BY DEF Begun, GUI
<1>. HIDE DEF c
<1>. QED
    BY <1>1, <1>2, CachedTells DEF TransceiverFrequency, Unkeyed

LEMMA TransceiverTxFrequencyTells ==
    ASSUME gui \in GUI, NEW g, Begun(g), NEW f \in Int
    PROVE  LET h == TransceiverTxFrequency(g, f) IN Begun(h) /\ Unkeyed(h, g)
<1>. DEFINE c == [g.cached EXCEPT !.online = TRUE, !.tx = f, !.split = SplitIs(f # 0)]
<1>1. c \in State /\ c.ptt = g.cached.ptt
    BY DEF Begun, GUI, State, SplitIs
<1>2. [g EXCEPT !.cached.online = TRUE, !.cached.tx = f, !.cached.split = SplitIs(f # 0)]
        = [g EXCEPT !.cached = c]
    BY DEF Begun, GUI
<1>. HIDE DEF c
<1>. QED
    BY <1>1, <1>2, CachedTells DEF TransceiverTxFrequency, Unkeyed

LEMMA TransceiverPttTells ==
    ASSUME gui \in GUI, NEW g, Begun(g), NEW b \in BOOLEAN
    PROVE  Begun(TransceiverPtt(g, b)) /\ TransceiverPtt(g, b).cached.ptt = b
<1>. DEFINE c == [g.cached EXCEPT !.online = TRUE, !.ptt = b]
<1>1. c \in State /\ c.ptt = b
    BY DEF Begun, GUI, State
<1>2. [g EXCEPT !.cached.online = TRUE, !.cached.ptt = b] = [g EXCEPT !.cached = c]
    BY DEF Begun, GUI
<1>. HIDE DEF c
<1>. QED
    BY <1>1, <1>2, CachedTells DEF TransceiverPtt

LEMMA SetRigTells ==
    ASSUME gui \in GUI, NEW g, Begun(g)
    PROVE  Begun(SetRig(g)) /\ Unkeyed(SetRig(g), g)
<1>. DEFINE h == OpenRig(g, FALSE)
            i == TransceiverTxFrequency(h, h.txNominal)
            j == TransceiverFrequency(i, h.nominal)
<1>1. Begun(h) /\ Unkeyed(h, g)
    BY OpenRigTells
<1>2. SetRig(g) = g \/ SetRig(g) = j
    BY DEF SetRig
<1>. HIDE DEF h
<1>3. h.txNominal \in Int /\ h.nominal \in Int
    BY <1>1 DEF Begun, GUI
<1>4. Begun(i) /\ Unkeyed(i, h)
    BY <1>1, <1>3, TransceiverTxFrequencyTells
<1>. HIDE DEF i
<1>5. Begun(j) /\ Unkeyed(j, i)
    BY <1>3, <1>4, TransceiverFrequencyTells
<1>. HIDE DEF j
<1>. QED
    BY <1>1, <1>2, <1>4, <1>5 DEF Unkeyed

LEMMA NominalTells ==
    ASSUME NEW g, Begun(g), NEW f \in Int
    PROVE  Begun(Nominal(g, f)) /\ Unkeyed(Nominal(g, f), g)
<1>. DEFINE n == IF splitMode = "none" THEN f ELSE TxOf(f)
            h == [g EXCEPT !.nominal = f, !.txNominal = n]
<1>1. n \in Int
    BY TxOfType
<1>2. Nominal(g, f) = h
    BY DEF Nominal
<1>. HIDE DEF n
<1>3. /\ h \in GUI /\ h.sent = g.sent /\ h.active = g.active /\ h.issued = g.issued
      /\ h.cached = g.cached /\ h.tx = g.tx
    BY <1>1 DEF Begun, GUI
<1>. HIDE DEF h
<1>4. Begun(h)
    BY <1>3, BegunStill
<1>. QED
    BY <1>2, <1>3, <1>4 DEF Unkeyed

(* Signals from the rig.  The cache keeps its own PTT.                     *)
LEMMA FollowRigTells ==
    ASSUME NEW g, Begun(g), NEW s \in State
    PROVE  LET h == FollowRig(g, s) IN
           /\ Begun(h) /\ h.tx = g.tx /\ h.cached = g.cached
           /\ h.active = g.active /\ h.issued = g.issued /\ h.reported = s
<1>. DEFINE h == FollowRig(g, s)
<1>1. /\ h \in GUI /\ h.sent = g.sent /\ h.active = g.active
      /\ h.issued = g.issued /\ h.cached = g.cached
      /\ h.tx = g.tx /\ h.reported = s
    BY FollowRigKeeps DEF Begun
<1>. HIDE DEF h
<1>2. Begun(h)
    BY <1>1, BegunStill
<1>. QED
    BY <1>1, <1>2 DEF h

LEMMA FollowUpdateTells ==
    ASSUME gui \in GUI, Begun(gui), ~gui.issued, NEW u \in Signal
    PROVE  LET h == FollowUpdate(gui, u) IN
           /\ Begun(h) /\ Unkeyed(h, gui) /\ ~h.issued
           /\ h.active => /\ h.cached.freq = u.state.freq
                          /\ u.newest => h.reported = u.state
<1>. DEFINE s == u.state
            c == [s EXCEPT !.split = SplitIs(@ = "on"), !.tx = gui.cached.tx,
                           !.ptt = gui.cached.ptt]
            h == [gui EXCEPT !.cached = c]
            i == IF s.online THEN h ELSE CloseRig(h)
            j == FollowRig(i, s)
<1>1. s \in State
    BY DEF Signal
<1>2. FollowUpdate(gui, u) = IF u.newest THEN j ELSE i
    BY Zenon DEF FollowUpdate, Follow
<1>3. c \in State /\ c.ptt = gui.cached.ptt /\ c.freq = s.freq
    BY <1>1 DEF GUI, State, SplitIs
<1>. HIDE DEF c
<1>4. /\ h \in GUI /\ h.sent = gui.sent /\ h.active = gui.active
      /\ h.issued = gui.issued /\ h.cached = c /\ h.tx = gui.tx
    BY <1>3 DEF GUI
<1>. HIDE DEF h
<1>5. Begun(h)
    BY <1>3, <1>4, BegunStill
<1>6. CloseRig(h).issued = h.issued
    BY <1>4 DEF CloseRig, GUI
<1>7. /\ Begun(i) /\ i.cached = c /\ i.tx = gui.tx /\ ~i.issued
    BY <1>4, <1>5, <1>6, CloseRigTells
<1>. HIDE DEF i
<1>8. /\ Begun(j) /\ j.cached = c /\ j.tx = gui.tx /\ ~j.issued /\ j.reported = s
    BY <1>1, <1>7, FollowRigTells
<1>. HIDE DEF j
<1>. QED
    BY <1>2, <1>3, <1>7, <1>8 DEF Unkeyed

LEMMA RigFailureTells ==
    ASSUME gui \in GUI, Begun(gui)
    PROVE  \A visible \in BOOLEAN :
           LET h == RigFailure(gui, visible) IN
           /\ Begun(h) /\ ~h.active /\ h.cached = gui.cached
           /\ h.tx \in {gui.tx, "release"}
<1>. DEFINE c == CloseRig(gui)
            x == IF c.tx = "transmit" THEN "release" ELSE c.tx
            h == [c EXCEPT !.tx = x]
            i == [h EXCEPT !.reopen = TRUE, !.first = FALSE]
            j == [h EXCEPT !.box = TRUE]
<1>1. Begun(c) /\ ~c.active /\ c.tx = gui.tx /\ c.cached = gui.cached
    BY CloseRigTells
<1>2. \A visible \in BOOLEAN : RigFailure(gui, visible) \in {c, i, j}
    BY Zenon DEF RigFailure, TellFailure
<1>. HIDE DEF c
<1>3. c \in GUI
    BY <1>1 DEF Begun
<1>4. x \in {gui.tx, "release"} /\ x \in {"receive", "transmit", "release"}
    BY <1>1, <1>3 DEF GUI
<1>. HIDE DEF x
<1>5. /\ h \in GUI /\ h.sent = c.sent /\ h.active = c.active
      /\ h.issued = c.issued /\ h.cached = c.cached /\ h.tx = x
    BY <1>3, <1>4 DEF GUI
<1>. HIDE DEF h
<1>6. /\ i \in GUI /\ i.sent = c.sent /\ i.active = c.active
      /\ i.issued = c.issued /\ i.cached = c.cached /\ i.tx = x
      /\ j \in GUI /\ j.sent = c.sent /\ j.active = c.active
      /\ j.issued = c.issued /\ j.cached = c.cached /\ j.tx = x
    BY <1>5 DEF GUI
<1>. HIDE DEF i, j
<1>7. Begun(i) /\ Begun(j)
    BY <1>1, <1>6, BegunStill
<1>. QED
    BY <1>1, <1>2, <1>4, <1>6, <1>7

(* A change of a flag, as it happens before or after the commands.         *)
Flagged(h, g) ==
    /\ Begun(h)
    /\ h.cached = g.cached /\ h.reported = g.reported
    /\ h.issued = g.issued /\ h.active = g.active

LEMMA TxTells ==
    ASSUME NEW g, Begun(g), NEW x \in {"receive", "transmit", "release"}
    PROVE  Flagged([g EXCEPT !.tx = x], g) /\ [g EXCEPT !.tx = x].tx = x
<1>. DEFINE h == [g EXCEPT !.tx = x]
<1>1. /\ h \in GUI /\ h.sent = g.sent /\ h.cached = g.cached /\ h.reported = g.reported
      /\ h.issued = g.issued /\ h.active = g.active /\ h.tx = x
    BY DEF Begun, GUI
<1>. HIDE DEF h
<1>2. Begun(h)
    BY <1>1, BegunStill
<1>. QED
    BY <1>1, <1>2 DEF h, Flagged

LEMMA ReopenTells ==
    ASSUME NEW g, Begun(g)
    PROVE  Flagged([g EXCEPT !.reopen = FALSE], g) /\ [g EXCEPT !.reopen = FALSE].tx = g.tx
<1>. DEFINE h == [g EXCEPT !.reopen = FALSE]
<1>1. /\ h \in GUI /\ h.sent = g.sent /\ h.cached = g.cached /\ h.reported = g.reported
      /\ h.issued = g.issued /\ h.active = g.active /\ h.tx = g.tx
    BY DEF Begun, GUI
<1>. HIDE DEF h
<1>2. Begun(h)
    BY <1>1, BegunStill
<1>. QED
    BY <1>1, <1>2 DEF h, Flagged

LEMMA BoxTells ==
    ASSUME NEW g, Begun(g), NEW a \in BOOLEAN
    PROVE  LET h == [g EXCEPT !.box = FALSE, !.first = TRUE, !.reopen = a] IN
           Flagged(h, g) /\ h.tx = g.tx
<1>. DEFINE h == [g EXCEPT !.box = FALSE, !.first = TRUE, !.reopen = a]
<1>1. /\ h \in GUI /\ h.sent = g.sent /\ h.cached = g.cached /\ h.reported = g.reported
      /\ h.issued = g.issued /\ h.active = g.active /\ h.tx = g.tx
    BY DEF Begun, GUI
<1>. HIDE DEF h
<1>2. Begun(h)
    BY <1>1, BegunStill
<1>. QED
    BY <1>1, <1>2 DEF h, Flagged

(* A number is issued with a command, unless none is needed.               *)
LEMMA SendIssues ==
    ASSUME NEW g \in GUI, NEW do
    PROVE  Send(g, do).issued
BY DEF Send, GUI

LEMMA TransceiverPttIssues ==
    ASSUME NEW g \in GUI, NEW b \in BOOLEAN
    PROVE  TransceiverPtt(g, b).issued
<1>. DEFINE h == [g EXCEPT !.cached.online = TRUE, !.cached.ptt = b]
<1>1. h \in GUI
    BY DEF GUI, State
<1>. HIDE DEF h
<1>2. Send(h, "set").issued
    BY <1>1, SendIssues
<1>. QED
    BY <1>2, Zenon DEF TransceiverPtt, h

LEMMA OpenRigIssues ==
    ASSUME NEW g \in GUI, Begun(g), NEW force \in BOOLEAN, gui \in GUI
    PROVE  OpenRig(g, force) = g \/ OpenRig(g, force).issued
<1>. DEFINE h == CloseRig(g)
            i == [h EXCEPT !.active = TRUE, !.cached = Unknown]
<1>1. OpenRig(g, force) = g \/ OpenRig(g, force) = Send(i, "start")
    BY DEF OpenRig
<1>2. h \in GUI
    BY CloseRigTells DEF Begun
<1>. HIDE DEF h
<1>3. i \in GUI
    BY <1>2, UnknownState DEF GUI
<1>. HIDE DEF i
<1>. QED
    BY <1>1, <1>3, SendIssues

LEMMA SetRigIssues ==
    ASSUME NEW g \in GUI, Begun(g), gui \in GUI
    PROVE  SetRig(g) = g \/ SetRig(g).issued
<1>. DEFINE h == OpenRig(g, FALSE)
            i == TransceiverTxFrequency(h, h.txNominal)
            j == [i EXCEPT !.cached.online = TRUE, !.cached.freq = h.nominal]
<1>1. Begun(h)
    BY OpenRigTells
<1>2. SetRig(g) = g \/ SetRig(g) = Send(j, "set")
    BY DEF SetRig, TransceiverFrequency
<1>. HIDE DEF h
<1>3. h.txNominal \in Int /\ h.nominal \in Int
    BY <1>1 DEF Begun, GUI
<1>4. i \in GUI
    BY <1>1, <1>3, TransceiverTxFrequencyTells DEF Begun
<1>. HIDE DEF i
<1>5. j \in GUI
    BY <1>3, <1>4 DEF GUI, State
<1>. HIDE DEF j
<1>. QED
    BY <1>2, <1>5, SendIssues

LEMMA TransceiverTxFrequencyIssues ==
    ASSUME NEW g \in GUI, NEW f \in Int, splitMode # "none"
    PROVE  TransceiverTxFrequency(g, f).issued
<1>. DEFINE h == [g EXCEPT !.cached.online = TRUE, !.cached.tx = f,
                           !.cached.split = SplitIs(f # 0)]
<1>1. h \in GUI
    BY DEF GUI, State, SplitIs
<1>. HIDE DEF h
<1>2. Send(h, "set").issued
    BY <1>1, SendIssues
<1>. QED
    BY <1>2, Zenon DEF TransceiverTxFrequency, h

LEMMA SetXitTells ==
    ASSUME gui \in GUI, NEW g, Begun(g)
    PROVE  LET h == SetXit(g) IN
           /\ Begun(h) /\ Unkeyed(h, g)
           /\ h = g \/ h.issued
<1>. DEFINE n == TxOf(g.nominal)
            h == [g EXCEPT !.txNominal = n]
<1>1. n \in Int
    BY TxOfType DEF Begun, GUI
<1>2. \/ SetXit(g) = g
      \/ splitMode # "none" /\ SetXit(g) = TransceiverTxFrequency(h, h.txNominal)
    BY DEF SetXit
<1>. HIDE DEF n
<1>3. /\ h \in GUI /\ h.sent = g.sent /\ h.active = g.active /\ h.issued = g.issued
      /\ h.cached = g.cached /\ h.txNominal = n /\ h.tx = g.tx
    BY <1>1 DEF Begun, GUI
<1>. HIDE DEF h
<1>4. Begun(h)
    BY <1>3, BegunStill
<1>5. /\ Begun(TransceiverTxFrequency(h, n)) /\ Unkeyed(TransceiverTxFrequency(h, n), h)
      /\ splitMode # "none" => TransceiverTxFrequency(h, n).issued
    BY <1>1, <1>3, <1>4, TransceiverTxFrequencyTells, TransceiverTxFrequencyIssues
<1>6. SetXit(g) = g \/ (splitMode # "none" /\ SetXit(g) = TransceiverTxFrequency(h, n))
    BY <1>2, <1>3
<1>. QED
    BY <1>1, <1>3, <1>5, <1>6 DEF Unkeyed

-----------------------------------------------------------------------------
(* The invariant.                                                          *)

(* A rig that is connected has answered the newest command, or will.       *)
NewestIsAnswered ==
    /\ ~gui.issued
    /\ Resumed(toRig, TRUE)
    /\ gui.active =>
         IF toRig = << >> THEN rig.newest \/ ~rig.requested.online
                          ELSE Newest(toRig, gui.cached.ptt)

(* The GUI thread knows of a PTT that is on.                               *)
KeyingIsKnown ==
    /\ gui.cached.ptt => gui.tx # "receive"
    /\ gui.active /\ toRig = << >> => (radio.ptt => gui.cached.ptt)
    /\ radio.ptt => rig.requested.ptt

(* It learns of a failure of the rig that is connected.                    *)
FailureIsTold ==
    Connected /\ rig.failed => HasFailure(toGui) \/ HasFailure(out)

(* What the object has last said of itself, as it would say it now.        *)
Said(r) == Emitted([r EXCEPT !.actual = r.last])

(* It is the last of the signals on their way, or taken in.                *)
ToldTo(g, events, signals, said) ==
    IF signals # << >> THEN signals[Len(signals)] = said
    ELSE IF events # << >> THEN events[Len(events)] = said
    ELSE /\ said.what = "update"
         /\ g.reported = said.state
         /\ g.cached.freq = said.state.freq

UpdateIsTold ==
    gui.active /\ toRig = << >> /\ rig.requested.online /\ ~rig.failed =>
        ToldTo(gui, toGui, out, Said(rig))

Told ==
    /\ NewestIsAnswered
    /\ KeyingIsKnown
    /\ FailureIsTold
    /\ Sound(rig, radio)
    /\ UpdateIsTold

LEMMA InitIsTold == Init => Told
<1>. SUFFICES ASSUME Init PROVE Told
    OBVIOUS
<1>. DEFINE c == [do |-> "start", state |-> Unknown, newest |-> TRUE]
<1>1. /\ toRig = <<c>> /\ rig = NewRig /\ out = << >> /\ ~gui.issued
      /\ ~gui.cached.ptt /\ ~radio.ptt
    BY DEF Init, Unknown
<1>2. /\ toRig # << >> /\ Len(toRig) = 1 /\ toRig[1] = c /\ DOMAIN toRig = {1}
    BY <1>1
<1>3. c.do = "start" /\ c.newest
    OBVIOUS
<1>. HIDE DEF c
<1>4. NewestIsAnswered
    BY <1>1, <1>2, <1>3 DEF NewestIsAnswered, Resumed, Newest
<1>5. ~Connected
    BY <1>2, <1>3 DEF Connected
<1>6. Sound(rig, radio)
    BY <1>1 DEF Sound, Blank, NewRig, Unknown
<1>. QED
    BY <1>1, <1>2, <1>4, <1>5, <1>6 DEF Told, KeyingIsKnown, FailureIsTold, UpdateIsTold

(* What is said does not depend on the rest of the state.                  *)
LEMMA SaidStays ==
    ASSUME splitMode' = splitMode
    PROVE  Said(rig)' = Said(rig')
BY Zenon DEF Said, Emitted

-----------------------------------------------------------------------------
(* The steps of the GUI thread and of the users.                           *)

LEMMA ToldByReturn ==
    ASSUME IInv, Told, NEW g, Begun(g), NEW events \in Seq(Signal), Return(g, events),
           g.cached.ptt => g.tx # "receive",
           g.active /\ HasFailure(toGui) => HasFailure(events),
           g.active /\ ~g.issued /\ toRig = << >> /\ rig.requested.online /\ ~rig.failed
             => ToldTo(g, events, out, Said(rig))
    PROVE  Told'
<1>. DEFINE o == IF g.issued THEN Outdated(toRig) ELSE toRig
<1>1. /\ g \in GUI /\ g.issued \in BOOLEAN /\ g.active \in BOOLEAN /\ g.sent \in Seq(Command)
      /\ Resumed(g.sent, gui.active) /\ gui.active \in BOOLEAN
      /\ toRig \in Seq(Command) /\ Resumed(toRig, TRUE)
    BY DEF Begun, GUI, IInv, TypeOK, Told, NewestIsAnswered
<1>2. /\ gui'.active = g.active /\ gui'.cached = g.cached /\ gui'.tx = g.tx
      /\ gui'.reported = g.reported /\ gui'.issued = FALSE
      /\ toRig' = o \o g.sent /\ radio' = radio /\ splitMode' = splitMode
    BY <1>1 DEF Return, GUI
<1>3. /\ rig \in Rig /\ rig' \in Rig
      /\ SameObject(rig', rig) /\ rig'.last = rig.last /\ rig'.actual = rig.actual
      /\ SameNews(rig', [rig EXCEPT !.newest = rig'.newest])
      /\ ~g.issued => rig' = rig
    BY DEF Return, IInv, TypeOK, Rig, SameObject, SameNews
<1>4. /\ o \in Seq(Command) /\ Resumed(o, TRUE)
      /\ AllSet(o) => AllSet(toRig)
      /\ o = << >> <=> toRig = << >>
      /\ o # << >> => o[Len(o)].do = toRig[Len(toRig)].do
    BY <1>1, OutdatedKeeps, OutdatedResumes
<1>. HIDE DEF o
<1>5. gui.active /\ o # << >> => o[Len(o)].do # "stop"
    BY <1>4 DEF Told, NewestIsAnswered, Newest
<1>6. /\ Resumed(o \o g.sent, TRUE)
      /\ AllSet(o \o g.sent) => AllSet(o) /\ AllSet(g.sent)
      /\ o \o g.sent = << >> <=> o = << >> /\ g.sent = << >>
      /\ g.sent # << >> => (o \o g.sent)[Len(o \o g.sent)] = g.sent[Len(g.sent)]
    BY <1>1, <1>4, <1>5, ConcatResumes
<1>7. g.active /\ g.issued => g.sent # << >> /\ Newest(toRig', g.cached.ptt) /\ toRig' # << >>
    BY <1>2, <1>6 DEF Begun, Newest
<1>8. g.active /\ ~g.issued =>
        gui.active /\ toRig' = toRig /\ g.cached.ptt = gui.cached.ptt
    <2>. SUFFICES ASSUME g.active, ~g.issued
                  PROVE  gui.active /\ toRig' = toRig /\ g.cached.ptt = gui.cached.ptt
        OBVIOUS
    <2>1. gui.active /\ g.sent = << >> /\ g.cached.ptt = gui.cached.ptt
        BY DEF Begun
    <2>2. o \o << >> = o
        BY <1>4
    <2>. QED
        BY <1>2, <2>1, <2>2 DEF o
<1>9. NewestIsAnswered'
    <2>1. Resumed(toRig', TRUE)
        BY <1>2, <1>6
    <2>2. CASE g.active /\ g.issued
        BY <1>2, <1>7, <2>1, <2>2 DEF NewestIsAnswered
    <2>3. CASE g.active /\ ~g.issued
        BY <1>2, <1>3, <1>8, <2>1, <2>3 DEF NewestIsAnswered, Told
    <2>4. CASE ~g.active
        BY <1>2, <2>1, <2>4 DEF NewestIsAnswered
    <2>. QED
        BY <1>1, <2>2, <2>3, <2>4
<1>10. KeyingIsKnown'
    <2>1. gui'.cached.ptt => gui'.tx # "receive"
        BY <1>2
    <2>2. radio'.ptt => rig'.requested.ptt
        BY <1>2, <1>3 DEF SameObject, Told, KeyingIsKnown
    <2>3. gui'.active /\ toRig' = << >> => (radio'.ptt => gui'.cached.ptt)
        BY <1>1, <1>2, <1>7, <1>8 DEF Told, KeyingIsKnown
    <2>. QED
        BY <2>1, <2>2, <2>3 DEF KeyingIsKnown
<1>11. FailureIsTold'
    <2>. SUFFICES ASSUME Connected', rig'.failed
                  PROVE  HasFailure(toGui') \/ HasFailure(out')
        BY DEF FailureIsTold, HasFailure
    <2>1. g.active /\ AllSet(toRig')
        BY <1>2 DEF Connected, AllSet
    <2>2. AllSet(toRig) /\ AllSet(g.sent)
        BY <1>2, <1>4, <1>6, <2>1
    <2>3. gui.active
        <3>1. CASE ~g.issued
            BY <1>8, <2>1, <3>1
        <3>2. CASE g.issued
            <4>1. g.sent # << >>
                BY <1>7, <2>1, <3>2
            <4>2. 1 \in DOMAIN g.sent
                BY <1>1, <4>1
            <4>3. g.sent[1].do = "set"
                BY <2>2, <4>2 DEF AllSet
            <4>. QED
                BY <1>1, <4>2, <4>3 DEF Resumed
        <3>. QED
            BY <3>1, <3>2
    <2>4. HasFailure(events) \/ HasFailure(out)
        BY <1>3, <2>1, <2>2, <2>3 DEF Told, FailureIsTold, Connected, AllSet, SameObject
    <2>5. out \in Seq(Signal)
        BY DEF IInv, TypeOK
    <2>6. /\ toGui' = IF g.issued THEN Outdated(events) ELSE events
          /\ out' = IF g.issued THEN Outdated(out) ELSE out
        BY DEF Return
    <2>. QED
        BY <2>4, <2>5, <2>6, OutdatedTells
<1>12. Sound(rig, radio)'
    <2>1. Sound(rig', radio')
        <3>1. Sound(rig, radio)
            BY DEF Told
        <3>2. /\ rig'.next = rig.next /\ rig'.retries = rig.retries
              /\ rig'.signalled = rig.signalled /\ rig'.last = rig.last
              /\ rig'.actual = rig.actual /\ rig'.requested = rig.requested
              /\ rig'.failed = rig.failed /\ radio' = radio
            BY <1>2 DEF Return, IInv, TypeOK, Rig
        <3>. QED
            BY <3>1, <3>2 DEF Sound, Steady, Blank, SplitAgrees
    <2>. QED
        BY <1>2, <2>1 DEF Sound, Steady, Blank, SplitAgrees
<1>13. UpdateIsTold'
    <2>. SUFFICES ASSUME gui'.active, toRig' = << >>, rig'.requested.online, ~rig'.failed
                  PROVE  ToldTo(gui', toGui', out', Said(rig)')
        BY DEF UpdateIsTold, ToldTo
    <2>1. g.active /\ ~g.issued
        BY <1>1, <1>2, <1>7
    <2>2. ToldTo(g, events, out, Said(rig))
        BY <1>3, <1>8, <2>1 DEF SameObject
    <2>3. Said(rig)' = Said(rig)
        BY <1>2, <1>3, <2>1, SaidStays
    <2>4. toGui' = events /\ out' = out
        BY <2>1 DEF Return
    <2>. QED
        BY <1>2, <2>2, <2>3, <2>4 DEF ToldTo
<1>. QED
    BY <1>9, <1>10, <1>11, <1>12, <1>13 DEF Told

LEMMA GuiHasBegun ==
    ASSUME IInv, Told
    PROVE  /\ Begun(gui) /\ gui \in GUI /\ ~gui.issued
           /\ gui.cached.ptt => gui.tx # "receive"
<1>1. gui \in GUI /\ gui.sent = << >> /\ ~gui.issued
    BY DEF IInv, TypeOK, CommandsInOrder, Told, NewestIsAnswered
<1>2. Resumed(<< >>, gui.active)
    BY DEF Resumed
<1>. QED
    BY <1>1, <1>2 DEF Begun, Told, KeyingIsKnown

(* A handler that gives a new number, or changes nothing that was told.    *)
Quiet(g) == g.issued \/ (g.cached = gui.cached /\ g.reported = gui.reported)

LEMMA ToldByHandler ==
    ASSUME IInv, Told, NEW g, Begun(g), Return(g, toGui), Quiet(g),
           g.cached.ptt => g.tx # "receive"
    PROVE  Told'
<1>1. toGui \in Seq(Signal)
    BY DEF IInv, TypeOK
<1>2. ASSUME g.active, ~g.issued, toRig = << >>, rig.requested.online, ~rig.failed
      PROVE  ToldTo(g, toGui, out, Said(rig))
    <2>1. gui.active
        BY <1>2 DEF Begun
    <2>2. ToldTo(gui, toGui, out, Said(rig))
        BY <1>2, <2>1 DEF Told, UpdateIsTold
    <2>. QED
        BY <1>2, <2>2 DEF ToldTo, Quiet
<1>. QED
    BY <1>1, <1>2, ToldByReturn

LEMMA UserTold ==
    ASSUME IInv, Told,
           \/ \E f \in Freq : Qsy(f)
           \/ Key \/ StopTx \/ StopTx2
           \/ ReadFreq \/ TestCat \/ RigOpen
           \/ \E changed \in BOOLEAN : AcceptSettings(changed)
           \/ \E retry \in BOOLEAN : AnswerBox(retry)
    PROVE  Told'
<1>1. /\ Begun(gui) /\ gui \in GUI /\ ~gui.issued
      /\ gui.cached.ptt => gui.tx # "receive"
    BY GuiHasBegun
<1>2. ASSUME NEW f \in Freq, Qsy(f) PROVE Told'
    <2>. DEFINE n == Nominal(gui, f)
                g == SetRig(n)
    <2>1. f \in Int
        BY FrequencyAssumption
    <2>2. /\ Begun(n) /\ Unkeyed(n, gui)
        BY <1>1, <2>1, NominalTells
    <2>3. n.cached = gui.cached /\ n.reported = gui.reported
        BY <1>1 DEF Nominal, GUI
    <2>4. Return(g, toGui)
        BY <1>2 DEF Qsy
    <2>. HIDE DEF n
    <2>5. n \in GUI
        BY <2>2 DEF Begun
    <2>6. /\ Begun(g) /\ Unkeyed(g, n)
          /\ g = n \/ g.issued
        BY <1>1, <2>2, <2>5, SetRigTells, SetRigIssues
    <2>. HIDE DEF g
    <2>7. Quiet(g) /\ (g.cached.ptt => g.tx # "receive")
        BY <1>1, <2>2, <2>3, <2>6 DEF Quiet, Unkeyed
    <2>. QED
        BY <2>4, <2>6, <2>7, ToldByHandler
<1>3. CASE Key
    <2>. DEFINE x == SetXit(SetRig(gui))
                g == TransceiverPtt(x, TRUE)
                h == [g EXCEPT !.tx = "transmit"]
    <2>1. Begun(SetRig(gui))
        BY <1>1, SetRigTells
    <2>2. Begun(x)
        BY <1>1, <2>1, SetXitTells
    <2>3. Return(h, toGui)
        BY <1>3 DEF Key, Handler
    <2>. HIDE DEF x
    <2>4. Begun(g) /\ g.issued
        BY <1>1, <2>2, TransceiverPttTells, TransceiverPttIssues DEF Begun
    <2>. HIDE DEF g
    <2>5. Begun(h) /\ h.issued /\ h.tx = "transmit"
        BY <2>4, TxTells DEF Flagged
    <2>. HIDE DEF h
    <2>6. Quiet(h)
        BY <2>5 DEF Quiet
    <2>. QED
        BY <2>3, <2>5, <2>6, ToldByHandler
<1>4. CASE StopTx
    <2>. DEFINE h == [gui EXCEPT !.tx = "release"]
    <2>1. Return(h, toGui)
        BY <1>4 DEF StopTx, Handler
    <2>2. /\ Begun(h) /\ h.cached = gui.cached /\ h.reported = gui.reported
          /\ h.tx = "release"
        BY <1>1, TxTells DEF Flagged
    <2>. HIDE DEF h
    <2>3. Quiet(h)
        BY <2>2 DEF Quiet
    <2>. QED
        BY <2>1, <2>2, <2>3, ToldByHandler
<1>5. CASE StopTx2
    <2>. DEFINE g == TransceiverPtt(gui, FALSE)
                h == [g EXCEPT !.tx = "receive"]
    <2>1. Return(h, toGui)
        BY <1>5 DEF StopTx2, Handler
    <2>2. Begun(g) /\ g.issued /\ ~g.cached.ptt
        BY <1>1, TransceiverPttTells, TransceiverPttIssues
    <2>. HIDE DEF g
    <2>3. Begun(h) /\ h.issued /\ ~h.cached.ptt
        BY <2>2, TxTells DEF Flagged
    <2>. HIDE DEF h
    <2>4. Quiet(h)
        BY <2>3 DEF Quiet
    <2>. QED
        BY <2>1, <2>3, <2>4, ToldByHandler
<1>6. ASSUME NEW g, g = gui \/ g = [gui EXCEPT !.reopen = FALSE],
             NEW force \in BOOLEAN, Return(OpenRig(g, force), toGui)
      PROVE  Told'
    <2>. DEFINE h == OpenRig(g, force)
    <2>1. /\ Begun(g) /\ g.cached = gui.cached /\ g.reported = gui.reported
          /\ g.tx = gui.tx /\ g \in GUI
        BY <1>1, <1>6, ReopenTells DEF Flagged, Begun
    <2>2. Begun(h) /\ Unkeyed(h, g) /\ (h = g \/ h.issued)
        BY <1>1, <2>1, OpenRigTells, OpenRigIssues
    <2>3. Return(h, toGui)
        BY <1>6
    <2>. HIDE DEF h
    <2>4. Quiet(h) /\ (h.cached.ptt => h.tx # "receive")
        BY <1>1, <2>1, <2>2 DEF Quiet, Unkeyed
    <2>. QED
        BY <2>2, <2>3, <2>4, ToldByHandler
<1>7. CASE ReadFreq \/ TestCat \/ RigOpen
    BY <1>6, <1>7 DEF ReadFreq, TestCat, RigOpen, Handler
<1>8. ASSUME NEW retry \in BOOLEAN, AnswerBox(retry) PROVE Told'
    <2>. DEFINE b == gui.reopen \/ retry
                h == [gui EXCEPT !.box = FALSE, !.first = TRUE, !.reopen = b]
    <2>1. h = [gui EXCEPT !.box = FALSE, !.first = TRUE, !.reopen = @ \/ retry]
        BY <1>1 DEF GUI
    <2>2. b \in BOOLEAN
        OBVIOUS
    <2>. HIDE DEF b
    <2>3. Return(h, toGui)
        BY <1>8, <2>1 DEF AnswerBox, Handler
    <2>4. /\ Begun(h) /\ h.cached = gui.cached /\ h.reported = gui.reported
          /\ h.tx = gui.tx
        BY <1>1, <2>2, BoxTells DEF Flagged
    <2>. HIDE DEF h
    <2>5. Quiet(h)
        BY <2>4 DEF Quiet
    <2>. QED
        BY <1>1, <2>3, <2>4, <2>5, ToldByHandler
<1>9. ASSUME NEW changed \in BOOLEAN, AcceptSettings(changed) PROVE Told'
    <2>. DEFINE g == OpenRig(gui, changed)
                h == SetXit(g)
    <2>1. Return(h, toGui)
        BY <1>9 DEF AcceptSettings
    <2>2. Begun(g) /\ Unkeyed(g, gui) /\ (g = gui \/ g.issued)
        BY <1>1, OpenRigTells, OpenRigIssues
    <2>. HIDE DEF g
    <2>3. Begun(h) /\ Unkeyed(h, g) /\ (h = g \/ h.issued)
        BY <1>1, <2>2, SetXitTells
    <2>. HIDE DEF h
    <2>4. Quiet(h) /\ (h.cached.ptt => h.tx # "receive")
        BY <1>1, <2>2, <2>3 DEF Quiet, Unkeyed
    <2>. QED
        BY <2>1, <2>3, <2>4, ToldByHandler
<1>. QED
    BY <1>2, <1>3, <1>4, <1>5, <1>7, <1>8, <1>9

(* A signal is taken in; an update that was outdated is not the last.      *)
LEMMA GuiThreadTold ==
    ASSUME IInv, Told, GuiThread
    PROVE  Told'
<1>1. /\ Begun(gui) /\ gui \in GUI /\ ~gui.issued
      /\ gui.cached.ptt => gui.tx # "receive"
    BY GuiHasBegun
<1>2. toGui # << >> /\ toGui \in Seq(Signal)
    BY DEF IInv, TypeOK, GuiThread, HandleUpdate, HandleFailure
<1>. DEFINE u == Head(toGui)
            q == Tail(toGui)
<1>3. /\ u \in Signal /\ q \in Seq(Signal) /\ u = toGui[1]
      /\ Len(q) = Len(toGui) - 1 /\ Len(toGui) \in Nat /\ Len(toGui) > 0
      /\ \A i \in 1 .. Len(q) : q[i] = toGui[i + 1]
    BY <1>2, HeadTailProperties
<1>4. CASE HandleUpdate
    <2>. DEFINE g == FollowUpdate(gui, u)
    <2>1. u.what = "update" /\ Return(g, q)
        BY <1>4 DEF HandleUpdate
    <2>. HIDE DEF u, q
    <2>2. /\ Begun(g) /\ Unkeyed(g, gui) /\ ~g.issued
          /\ g.active => /\ g.cached.freq = u.state.freq
                         /\ u.newest => g.reported = u.state
        BY <1>1, <1>3, FollowUpdateTells
    <2>. HIDE DEF g
    <2>3. HasFailure(toGui) => HasFailure(q)
        <3>. SUFFICES ASSUME NEW i \in DOMAIN toGui, toGui[i].what = "failure"
                      PROVE  HasFailure(q)
            BY DEF HasFailure
        <3>1. i \in 1 .. Len(toGui) /\ i # 1
            BY <1>2, <1>3, <2>1
        <3>2. i - 1 \in 1 .. Len(q) /\ (i - 1) + 1 = i
            BY <1>3, <3>1
        <3>3. q[i - 1] = toGui[(i - 1) + 1] /\ i - 1 \in DOMAIN q
            BY <1>3, <3>2
        <3>4. q[i - 1].what = "failure"
            BY <3>2, <3>3
        <3>. QED
            BY <3>3, <3>4 DEF HasFailure
    <2>4. ASSUME g.active, ~g.issued, toRig = << >>, rig.requested.online, ~rig.failed
          PROVE  ToldTo(g, q, out, Said(rig))
        <3>1. gui.active
            BY <2>2, <2>4 DEF Begun
        <3>2. ToldTo(gui, toGui, out, Said(rig)) /\ rig.newest
            BY <2>4, <3>1 DEF Told, UpdateIsTold, NewestIsAnswered
        <3>3. out = << >> => toGui[Len(toGui)] = Said(rig)
            BY <1>2, <3>2 DEF ToldTo
        <3>4. CASE out # << >>
            BY <3>2, <3>4 DEF ToldTo
        <3>5. CASE out = << >> /\ q # << >>
            <4>1. Len(q) \in 1 .. Len(q) /\ Len(q) + 1 = Len(toGui)
                BY <1>3, <3>5
            <4>2. q[Len(q)] = toGui[Len(q) + 1]
                BY <1>3, <4>1
            <4>3. q[Len(q)] = Said(rig)
                BY <3>3, <3>5, <4>1, <4>2
            <4>. QED
                BY <3>5, <4>3 DEF ToldTo
        <3>6. CASE out = << >> /\ q = << >>
            <4>1. Len(toGui) = 1
                BY <1>3, <3>6
            <4>2. u = Said(rig)
                BY <1>3, <3>3, <3>6, <4>1
            <4>3. Said(rig).what = "update" => Said(rig).newest = rig.newest
                <5>1. [rig EXCEPT !.actual = rig.last].newest = rig.newest
                    BY DEF IInv, TypeOK, Rig
                <5>. QED
                    BY <5>1 DEF Said, Emitted
            <4>. QED
                BY <2>1, <2>2, <2>4, <3>2, <3>6, <4>2, <4>3 DEF ToldTo
        <3>. QED
            BY <3>4, <3>5, <3>6
    <2>5. g.cached.ptt => g.tx # "receive"
        BY <1>1, <2>2 DEF Unkeyed
    <2>. QED
        BY <1>3, <2>1, <2>2, <2>3, <2>4, <2>5, ToldByReturn
<1>5. CASE HandleFailure
    <2>0. PICK visible \in BOOLEAN : Return(RigFailure(gui, visible), q)
        BY <1>5 DEF HandleFailure
    <2>. DEFINE g == RigFailure(gui, visible)
    <2>1. Return(g, q)
        BY <2>0
    <2>. HIDE DEF q
    <2>2. /\ Begun(g) /\ ~g.active /\ g.cached = gui.cached
          /\ g.tx \in {gui.tx, "release"}
        BY <1>1, RigFailureTells
    <2>. HIDE DEF g
    <2>. QED
        BY <1>1, <1>3, <2>1, <2>2, ToldByReturn
<1>. QED
    BY <1>4, <1>5 DEF GuiThread

-----------------------------------------------------------------------------
(* The rig thread.                                                         *)

LEMMA SaidNow ==
    ASSUME NEW r \in Rig, r.last = r.actual
    PROVE  Said(r) = Emitted(r)
<1>1. [r EXCEPT !.actual = r.last] = r
    BY DEF Rig
<1>. QED
    BY <1>1 DEF Said

(* The command at hand and those that are left.                            *)
LEMMA ServeTells ==
    ASSUME IInv, Told, NEW do, Serve(do)
    PROVE  /\ Resumed(toRig', TRUE)
           /\ gui.active =>
                IF toRig' = << >>
                THEN /\ do # "stop" /\ Head(toRig).newest
                     /\ do = "set" => Head(toRig).state.ptt = gui.cached.ptt
                ELSE Newest(toRig', gui.cached.ptt)
           /\ gui.active /\ AllSet(toRig') => (do = "set" => Connected) /\ do # "stop"
<1>1. /\ toRig \in Seq(Command) /\ toRig # << >> /\ Head(toRig).do = do
      /\ toRig' = Tail(toRig) /\ Resumed(toRig, TRUE)
    BY DEF Serve, IInv, TypeOK, Told, NewestIsAnswered
<1>2. /\ Resumed(toRig', TRUE)
      /\ toRig' = << >> => Head(toRig) = toRig[Len(toRig)]
      /\ toRig' # << >> => toRig'[Len(toRig')] = toRig[Len(toRig)]
      /\ AllSet(toRig') /\ do = "set" => AllSet(toRig)
      /\ AllSet(toRig') /\ do = "stop" => toRig' = << >>
    BY <1>1, TailResumes
<1>3. gui.active => Newest(toRig, gui.cached.ptt)
    BY <1>1 DEF Told, NewestIsAnswered
<1>4. gui.active =>
        IF toRig' = << >>
        THEN /\ do # "stop" /\ Head(toRig).newest
             /\ do = "set" => Head(toRig).state.ptt = gui.cached.ptt
        ELSE Newest(toRig', gui.cached.ptt)
    BY <1>1, <1>2, <1>3 DEF Newest
<1>. QED
    BY <1>2, <1>4 DEF Connected, AllSet

LEMMA ToldByAnswer ==
    ASSUME IInv, Told, NEW do \in {"start", "set"}, Serve(do),
           NEW t \in Handlings, Worked(t),
           Answers(t, Head(toRig).newest), Sound(t.rig, t.radio), Asked(t),
           t.rig.requested.online /\ t.rig.failed => do = "set" /\ rig.failed,
           t.radio.ptt => do = "set" /\ Head(toRig).state.ptt
    PROVE  Told'
<1>1. /\ rig' = t.rig /\ radio' = t.radio /\ out' = t.out
      /\ splitMode' = splitMode /\ gui' = gui /\ toGui' = toGui
    BY DEF Worked
<1>2. /\ Resumed(toRig', TRUE)
      /\ gui.active =>
           IF toRig' = << >>
           THEN /\ Head(toRig).newest
                /\ do = "set" => Head(toRig).state.ptt = gui.cached.ptt
           ELSE Newest(toRig', gui.cached.ptt)
      /\ gui.active /\ AllSet(toRig') => (do = "set" => Connected)
    BY ServeTells
<1>3. out = << >>
    BY DEF Serve
<1>4. NewestIsAnswered'
    BY <1>1, <1>2 DEF Told, NewestIsAnswered, Answers
<1>5. KeyingIsKnown'
    BY <1>1, <1>2 DEF Told, KeyingIsKnown, Asked
<1>6. FailureIsTold'
    <2>. SUFFICES ASSUME Connected', rig'.failed
                  PROVE  HasFailure(toGui') \/ HasFailure(out')
        BY DEF FailureIsTold, HasFailure
    <2>1. gui.active /\ AllSet(toRig')
        BY <1>1 DEF Connected, AllSet
    <2>2. CASE ~t.rig.requested.online
        BY <1>1, <2>2 DEF Answers
    <2>3. CASE t.rig.requested.online
        <3>1. Connected /\ rig.failed
            BY <1>1, <1>2, <2>1, <2>3
        <3>2. ~HasFailure(<< >>)
            BY DEF HasFailure
        <3>. QED
            BY <1>1, <1>3, <3>1, <3>2 DEF Told, FailureIsTold
    <2>. QED
        BY <2>2, <2>3
<1>7. Sound(rig, radio)'
    BY <1>1 DEF Sound, Steady, Blank, SplitAgrees
<1>8. UpdateIsTold'
    <2>. SUFFICES ASSUME rig'.requested.online
                  PROVE  ToldTo(gui', toGui', out', Said(rig)')
        BY DEF UpdateIsTold, ToldTo
    <2>1. t.rig \in Rig /\ t.rig.last = t.rig.actual
        BY <1>1 DEF Answers, Handlings
    <2>2. Said(rig)' = Said(t.rig)
        BY <1>1, SaidStays
    <2>3. Said(t.rig) = Emitted(t.rig)
        BY <2>1, SaidNow
    <2>4. t.out # << >> /\ t.out[Len(t.out)] = Emitted(t.rig)
        BY <1>1 DEF Answers
    <2>. QED
        BY <1>1, <2>2, <2>3, <2>4 DEF ToldTo
<1>. QED
    BY <1>4, <1>5, <1>6, <1>7, <1>8 DEF Told

LEMMA ServeStartTold ==
    ASSUME ~ReleaseFails, IInv, Told, ServeStart
    PROVE  Told'
<1>. PICK n \in {0, NeverFails} :
            MayFail(n, NeverFails)
         /\ Worked(Start(Handling(n), Head(toRig).newest, NeverFails))
    BY DEF ServeStart
<1>. DEFINE s == Handling(n)
            t == Start(s, Head(toRig).newest, NeverFails)
<1>1. Serve("start") /\ toRig # << >> /\ Head(toRig).do = "start"
    BY DEF ServeStart, Serve
<1>2. n \in Nat /\ NeverFails \in Nat
    BY DEF NeverFails
<1>3. s \in Handlings /\ s.radio = radio
    BY <1>2, HandlingIsTyped
<1>4. Head(toRig).newest \in BOOLEAN
    BY <1>1, HeadIsCommand DEF Command
<1>5. Worked(t)
    OBVIOUS
<1>6. ~radio.ptt
    <2>1. toRig \in Seq(Command) /\ Reset(toRig, ~rig.requested.online)
        BY DEF IInv, TypeOK, CommandsInOrder
    <2>2. 1 \in DOMAIN toRig /\ toRig[1].do = "start"
        BY <1>1, <2>1
    <2>3. ~rig.requested.online
        BY <2>1, <2>2 DEF Reset
    <2>. QED
        BY <2>3 DEF IInv, RigIsAtRest
<1>. HIDE DEF s
<1>7. /\ t \in Handlings /\ ~t.radio.ptt
      /\ Sound(t.rig, t.radio)
      /\ Answers(t, Head(toRig).newest)
      /\ t.rig.requested.online => ~t.rig.failed
    BY <1>2, <1>3, <1>4, <1>6, StartIsAtRest
<1>. HIDE DEF t
<1>. QED
    BY <1>1, <1>5, <1>7, ToldByAnswer DEF Asked

LEMMA ServeSetTold ==
    ASSUME ~ReleaseFails, IInv, Told, ServeSet
    PROVE  Told'
<1>. PICK n \in Accesses, m \in {0, NeverFails} :
            MayFail(n, m)
         /\ Worked(Set(Handling(n), Head(toRig).state, Head(toRig).newest, m))
    BY DEF ServeSet
<1>. DEFINE s == Handling(n)
            want == Head(toRig).state
            t == Set(s, want, Head(toRig).newest, m)
<1>1. Serve("set") /\ toRig # << >> /\ Head(toRig).do = "set"
    BY DEF ServeSet, Serve
<1>2. n \in Nat /\ m \in Nat
    BY DEF Accesses, NeverFails
<1>3. m > 1
    BY <1>2, MayFailType DEF NeverFails
<1>4. /\ s \in Handlings /\ ~s.threw /\ s.radio = radio /\ s.rig = rig
      /\ AtRest(s)
    BY <1>2, HandlingIsTyped
<1>5. Head(toRig).newest \in BOOLEAN /\ want \in State
    BY <1>1, HeadIsCommand DEF Command
<1>6. Worked(t)
    OBVIOUS
<1>7. Asked(s) /\ Sound(s.rig, s.radio)
    BY <1>4 DEF Asked, Told, KeyingIsKnown
<1>. HIDE DEF s
<1>8. /\ t \in Handlings /\ Asked(t) /\ (t.radio.ptt => want.ptt)
      /\ Sound(t.rig, t.radio)
      /\ Answers(t, Head(toRig).newest)
      /\ t.rig.requested.online => t.rig.failed = rig.failed
    BY <1>2, <1>3, <1>4, <1>5, <1>7, SetIsAtRest
<1>. HIDE DEF t
<1>. QED
    BY <1>1, <1>6, <1>8, ToldByAnswer

(* Nobody listens to an object that is stopped, and it is the last word to *)
(* none that is connected.                                                 *)
LEMMA ServeStopTold ==
    ASSUME ~ReleaseFails, IInv, Told, ServeStop
    PROVE  Told'
<1>. PICK m \in {0, NeverFails} :
            MayFail(NeverFails, m)
         /\ Worked([Shutdown(Handling(m), m) EXCEPT
                        !.out = << >>,
                        !.rig = [NewRig EXCEPT !.failed = Shutdown(Handling(m), m).rig.failed]])
    BY DEF ServeStop
<1>. DEFINE s == Handling(m)
            u == Shutdown(s, m)
            r == [NewRig EXCEPT !.failed = u.rig.failed]
            t == [u EXCEPT !.out = << >>, !.rig = r]
<1>1. Serve("stop")
    BY DEF ServeStop
<1>2. m \in Nat /\ NeverFails \in Nat
    BY DEF NeverFails
<1>3. m > 1
    BY <1>2, MayFailType DEF NeverFails
<1>4. s \in Handlings /\ AtRest(s)
    BY <1>2, HandlingIsTyped
<1>5. Worked(t)
    OBVIOUS
<1>. HIDE DEF s
<1>6. u \in Handlings /\ ~u.radio.ptt
    BY <1>2, <1>3, <1>4, ShutdownReleases DEF AtRest
<1>. HIDE DEF u
<1>7. ~r.requested.online /\ Blank(r)
    BY DEF NewRig, Unknown, Blank
<1>. HIDE DEF r
<1>8. t.rig = r /\ t.radio = u.radio /\ t.out = << >>
    BY <1>6 DEF Handlings
<1>. HIDE DEF t
<1>9. /\ ~rig'.requested.online /\ Blank(rig') /\ ~radio'.ptt
      /\ gui' = gui
    BY <1>5, <1>6, <1>7, <1>8 DEF Worked
<1>10. /\ Resumed(toRig', TRUE)
       /\ gui.active => toRig' # << >> /\ Newest(toRig', gui.cached.ptt) /\ ~AllSet(toRig')
    BY <1>1, ServeTells
<1>11. NewestIsAnswered'
    BY <1>9, <1>10 DEF Told, NewestIsAnswered
<1>12. KeyingIsKnown'
    BY <1>9, <1>10 DEF Told, KeyingIsKnown
<1>13. ~Connected'
    BY <1>9, <1>10 DEF Connected, AllSet
<1>14. Sound(rig, radio)'
    BY <1>9 DEF Sound, Blank
<1>. QED
    BY <1>9, <1>11, <1>12, <1>13, <1>14 DEF Told, FailureIsTold, UpdateIsTold

LEMMA HandleTimeoutTold ==
    ASSUME ~ReleaseFails, IInv, Told, HandleTimeout
    PROVE  Told'
<1>. PICK n \in {0, NeverFails}, m \in {0, NeverFails} :
            MayFail(n, m) /\ Worked(Poll(Handling(n), m))
    BY DEF HandleTimeout
<1>. DEFINE s == Handling(n)
            t == Poll(s, m)
<1>1. rig.polling /\ toRig' = toRig /\ out = << >>
    BY DEF HandleTimeout
<1>2. n \in Nat /\ m \in Nat
    BY DEF NeverFails
<1>3. m > 1
    BY <1>2, MayFailType DEF NeverFails
<1>4. /\ s \in Handlings /\ s.radio = radio /\ s.rig = rig /\ s.out = << >>
      /\ AtRest(s)
    BY <1>2, HandlingIsTyped
<1>5. Worked(t)
    OBVIOUS
<1>6. rig.requested.online
    BY <1>1 DEF IInv, RigIsAtRest
<1>7. Asked(s) /\ Sound(s.rig, s.radio)
    BY <1>4 DEF Asked, Told, KeyingIsKnown
<1>. HIDE DEF s
<1>8. /\ t \in Handlings
      /\ \/ t.radio = radio
         \/ ~t.radio.ptt
      /\ Asked(t) /\ Sound(t.rig, t.radio)
      /\ IF t.rig.requested.online
         THEN Polled(t, s) /\ t.rig.failed = rig.failed
         ELSE t.rig.failed /\ HasFailure(t.out)
    BY <1>1, <1>2, <1>3, <1>4, <1>6, <1>7, PollIsAtRest
<1>. HIDE DEF t
<1>9. /\ rig' = t.rig /\ radio' = t.radio /\ out' = t.out
      /\ splitMode' = splitMode /\ gui' = gui /\ toGui' = toGui
    BY <1>5 DEF Worked
<1>10. NewestIsAnswered'
    BY <1>1, <1>4, <1>6, <1>8, <1>9 DEF Told, NewestIsAnswered, Polled
<1>11. KeyingIsKnown'
    BY <1>1, <1>8, <1>9 DEF Told, KeyingIsKnown, Asked
<1>12. FailureIsTold'
    <2>. SUFFICES ASSUME Connected', rig'.failed
                  PROVE  HasFailure(toGui') \/ HasFailure(out')
        BY DEF FailureIsTold, HasFailure
    <2>1. Connected
        BY <1>1, <1>9 DEF Connected
    <2>2. CASE ~t.rig.requested.online
        BY <1>8, <1>9, <2>2
    <2>3. CASE t.rig.requested.online
        <3>1. ~HasFailure(<< >>)
            BY DEF HasFailure
        <3>. QED
            BY <1>1, <1>8, <1>9, <2>1, <2>3, <3>1 DEF Told, FailureIsTold
    <2>. QED
        BY <2>2, <2>3
<1>13. Sound(rig, radio)'
    BY <1>8, <1>9 DEF Sound, Steady, Blank, SplitAgrees
<1>14. UpdateIsTold'
    <2>. SUFFICES ASSUME gui'.active, toRig' = << >>, rig'.requested.online, ~rig'.failed
                  PROVE  ToldTo(gui', toGui', out', Said(rig)')
        BY DEF UpdateIsTold, ToldTo
    <2>1. ToldTo(gui, toGui, << >>, Said(rig)) /\ Polled(t, s)
        BY <1>1, <1>6, <1>8, <1>9 DEF Told, UpdateIsTold
    <2>2. Said(rig)' = Said(t.rig) /\ t.rig \in Rig
        BY <1>8, <1>9, SaidStays DEF Handlings
    <2>3. CASE /\ t.out = s.out /\ t.rig.last = s.rig.last
               /\ t.rig.wanted = s.rig.wanted
        <3>1. rig \in Rig
            BY DEF IInv, TypeOK
        <3>2. t.rig.newest = rig.newest
            BY <1>4, <2>1 DEF Polled
        <3>3. Said(t.rig) = Said(rig)
            <4>. DEFINE p == [t.rig EXCEPT !.actual = t.rig.last]
                        q == [rig EXCEPT !.actual = rig.last]
            <4>1. p.actual = q.actual /\ p.newest = q.newest /\ p.wanted = q.wanted
                BY <1>4, <2>2, <2>3, <3>1, <3>2 DEF Rig
            <4>. HIDE DEF p, q
            <4>2. Emitted(p) = Emitted(q)
                BY <4>1, Zenon DEF Emitted
            <4>. QED
                BY <4>2, Zenon DEF Said, p, q
        <3>. QED
            BY <1>4, <1>9, <2>1, <2>2, <2>3, <3>3
    <2>4. CASE /\ t.out # << >> /\ t.out[Len(t.out)] = Emitted(t.rig)
               /\ t.rig.last = t.rig.actual
        <3>1. Said(t.rig) = Emitted(t.rig)
            BY <2>2, <2>4, SaidNow
        <3>. QED
            BY <1>9, <2>2, <2>4, <3>1 DEF ToldTo
    <2>. QED
        BY <2>1, <2>3, <2>4 DEF Polled
<1>. QED
    BY <1>10, <1>11, <1>12, <1>13, <1>14 DEF Told

(* A signal that leaves a handler reaches the GUI thread if it listens.    *)
LEMMA EmitTold ==
    ASSUME IInv, Told, Emit
    PROVE  Told'
<1>1. out # << >> /\ out \in Seq(Signal) /\ toGui \in Seq(Signal)
    BY DEF IInv, TypeOK, Emit
<1>. DEFINE a == Append(toGui, Head(out))
            q == Tail(out)
<1>2. /\ out' = q /\ toGui' = IF Connected THEN a ELSE toGui
      /\ UNCHANGED <<splitMode, gui, toRig, rig, radio>>
    BY DEF Emit
<1>3. /\ Head(out) = out[1] /\ q \in Seq(Signal)
      /\ Len(q) = Len(out) - 1 /\ Len(out) \in Nat /\ Len(out) > 0
      /\ \A i \in 1 .. Len(q) : q[i] = out[i + 1]
      /\ Head(out) \in Signal
    BY <1>1, HeadTailProperties
<1>. HIDE DEF q
<1>4. /\ a # << >> /\ a[Len(a)] = Head(out)
    BY <1>1, <1>3, AppendIsLast
<1>5. NewestIsAnswered' /\ KeyingIsKnown'
    BY <1>2 DEF Told, NewestIsAnswered, KeyingIsKnown
<1>6. FailureIsTold'
    <2>. SUFFICES ASSUME Connected', rig'.failed
                  PROVE  HasFailure(toGui') \/ HasFailure(out')
        BY DEF FailureIsTold, HasFailure
    <2>1. Connected /\ rig.failed
        BY <1>2 DEF Connected
    <2>2. toGui' = a
        BY <1>2, <2>1
    <2>3. CASE HasFailure(toGui)
        BY <1>1, <1>3, <2>2, <2>3, AppendKeepsFailure
    <2>4. CASE HasFailure(out)
        <3>. PICK i \in DOMAIN out : out[i].what = "failure"
            BY <2>4 DEF HasFailure
        <3>1. CASE i = 1
            <4>1. Len(a) \in DOMAIN a
                BY <1>1, <1>3, <1>4, AppendProperties
            <4>2. a[Len(a)].what = "failure"
                BY <1>3, <1>4, <3>1
            <4>3. HasFailure(a)
                BY <4>1, <4>2, Zenon DEF HasFailure
            <4>. QED
                BY <2>2, <4>3
        <3>2. CASE i # 1
            <4>1. i - 1 \in 1 .. Len(q) /\ (i - 1) + 1 = i
                BY <1>1, <1>3, <3>2
            <4>2. q[i - 1] = out[(i - 1) + 1] /\ i - 1 \in DOMAIN q
                BY <1>3, <4>1
            <4>3. q[i - 1].what = "failure"
                BY <4>1, <4>2
            <4>. QED
                BY <1>2, <4>2, <4>3 DEF HasFailure
        <3>. QED
            BY <3>1, <3>2
    <2>. QED
        BY <2>1, <2>3, <2>4 DEF Told, FailureIsTold
<1>7. Sound(rig, radio)'
    BY <1>2 DEF Told, Sound, Steady, Blank, SplitAgrees
<1>8. UpdateIsTold'
    <2>. SUFFICES ASSUME gui.active, toRig = << >>, rig.requested.online, ~rig.failed
                  PROVE  ToldTo(gui', toGui', out', Said(rig)')
        BY <1>2 DEF UpdateIsTold, ToldTo
    <2>1. Said(rig)' = Said(rig) /\ gui' = gui
        BY <1>2, SaidStays
    <2>2. out[Len(out)] = Said(rig)
        BY <1>1 DEF Told, UpdateIsTold, ToldTo
    <2>3. toGui' = a
        BY <1>2 DEF Connected
    <2>4. CASE q = << >>
        <3>1. Head(out) = Said(rig)
            <4>1. Len(q) = 0
                BY <2>4
            <4>2. Len(out) = 1
                BY <1>3, <4>1
            <4>. QED
                BY <1>3, <2>2, <4>2
        <3>2. out' = << >> /\ toGui' # << >> /\ toGui'[Len(toGui')] = Said(rig)'
            BY <1>2, <1>4, <2>1, <2>3, <2>4, <3>1
        <3>. QED
            BY <3>2, Zenon DEF ToldTo
    <2>5. CASE q # << >>
        <3>1. Len(q) \in 1 .. Len(q) /\ Len(q) + 1 = Len(out)
            BY <1>3, <2>5
        <3>2. q[Len(q)] = out[Len(q) + 1]
            BY <1>3, <3>1
        <3>3. q[Len(q)] = Said(rig)
            BY <2>2, <3>1, <3>2
        <3>. QED
            BY <1>2, <2>1, <2>5, <3>3 DEF ToldTo
    <2>. QED
        BY <2>4, <2>5
<1>. QED
    BY <1>5, <1>6, <1>7, <1>8 DEF Told

(* The dial and the split button change nothing that was said.             *)
LEMMA TurnKnobTold ==
    ASSUME IInv, Told, TurnKnob
    PROVE  Told'
<1>1. UNCHANGED <<splitMode, gui, toRig, rig, out, toGui>>
    BY DEF TurnKnob
<1>2. radio'.ptt = radio.ptt /\ (splitMode # "emulate" => radio'.split = radio.split)
    <2>1. CASE \E f \in Freq \ {radio.freq} : radio' = [radio EXCEPT !.freq = f]
        BY <2>1 DEF IInv, TypeOK, Radio
    <2>2. CASE splitMode = "emulate" /\ radio' = [radio EXCEPT !.split = ~@]
        BY <2>2 DEF IInv, TypeOK, Radio
    <2>. QED
        BY <2>1, <2>2 DEF TurnKnob
<1>3. NewestIsAnswered' /\ KeyingIsKnown'
    BY <1>1, <1>2 DEF Told, NewestIsAnswered, KeyingIsKnown
<1>4. FailureIsTold'
    BY <1>1 DEF Told, FailureIsTold, Connected, HasFailure
<1>5. Sound(rig, radio)'
    BY <1>1, <1>2 DEF Told, Sound, Steady, Blank, SplitAgrees
<1>6. Said(rig)' = Said(rig)
    BY <1>1, SaidStays
<1>7. UpdateIsTold'
    BY <1>1, <1>6 DEF Told, UpdateIsTold, ToldTo
<1>. QED
    BY <1>3, <1>4, <1>5, <1>7 DEF Told

LEMMA StutterTold ==
    ASSUME Told, UNCHANGED vars
    PROVE  Told'
<1>1. UNCHANGED <<splitMode, gui, toRig, rig, out, toGui, radio>>
    BY DEF vars
<1>2. NewestIsAnswered' /\ KeyingIsKnown' /\ FailureIsTold' /\ Sound(rig, radio)'
    BY <1>1 DEF Told, NewestIsAnswered, KeyingIsKnown, FailureIsTold, Connected, HasFailure,
                Sound, Steady, Blank, SplitAgrees
<1>3. Said(rig)' = Said(rig)
    BY <1>1, SaidStays
<1>4. UpdateIsTold'
    BY <1>1, <1>3 DEF Told, UpdateIsTold, ToldTo
<1>. QED
    BY <1>2, <1>4 DEF Told

LEMMA StepTold ==
    ASSUME ~ReleaseFails, IInv, Told, [Next]_vars
    PROVE  Told'
<1>1. CASE RigThread
    BY <1>1, ServeStartTold, ServeSetTold, ServeStopTold, EmitTold DEF RigThread
<1>2. CASE HandleTimeout
    BY <1>2, HandleTimeoutTold
<1>3. CASE TurnKnob
    BY <1>3, TurnKnobTold
<1>4. CASE GuiThread
    BY <1>4, GuiThreadTold
<1>5. CASE UNCHANGED vars
    BY <1>5, StutterTold
<1>. QED
    BY <1>1, <1>2, <1>3, <1>4, <1>5, UserTold DEF Next

-----------------------------------------------------------------------------
(* When nothing is on its way, the display and the cache agree with the    *)
(* rig object under the newest number, and a radio that transmits is known *)
(* to: no update that is withheld, outdated, emulated or dropped with a    *)
(* connection leaves anything out, whichever access to the radio fails.    *)
THEOREM SettledCorrect ==
    ASSUME ReleaseFails = FALSE
    PROVE  Spec => []SettledAgrees
<1>1. IInv /\ Told /\ [Next]_vars => Told'
    BY StepTold
<1>2. IInv /\ Told => SettledAgrees
    <2>. SUFFICES ASSUME IInv, Told, Settled
                  PROVE  /\ rig.newest
                         /\ gui.reported = Emitted(rig).state
                         /\ gui.cached.freq = gui.reported.freq
                         /\ radio.ptt => gui.tx # "receive"
        BY DEF SettledAgrees
    <2>1. /\ toRig = << >> /\ out = << >> /\ toGui = << >>
          /\ gui.active /\ rig.requested.online /\ rig.retries = 0
        BY DEF Settled
    <2>2. Connected /\ ~HasFailure(<< >>)
        BY <2>1 DEF Connected, HasFailure
    <2>3. ~rig.failed
        BY <2>1, <2>2 DEF Told, FailureIsTold
    <2>4. rig \in Rig /\ rig.last = rig.actual
        BY <2>1, <2>3 DEF IInv, TypeOK, Told, Sound
    <2>5. Said(rig) = Emitted(rig)
        BY <2>4, SaidNow
    <2>6. gui.reported = Said(rig).state /\ gui.cached.freq = Said(rig).state.freq
        BY <2>1, <2>3 DEF Told, UpdateIsTold, ToldTo
    <2>. QED
        BY <2>1, <2>5, <2>6 DEF Told, NewestIsAnswered, KeyingIsKnown
<1>. QED
    BY <1>1, <1>2, InitIsTold, Invariant, PTL DEF Spec

-----------------------------------------------------------------------------
(* What the radio is keyed for: each command that keys it has the two      *)
(* frequencies prepared, or follows one that keyed it already.             *)

Keying(c) == c.do = "set" /\ c.state.ptt

(* The transmit frequency belongs to the dial frequency.                   *)
Suited(s) ==
    /\ s.freq # 0
    /\ IF splitMode = "none" THEN s.tx = 0
       ELSE s.tx = TxOf(s.freq) /\ (s.tx # 0 => s.split = "on")

(* keyed: the radio is keyed before the first of them.                     *)
Suits(q, keyed) ==
    \A i \in DOMAIN q :
        Keying(q[i]) =>
            \/ Suited(q[i].state)
            \/ IF i = 1 THEN keyed ELSE Keying(q[i - 1])

(* The radio is keyed after the last of them.                              *)
EndsKeyed(q, keyed) == IF q = << >> THEN keyed ELSE Keying(q[Len(q)])

LEMMA OutdatedSuits ==
    ASSUME NEW q \in Seq(Command), NEW keyed \in BOOLEAN
    PROVE  /\ Suits(q, keyed) => Suits(Outdated(q), keyed)
           /\ EndsKeyed(q, keyed) => EndsKeyed(Outdated(q), keyed)
<1>1. /\ Outdated(q) \in Seq(Command) /\ Len(Outdated(q)) = Len(q)
      /\ \A i \in 1 .. Len(q) : /\ Outdated(q)[i].do = q[i].do
                                /\ Outdated(q)[i].state = q[i].state
    BY OutdatedKeeps
<1>2. DOMAIN Outdated(q) = 1 .. Len(q) /\ DOMAIN q = 1 .. Len(q) /\ Len(q) \in Nat
    BY <1>1
<1>3. Outdated(q) = << >> <=> q = << >>
    BY <1>1, EmptySeq
<1>4. \A i \in 1 .. Len(q) : Keying(Outdated(q)[i]) <=> Keying(q[i])
    BY <1>1 DEF Keying
<1>5. ASSUME Suits(q, keyed) PROVE Suits(Outdated(q), keyed)
    <2>. SUFFICES ASSUME NEW i \in 1 .. Len(q), Keying(Outdated(q)[i])
                  PROVE  \/ Suited(Outdated(q)[i].state)
                         \/ IF i = 1 THEN keyed ELSE Keying(Outdated(q)[i - 1])
        BY <1>2 DEF Suits
    <2>1. Suited(q[i].state) \/ IF i = 1 THEN keyed ELSE Keying(q[i - 1])
        BY <1>2, <1>4, <1>5 DEF Suits
    <2>2. i # 1 => i - 1 \in 1 .. Len(q)
        BY <1>2
    <2>. QED
        BY <1>1, <1>4, <2>1, <2>2
<1>6. ASSUME EndsKeyed(q, keyed) PROVE EndsKeyed(Outdated(q), keyed)
    <2>1. q # << >> => Len(q) \in 1 .. Len(q)
        OBVIOUS
    <2>. QED
        BY <1>1, <1>3, <1>4, <1>6, <2>1 DEF EndsKeyed
<1>. QED
    BY <1>5, <1>6

LEMMA AppendSuits ==
    ASSUME NEW q \in Seq(Command), NEW c \in Command, NEW keyed \in BOOLEAN,
           Suits(q, keyed),
           Keying(c) => Suited(c.state) \/ EndsKeyed(q, keyed)
    PROVE  /\ Append(q, c) \in Seq(Command)
           /\ Suits(Append(q, c), keyed)
           /\ EndsKeyed(Append(q, c), keyed) <=> Keying(c)
<1>. DEFINE a == Append(q, c)
<1>1. /\ a \in Seq(Command) /\ Len(a) = Len(q) + 1 /\ a # << >>
      /\ \A i \in 1 .. Len(q) : a[i] = q[i]
      /\ a[Len(q) + 1] = c
    BY AppendProperties
<1>. HIDE DEF a
<1>2. Suits(a, keyed)
    <2>. SUFFICES ASSUME NEW i \in 1 .. Len(a), Keying(a[i])
                  PROVE  \/ Suited(a[i].state)
                         \/ IF i = 1 THEN keyed ELSE Keying(a[i - 1])
        BY <1>1 DEF Suits
    <2>1. CASE i \in 1 .. Len(q)
        <3>0. i \in DOMAIN q /\ Keying(q[i])
            BY <1>1, <2>1
        <3>1. Suited(q[i].state) \/ IF i = 1 THEN keyed ELSE Keying(q[i - 1])
            BY <3>0, Zenon DEF Suits
        <3>2. i # 1 => i - 1 \in 1 .. Len(q)
            BY <2>1
        <3>. QED
            BY <1>1, <2>1, <3>1, <3>2
    <2>2. CASE i = Len(q) + 1
        <3>1. Suited(c.state) \/ EndsKeyed(q, keyed)
            BY <1>1, <2>2
        <3>2. q # << >> => Len(q) \in 1 .. Len(q) /\ i - 1 = Len(q) /\ i # 1
            BY <2>2
        <3>3. q = << >> => i = 1
            BY <2>2
        <3>4. q # << >> => a[i - 1] = q[Len(q)]
            BY <1>1, <3>2
        <3>. QED
            BY <1>1, <2>2, <3>1, <3>2, <3>3, <3>4 DEF EndsKeyed
    <2>. QED
        BY <1>1, <2>1, <2>2
<1>3. EndsKeyed(a, keyed) <=> Keying(c)
    BY <1>1 DEF EndsKeyed
<1>. QED
    BY <1>1, <1>2, <1>3 DEF a

LEMMA ConcatSuits ==
    ASSUME NEW p \in Seq(Command), NEW q \in Seq(Command),
           NEW keyed \in BOOLEAN, NEW held \in BOOLEAN,
           Suits(p, keyed), Suits(q, held),
           held => EndsKeyed(p, keyed)
    PROVE  /\ Suits(p \o q, keyed)
           /\ EndsKeyed(q, held) => EndsKeyed(p \o q, keyed)
<1>. DEFINE a == p \o q
<1>1. /\ a \in Seq(Command) /\ Len(a) = Len(p) + Len(q)
      /\ \A i \in 1 .. Len(a) : a[i] = IF i =< Len(p) THEN p[i] ELSE q[i - Len(p)]
    BY ConcatProperties
<1>2. Len(p) \in Nat /\ Len(q) \in Nat
    OBVIOUS
<1>. HIDE DEF a
<1>3. ASSUME NEW i \in 1 .. Len(a), Keying(a[i])
      PROVE  \/ Suited(a[i].state)
             \/ IF i = 1 THEN keyed ELSE Keying(a[i - 1])
    <2>1. CASE i =< Len(p)
        <3>1. i \in DOMAIN p /\ Keying(p[i]) /\ a[i] = p[i]
            BY <1>1, <1>3, <2>1
        <3>2. Suited(p[i].state) \/ IF i = 1 THEN keyed ELSE Keying(p[i - 1])
            BY <3>1, Zenon DEF Suits
        <3>3. i # 1 => i - 1 \in 1 .. Len(a) /\ i - 1 =< Len(p)
            BY <1>1, <2>1
        <3>. QED
            BY <1>1, <3>1, <3>2, <3>3
    <2>2. CASE i = Len(p) + 1
        <3>1. 1 \in DOMAIN q /\ Keying(q[1]) /\ a[i] = q[1]
            BY <1>1, <1>2, <1>3, <2>2
        <3>2. Suited(q[1].state) \/ EndsKeyed(p, keyed)
            BY <3>1 DEF Suits
        <3>3. CASE p = << >>
            BY <2>2, <3>1, <3>2, <3>3 DEF EndsKeyed
        <3>4. CASE p # << >>
            <4>1. i - 1 = Len(p) /\ Len(p) \in 1 .. Len(a) /\ i # 1
                BY <1>1, <1>2, <2>2, <3>4
            <4>2. a[i - 1] = p[Len(p)]
                BY <1>1, <1>2, <4>1
            <4>. QED
                BY <3>1, <3>2, <3>4, <4>1, <4>2 DEF EndsKeyed
        <3>. QED
            BY <3>3, <3>4
    <2>3. CASE i > Len(p) + 1
        <3>. DEFINE j == i - Len(p)
        <3>1. j \in DOMAIN q /\ j # 1 /\ a[i] = q[j] /\ Keying(q[j])
            BY <1>1, <1>2, <1>3, <2>3
        <3>2. Suited(q[j].state) \/ Keying(q[j - 1])
            BY <3>1, Zenon DEF Suits
        <3>3. /\ i - 1 \in 1 .. Len(a) /\ ~(i - 1 =< Len(p)) /\ (i - 1) - Len(p) = j - 1
              /\ i # 1
            BY <1>2, <2>3
        <3>. QED
            BY <1>1, <3>1, <3>2, <3>3
    <2>. QED
        BY <1>2, <2>1, <2>2, <2>3
<1>4. Suits(a, keyed)
    BY <1>1, <1>3 DEF Suits
<1>5. ASSUME EndsKeyed(q, held) PROVE EndsKeyed(a, keyed)
    <2>1. CASE q # << >>
        <3>1. Len(a) \in 1 .. Len(a) /\ ~(Len(a) =< Len(p)) /\ Len(a) - Len(p) = Len(q)
            BY <1>1, <2>1
        <3>2. a[Len(a)] = q[Len(q)] /\ a # << >>
            BY <1>1, <3>1
        <3>. QED
            BY <1>5, <2>1, <3>2 DEF EndsKeyed
    <2>2. CASE q = << >>
        <3>1. a = p
            BY <2>2 DEF a
        <3>. QED
            BY <1>5, <2>2, <3>1 DEF EndsKeyed
    <2>. QED
        BY <2>1, <2>2
<1>. QED
    BY <1>4, <1>5 DEF a

LEMMA TailSuits ==
    ASSUME NEW q \in Seq(Command), q # << >>, NEW keyed \in BOOLEAN, Suits(q, keyed),
           NEW after \in BOOLEAN, Keying(Head(q)) => after
    PROVE  /\ Suits(Tail(q), after)
           /\ EndsKeyed(q, keyed) => EndsKeyed(Tail(q), after)
<1>. DEFINE t == Tail(q)
<1>1. /\ t \in Seq(Command) /\ Len(t) = Len(q) - 1 /\ Len(q) > 0 /\ Len(q) \in Nat
      /\ \A i \in 1 .. Len(t) : t[i] = q[i + 1]
      /\ Head(q) = q[1]
    BY HeadTailProperties
<1>. HIDE DEF t
<1>2. Suits(t, after)
    <2>. SUFFICES ASSUME NEW i \in 1 .. Len(t), Keying(t[i])
                  PROVE  \/ Suited(t[i].state)
                         \/ IF i = 1 THEN after ELSE Keying(t[i - 1])
        BY <1>1 DEF Suits
    <2>1. i + 1 \in DOMAIN q /\ i + 1 # 1 /\ Keying(q[i + 1]) /\ t[i] = q[i + 1]
        BY <1>1
    <2>2. Suited(q[i + 1].state) \/ Keying(q[(i + 1) - 1])
        BY <2>1, Zenon DEF Suits
    <2>3. (i + 1) - 1 = i
        OBVIOUS
    <2>4. CASE i = 1
        BY <1>1, <2>1, <2>2, <2>3, <2>4
    <2>5. CASE i # 1
        <3>1. i - 1 \in 1 .. Len(t) /\ (i - 1) + 1 = i
            BY <1>1, <2>5
        <3>2. t[i - 1] = q[i]
            BY <1>1, <3>1
        <3>. QED
            BY <2>1, <2>2, <2>3, <2>5, <3>2
    <2>. QED
        BY <2>4, <2>5
<1>3. ASSUME EndsKeyed(q, keyed) PROVE EndsKeyed(t, after)
    <2>1. Keying(q[Len(q)])
        BY <1>3 DEF EndsKeyed
    <2>2. CASE t = << >>
        <3>1. Len(q) = 1
            BY <1>1, <2>2
        <3>. QED
            BY <1>1, <2>1, <2>2, <3>1 DEF EndsKeyed
    <2>3. CASE t # << >>
        <3>1. Len(t) \in 1 .. Len(t) /\ Len(t) + 1 = Len(q)
            BY <1>1, <2>3
        <3>2. t[Len(t)] = q[Len(q)]
            BY <1>1, <3>1
        <3>. QED
            BY <2>1, <2>3, <3>2 DEF EndsKeyed
    <2>. QED
        BY <2>2, <2>3
<1>. QED
    BY <1>2, <1>3 DEF t

-----------------------------------------------------------------------------
(* The GUI thread prepares the frequencies before it keys.                 *)

Held == gui.active /\ gui.cached.ptt

(* What a handler that began in gui has come to.                           *)
Prepares(g) ==
    /\ g \in GUI
    /\ Suits(g.sent, Held)
    /\ g.active /\ g.cached.ptt => EndsKeyed(g.sent, Held)
    /\ splitMode = "none" => g.cached.tx = 0

(* A change of what is no command.                                         *)
LEMMA PreparesStill ==
    ASSUME NEW g, Prepares(g), NEW h \in GUI,
           h.sent = g.sent, h.active => g.active,
           h.cached.ptt = g.cached.ptt, h.cached.tx = g.cached.tx
    PROVE  Prepares(h)
BY DEF Prepares

LEMMA CachedPrepares ==
    ASSUME gui \in GUI, NEW g, Prepares(g), NEW c \in State,
           splitMode = "none" => c.tx = 0,
           g.active /\ c.ptt => Suited(c) \/ g.cached.ptt
    PROVE  LET h == Send([g EXCEPT !.cached = c], "set") IN
           /\ Prepares(h) /\ h.cached = c /\ h.nominal = g.nominal
           /\ h.txNominal = g.txNominal /\ h.active = g.active /\ h.tx = g.tx
<1>. DEFINE e == [g EXCEPT !.cached = c]
            d == [do |-> "set", state |-> c, newest |-> TRUE]
            o == Outdated(g.sent)
            q == IF g.active THEN Append(o, d) ELSE o
            h == [e EXCEPT !.issued = TRUE, !.sent = q]
<1>1. d \in Command /\ d.do = "set" /\ d.state = c
    BY DEF Command
<1>2. /\ g \in GUI /\ g.sent \in Seq(Command) /\ g.active \in BOOLEAN
      /\ Held \in BOOLEAN /\ Suits(g.sent, Held)
    BY DEF Prepares, GUI, Held, State
<1>3. Send(e, "set") = h
    BY <1>2 DEF Send, GUI
<1>4. /\ e \in GUI /\ e.cached = c /\ e.active = g.active
      /\ e.nominal = g.nominal /\ e.txNominal = g.txNominal /\ e.tx = g.tx
    BY <1>2 DEF GUI
<1>5. Keying(d) <=> c.ptt
    BY <1>1 DEF Keying
<1>. HIDE DEF d, e
<1>6. /\ o \in Seq(Command) /\ Suits(o, Held)
      /\ EndsKeyed(g.sent, Held) => EndsKeyed(o, Held)
    BY <1>2, OutdatedKeeps, OutdatedSuits
<1>. HIDE DEF o
<1>7. ASSUME g.active
      PROVE  /\ Append(o, d) \in Seq(Command)
             /\ Suits(Append(o, d), Held)
             /\ c.ptt => EndsKeyed(Append(o, d), Held)
    <2>1. Keying(d) => Suited(d.state) \/ EndsKeyed(o, Held)
        BY <1>1, <1>5, <1>6, <1>7 DEF Prepares
    <2>. QED
        BY <1>1, <1>2, <1>5, <1>6, <2>1, AppendSuits
<1>8. /\ q \in Seq(Command) /\ Suits(q, Held)
      /\ g.active /\ c.ptt => EndsKeyed(q, Held)
    BY <1>6, <1>7
<1>. HIDE DEF q
<1>9. /\ h \in GUI /\ h.sent = q /\ h.active = g.active /\ h.cached = c
      /\ h.nominal = g.nominal /\ h.txNominal = g.txNominal /\ h.tx = g.tx
    BY <1>4, <1>8 DEF GUI
<1>. HIDE DEF h
<1>10. Prepares(h)
    BY <1>8, <1>9 DEF Prepares
<1>. QED
    BY <1>3, <1>9, <1>10 DEF e

LEMMA CloseRigPrepares ==
    ASSUME gui \in GUI, NEW g, Prepares(g)
    PROVE  LET h == CloseRig(g) IN
           /\ Prepares(h) /\ ~h.active /\ h.cached = g.cached
           /\ h.nominal = g.nominal /\ h.txNominal = g.txNominal /\ h.tx = g.tx
<1>1. CASE ~g.active
    BY <1>1 DEF CloseRig
<1>2. CASE g.active
    <2>. DEFINE c == [do |-> "stop", state |-> Unknown, newest |-> FALSE]
                q == Append(g.sent, c)
                h == [g EXCEPT !.active = FALSE, !.sent = q]
    <2>1. /\ c \in Command /\ ~Keying(c) /\ g.sent \in Seq(Command)
          /\ Suits(g.sent, Held) /\ Held \in BOOLEAN /\ g \in GUI
        BY UnknownState DEF GUI, State, Command, Prepares, Keying, Held
    <2>2. CloseRig(g) = h
        BY <1>2, <2>1 DEF CloseRig, GUI
    <2>. HIDE DEF c
    <2>3. q \in Seq(Command) /\ Suits(q, Held)
        BY <2>1, AppendSuits
    <2>. HIDE DEF q
    <2>4. /\ h \in GUI /\ h.sent = q /\ h.active = FALSE /\ h.cached = g.cached
          /\ h.nominal = g.nominal /\ h.txNominal = g.txNominal /\ h.tx = g.tx
        BY <2>1, <2>3 DEF GUI
    <2>. HIDE DEF h
    <2>. QED
        BY <2>2, <2>3, <2>4 DEF Prepares
<1>. QED
    BY <1>1, <1>2

LEMMA OpenRigPrepares ==
    ASSUME gui \in GUI, NEW g, Prepares(g), NEW force \in BOOLEAN
    PROVE  LET h == OpenRig(g, force) IN
           /\ Prepares(h) /\ h.active
           /\ h.nominal = g.nominal /\ h.txNominal = g.txNominal /\ h.tx = g.tx
<1>. DEFINE h == CloseRig(g)
            c == [do |-> "start", state |-> Unknown, newest |-> TRUE]
            o == Outdated(h.sent)
            q == Append(o, c)
            i == [h EXCEPT !.active = TRUE, !.cached = Unknown]
            j == [i EXCEPT !.issued = TRUE, !.sent = q]
<1>1. /\ OpenRig(g, force) = IF g.active /\ ~force THEN g ELSE Send(i, "start")
      /\ g.active \in BOOLEAN
    BY DEF OpenRig, Prepares, GUI
<1>2. Prepares(h) /\ h.nominal = g.nominal /\ h.txNominal = g.txNominal /\ h.tx = g.tx
    BY CloseRigPrepares
<1>. HIDE DEF h
<1>3. /\ h \in GUI /\ h.sent \in Seq(Command) /\ Held \in BOOLEAN
      /\ Suits(h.sent, Held)
    BY <1>2 DEF Prepares, GUI, State, Held
<1>4. c \in Command /\ ~Keying(c)
    BY UnknownState DEF Command, Keying
<1>5. Send(i, "start") = j
    BY <1>3 DEF Send, GUI
<1>6. /\ i \in GUI /\ i.active /\ i.cached = Unknown
      /\ i.nominal = h.nominal /\ i.txNominal = h.txNominal /\ i.tx = h.tx
    BY <1>3, UnknownState DEF GUI
<1>. HIDE DEF i, c
<1>7. o \in Seq(Command) /\ Suits(o, Held)
    BY <1>3, OutdatedKeeps, OutdatedSuits
<1>. HIDE DEF o
<1>8. q \in Seq(Command) /\ Suits(q, Held)
    BY <1>3, <1>4, <1>7, AppendSuits
<1>. HIDE DEF q
<1>9. /\ j \in GUI /\ j.sent = q /\ j.active /\ j.cached = Unknown
      /\ j.nominal = g.nominal /\ j.txNominal = g.txNominal /\ j.tx = g.tx
    BY <1>2, <1>6, <1>8 DEF GUI
<1>. HIDE DEF j
<1>10. Prepares(j)
    BY <1>8, <1>9 DEF Prepares, Unknown
<1>. QED
    BY <1>1, <1>5, <1>9, <1>10

(* The frequencies are changed alike, keyed or not.                        *)
LEMMA TransceiverFrequencyPrepares ==
    ASSUME gui \in GUI, NEW g, Prepares(g), NEW f \in Int
    PROVE  LET h == TransceiverFrequency(g, f) IN
           /\ Prepares(h) /\ h.cached.freq = f
           /\ h.cached.tx = g.cached.tx /\ h.cached.split = g.cached.split
           /\ h.nominal = g.nominal /\ h.active = g.active /\ h.tx = g.tx
<1>. DEFINE c == [g.cached EXCEPT !.online = TRUE, !.freq = f]
<1>1. /\ c \in State /\ c.ptt = g.cached.ptt /\ c.freq = f
      /\ c.tx = g.cached.tx /\ c.split = g.cached.split
      /\ splitMode = "none" => c.tx = 0
    BY DEF Prepares, GUI, State
<1>2. [g EXCEPT !.cached.online = TRUE, !.cached.freq = f] = [g EXCEPT !.cached = c]
    BY DEF Prepares, GUI
<1>. HIDE DEF c
<1>. QED
    BY <1>1, <1>2, CachedPrepares DEF TransceiverFrequency

LEMMA TransceiverTxFrequencyPrepares ==
    ASSUME gui \in GUI, NEW g, Prepares(g), NEW f \in Int
    PROVE  LET h == TransceiverTxFrequency(g, f) IN
           /\ Prepares(h) /\ h.cached.freq = g.cached.freq
           /\ splitMode # "none" => h.cached.tx = f /\ h.cached.split = SplitIs(f # 0)
           /\ h.nominal = g.nominal /\ h.active = g.active /\ h.tx = g.tx
<1>. DEFINE c == [g.cached EXCEPT !.online = TRUE, !.tx = f, !.split = SplitIs(f # 0)]
<1>1. /\ c \in State /\ c.ptt = g.cached.ptt /\ c.freq = g.cached.freq
      /\ c.tx = f /\ c.split = SplitIs(f # 0)
    BY DEF Prepares, GUI, State, SplitIs
<1>2. [g EXCEPT !.cached.online = TRUE, !.cached.tx = f, !.cached.split = SplitIs(f # 0)]
        = [g EXCEPT !.cached = c]
    BY DEF Prepares, GUI
<1>. HIDE DEF c
<1>3. CASE splitMode = "none"
    BY <1>3 DEF TransceiverTxFrequency
<1>4. CASE splitMode # "none"
    BY <1>1, <1>2, <1>4, CachedPrepares DEF TransceiverTxFrequency
<1>. QED
    BY <1>3, <1>4

LEMMA TransceiverPttPrepares ==
    ASSUME gui \in GUI, NEW g, Prepares(g), NEW b \in BOOLEAN,
           b => Suited(g.cached)
    PROVE  Prepares(TransceiverPtt(g, b))
<1>. DEFINE c == [g.cached EXCEPT !.online = TRUE, !.ptt = b]
<1>1. /\ c \in State /\ c.ptt = b /\ c.freq = g.cached.freq
      /\ c.tx = g.cached.tx /\ c.split = g.cached.split
      /\ splitMode = "none" => c.tx = 0
    BY DEF Prepares, GUI, State
<1>2. [g EXCEPT !.cached.online = TRUE, !.cached.ptt = b] = [g EXCEPT !.cached = c]
    BY DEF Prepares, GUI
<1>. HIDE DEF c
<1>3. c.ptt => Suited(c)
    BY <1>1 DEF Suited
<1>. QED
    BY <1>1, <1>2, <1>3, CachedPrepares DEF TransceiverPtt

LEMMA SetRigPrepares ==
    ASSUME gui \in GUI, NEW g, Prepares(g)
    PROVE  LET h == SetRig(g) IN
           /\ Prepares(h) /\ h.nominal = g.nominal /\ h.tx = g.tx
           /\ g.tx = "receive" =>
                /\ h.active /\ h.cached.freq = g.nominal
                /\ splitMode # "none" => /\ h.cached.tx = g.txNominal
                                         /\ h.cached.split = SplitIs(g.txNominal # 0)
<1>. DEFINE h == OpenRig(g, FALSE)
            i == TransceiverTxFrequency(h, h.txNominal)
            j == TransceiverFrequency(i, h.nominal)
<1>1. /\ Prepares(h) /\ h.active
      /\ h.nominal = g.nominal /\ h.txNominal = g.txNominal /\ h.tx = g.tx
    BY OpenRigPrepares
<1>2. SetRig(g) = IF g.tx = "transmit" /\ ~QsyAllowed THEN g ELSE j
    BY DEF SetRig
<1>. HIDE DEF h
<1>3. h.txNominal \in Int /\ h.nominal \in Int
    BY <1>1 DEF Prepares, GUI
<1>6. ASSUME NEW f \in Int
      PROVE  LET k == TransceiverTxFrequency(h, f) IN
             /\ Prepares(k) /\ k.nominal = h.nominal /\ k.active = h.active /\ k.tx = h.tx
             /\ splitMode # "none" => k.cached.tx = f /\ k.cached.split = SplitIs(f # 0)
    BY <1>1, TransceiverTxFrequencyPrepares
<1>4. /\ Prepares(i) /\ i.nominal = h.nominal /\ i.active = h.active /\ i.tx = h.tx
      /\ splitMode # "none" => /\ i.cached.tx = h.txNominal
                               /\ i.cached.split = SplitIs(h.txNominal # 0)
    BY <1>3, <1>6
<1>. HIDE DEF i
<1>5. /\ Prepares(j) /\ j.nominal = i.nominal /\ j.active = i.active /\ j.tx = i.tx
      /\ j.cached.freq = h.nominal
      /\ j.cached.tx = i.cached.tx /\ j.cached.split = i.cached.split
    BY <1>3, <1>4, TransceiverFrequencyPrepares
<1>. HIDE DEF j
<1>. QED
    BY <1>1, <1>2, <1>4, <1>5

LEMMA SetXitPrepares ==
    ASSUME gui \in GUI, NEW g, Prepares(g)
    PROVE  LET h == SetXit(g) IN
           /\ Prepares(h) /\ h.cached.freq = g.cached.freq
           /\ splitMode # "none" /\ g.active /\ g.tx = "receive" =>
                /\ h.cached.tx = TxOf(g.nominal)
                /\ h.cached.split = SplitIs(TxOf(g.nominal) # 0)
<1>. DEFINE n == TxOf(g.nominal)
            h == [g EXCEPT !.txNominal = n]
<1>1. n \in Int
    BY TxOfType DEF Prepares, GUI
<1>2. SetXit(g) = IF splitMode = "none" \/ ~g.active
                        \/ (g.tx = "transmit" /\ ~QsyAllowed)
                  THEN g
                  ELSE TransceiverTxFrequency(h, h.txNominal)
    BY DEF SetXit
<1>3. n = TxOf(g.nominal)
    OBVIOUS
<1>. HIDE DEF n
<1>4. /\ h \in GUI /\ h.sent = g.sent /\ h.active = g.active
      /\ h.cached = g.cached /\ h.txNominal = n
    BY <1>1 DEF Prepares, GUI
<1>. HIDE DEF h
<1>5. Prepares(h)
    BY <1>4, PreparesStill
<1>6. LET i == TransceiverTxFrequency(h, n) IN
      /\ Prepares(i) /\ i.cached.freq = h.cached.freq
      /\ splitMode # "none" => i.cached.tx = n /\ i.cached.split = SplitIs(n # 0)
    BY <1>1, <1>5, TransceiverTxFrequencyPrepares
<1>. QED
    BY <1>2, <1>3, <1>4, <1>6

(* Both frequencies belong together when the rig is keyed.                 *)
LEMMA KeyPrepares ==
    ASSUME gui \in GUI, Prepares(gui), gui.tx = "receive", gui.nominal # 0
    PROVE  Prepares(TransceiverPtt(SetXit(SetRig(gui)), TRUE))
<1>. DEFINE h == SetRig(gui)
            x == SetXit(h)
<1>1. /\ Prepares(h) /\ h.nominal = gui.nominal /\ h.active /\ h.tx = "receive"
      /\ h.cached.freq = gui.nominal
    BY SetRigPrepares
<1>. HIDE DEF h
<1>2. /\ Prepares(x) /\ x.cached.freq = h.cached.freq
      /\ splitMode # "none" => /\ x.cached.tx = TxOf(h.nominal)
                               /\ x.cached.split = SplitIs(TxOf(h.nominal) # 0)
    BY <1>1, SetXitPrepares
<1>. HIDE DEF x
<1>3. Suited(x.cached)
    BY <1>1, <1>2 DEF Suited, SplitIs, Prepares
<1>. QED
    BY <1>2, <1>3, TransceiverPttPrepares DEF x, h

LEMMA FollowUpdatePrepares ==
    ASSUME gui \in GUI, Prepares(gui), NEW u \in Signal
    PROVE  Prepares(FollowUpdate(gui, u))
<1>. DEFINE s == u.state
            c == [s EXCEPT !.split = SplitIs(@ = "on"), !.tx = gui.cached.tx,
                           !.ptt = gui.cached.ptt]
            h == [gui EXCEPT !.cached = c]
            i == IF s.online THEN h ELSE CloseRig(h)
            j == FollowRig(i, s)
<1>1. s \in State
    BY DEF Signal
<1>2. FollowUpdate(gui, u) = IF u.newest THEN j ELSE i
    BY Zenon DEF FollowUpdate, Follow
<1>3. c \in State /\ c.ptt = gui.cached.ptt /\ c.tx = gui.cached.tx
    BY <1>1 DEF GUI, State, SplitIs
<1>. HIDE DEF c
<1>4. /\ h \in GUI /\ h.sent = gui.sent /\ h.active = gui.active /\ h.cached = c
    BY <1>3 DEF GUI
<1>. HIDE DEF h
<1>5. Prepares(h)
    BY <1>3, <1>4, PreparesStill
<1>6. Prepares(i)
    BY <1>4, <1>5, CloseRigPrepares
<1>. HIDE DEF i
<1>7. j \in GUI /\ j.sent = i.sent /\ j.active = i.active /\ j.cached = i.cached
    BY <1>1, <1>6, FollowRigKeeps DEF Prepares
<1>. HIDE DEF j
<1>8. Prepares(j)
    BY <1>6, <1>7, PreparesStill
<1>. QED
    BY <1>2, <1>6, <1>8

LEMMA RigFailurePrepares ==
    ASSUME gui \in GUI, Prepares(gui)
    PROVE  \A visible \in BOOLEAN : Prepares(RigFailure(gui, visible))
<1>. DEFINE c == CloseRig(gui)
            x == IF c.tx = "transmit" THEN "release" ELSE c.tx
            h == [c EXCEPT !.tx = x]
            i == [h EXCEPT !.reopen = TRUE, !.first = FALSE]
            j == [h EXCEPT !.box = TRUE]
<1>1. Prepares(c)
    BY CloseRigPrepares
<1>2. \A visible \in BOOLEAN : RigFailure(gui, visible) \in {c, i, j}
    BY Zenon DEF RigFailure, TellFailure
<1>. HIDE DEF c
<1>3. c \in GUI
    BY <1>1 DEF Prepares
<1>4. x \in {"receive", "transmit", "release"}
    BY <1>3 DEF GUI
<1>. HIDE DEF x
<1>5. h \in GUI /\ h.sent = c.sent /\ h.active = c.active /\ h.cached = c.cached
    BY <1>3, <1>4 DEF GUI
<1>. HIDE DEF h
<1>6. /\ i \in GUI /\ i.sent = c.sent /\ i.active = c.active /\ i.cached = c.cached
      /\ j \in GUI /\ j.sent = c.sent /\ j.active = c.active /\ j.cached = c.cached
    BY <1>5 DEF GUI
<1>. HIDE DEF i, j
<1>7. Prepares(i) /\ Prepares(j)
    BY <1>1, <1>6, PreparesStill
<1>. QED
    BY <1>1, <1>2, <1>7

-----------------------------------------------------------------------------
(* The invariant: what was asked of the radio, and of the commands.        *)

Keyed == radio.ptt \/ rig.failed

Prepared ==
    /\ Suits(toRig, Keyed)
    /\ gui.active /\ gui.cached.ptt => EndsKeyed(toRig, Keyed)
    /\ splitMode = "none" => gui.cached.tx = 0

LEMMA InitIsPrepared == Init => Prepared
<1>. SUFFICES ASSUME Init PROVE Prepared
    OBVIOUS
<1>1. /\ ~gui.cached.ptt /\ gui.cached.tx = 0
      /\ toRig = <<[do |-> "start", state |-> Unknown, newest |-> TRUE]>>
    BY DEF Init, Unknown
<1>2. ~Keying(toRig[1]) /\ DOMAIN toRig = {1}
    BY <1>1 DEF Keying
<1>. QED
    BY <1>1, <1>2 DEF Prepared, Suits

LEMMA GuiPrepares ==
    ASSUME IInv, Prepared
    PROVE  gui \in GUI /\ Prepares(gui)
<1>1. gui \in GUI /\ gui.sent = << >>
    BY DEF IInv, TypeOK, CommandsInOrder
<1>. QED
    BY <1>1 DEF Prepares, Prepared, Suits, EndsKeyed, Held

LEMMA PreparedByReturn ==
    ASSUME IInv, Prepared, NEW g, Prepares(g), NEW events, Return(g, events)
    PROVE  Prepared'
<1>. DEFINE o == IF g.issued THEN Outdated(toRig) ELSE toRig
<1>1. /\ g \in GUI /\ g.sent \in Seq(Command) /\ toRig \in Seq(Command)
      /\ Suits(g.sent, Held) /\ Suits(toRig, Keyed) /\ Held \in BOOLEAN
      /\ Held => EndsKeyed(toRig, Keyed)
      /\ Keyed \in BOOLEAN
    BY DEF Prepares, GUI, State, IInv, TypeOK, Prepared, Held, Keyed, Radio, Rig
<1>2. /\ gui'.active = g.active /\ gui'.cached = g.cached
      /\ toRig' = o \o g.sent /\ splitMode' = splitMode
    BY <1>1 DEF Return, GUI
<1>3. Keyed' = Keyed
    BY DEF Return, Keyed, IInv, TypeOK, Rig
<1>4. /\ o \in Seq(Command) /\ Suits(o, Keyed)
      /\ Held => EndsKeyed(o, Keyed)
    BY <1>1, OutdatedKeeps, OutdatedSuits
<1>. HIDE DEF o
<1>5. /\ Suits(o \o g.sent, Keyed)
      /\ EndsKeyed(g.sent, Held) => EndsKeyed(o \o g.sent, Keyed)
    BY <1>1, <1>4, ConcatSuits
<1>6. Suits(toRig', Keyed) /\ (gui'.active /\ gui'.cached.ptt => EndsKeyed(toRig', Keyed))
    BY <1>2, <1>5 DEF Prepares
<1>7. Suits(toRig, Keyed)'
    BY <1>2, <1>3, <1>6 DEF Suits, Suited
<1>8. gui'.active /\ gui'.cached.ptt => EndsKeyed(toRig, Keyed)'
    BY <1>3, <1>6 DEF EndsKeyed
<1>9. splitMode' = "none" => gui'.cached.tx = 0
    BY <1>2 DEF Prepares
<1>. QED
    BY <1>7, <1>8, <1>9 DEF Prepared

LEMMA UserPrepared ==
    ASSUME IInv, Prepared,
           \/ \E f \in Freq : Qsy(f)
           \/ Key \/ StopTx \/ StopTx2
           \/ ReadFreq \/ TestCat \/ RigOpen
           \/ \E changed \in BOOLEAN : AcceptSettings(changed)
           \/ \E retry \in BOOLEAN : AnswerBox(retry)
    PROVE  Prepared'
<1>1. gui \in GUI /\ Prepares(gui)
    BY GuiPrepares
<1>2. ASSUME NEW f \in Freq, Qsy(f) PROVE Prepared'
    <2>. DEFINE x == IF splitMode = "none" THEN f ELSE TxOf(f)
                n == [gui EXCEPT !.nominal = f, !.txNominal = x]
                g == SetRig(n)
    <2>1. f \in Int /\ x \in Int
        BY FrequencyAssumption, TxOfType
    <2>2. Return(g, toGui)
        BY <1>2 DEF Qsy, Nominal
    <2>. HIDE DEF x
    <2>3. n \in GUI /\ n.sent = gui.sent /\ n.active = gui.active /\ n.cached = gui.cached
        BY <1>1, <2>1 DEF GUI
    <2>. HIDE DEF n
    <2>4. Prepares(n)
        BY <1>1, <2>3, PreparesStill
    <2>5. Prepares(g)
        BY <1>1, <2>4, SetRigPrepares
    <2>. HIDE DEF g
    <2>. QED
        BY <2>2, <2>5, PreparedByReturn
<1>3. ASSUME NEW g, Prepares(g), NEW x \in {"receive", "transmit", "release"},
             Handler([g EXCEPT !.tx = x])
      PROVE  Prepared'
    <2>. DEFINE h == [g EXCEPT !.tx = x]
    <2>1. Return(h, toGui)
        BY <1>3 DEF Handler
    <2>2. h \in GUI /\ h.sent = g.sent /\ h.active = g.active /\ h.cached = g.cached
        BY <1>3 DEF GUI, Prepares
    <2>. HIDE DEF h
    <2>3. Prepares(h)
        BY <1>3, <2>2, PreparesStill
    <2>. QED
        BY <2>1, <2>3, PreparedByReturn
<1>4. CASE Key
    <2>. DEFINE g == TransceiverPtt(SetXit(SetRig(gui)), TRUE)
    <2>1. gui.tx = "receive" /\ gui.nominal # 0 /\ Handler([g EXCEPT !.tx = "transmit"])
        BY <1>4 DEF Key
    <2>2. Prepares(g)
        BY <1>1, <2>1, KeyPrepares
    <2>. HIDE DEF g
    <2>. QED
        BY <1>3, <2>1, <2>2
<1>5. CASE StopTx
    BY <1>1, <1>3, <1>5 DEF StopTx
<1>6. CASE StopTx2
    <2>. DEFINE g == TransceiverPtt(gui, FALSE)
    <2>1. Prepares(g)
        BY <1>1, TransceiverPttPrepares
    <2>2. Handler([g EXCEPT !.tx = "receive"])
        BY <1>6 DEF StopTx2
    <2>. HIDE DEF g
    <2>. QED
        BY <1>3, <2>1, <2>2
<1>7. ASSUME NEW g, g = gui \/ g = [gui EXCEPT !.reopen = FALSE],
             NEW force \in BOOLEAN, Return(OpenRig(g, force), toGui)
      PROVE  Prepared'
    <2>1. g \in GUI /\ g.sent = gui.sent /\ g.active = gui.active /\ g.cached = gui.cached
        BY <1>1, <1>7 DEF GUI
    <2>2. Prepares(g)
        BY <1>1, <2>1, PreparesStill
    <2>3. Prepares(OpenRig(g, force))
        BY <1>1, <2>2, OpenRigPrepares
    <2>. QED
        BY <1>7, <2>3, PreparedByReturn
<1>8. CASE ReadFreq \/ TestCat \/ RigOpen
    BY <1>7, <1>8 DEF ReadFreq, TestCat, RigOpen, Handler
<1>9. ASSUME NEW retry \in BOOLEAN, AnswerBox(retry) PROVE Prepared'
    <2>. DEFINE h == [gui EXCEPT !.box = FALSE, !.first = TRUE, !.reopen = @ \/ retry]
    <2>1. Return(h, toGui)
        BY <1>9 DEF AnswerBox, Handler
    <2>2. h \in GUI /\ h.sent = gui.sent /\ h.active = gui.active /\ h.cached = gui.cached
        BY <1>1 DEF GUI
    <2>. HIDE DEF h
    <2>3. Prepares(h)
        BY <1>1, <2>2, PreparesStill
    <2>. QED
        BY <2>1, <2>3, PreparedByReturn
<1>10. ASSUME NEW changed \in BOOLEAN, AcceptSettings(changed) PROVE Prepared'
    <2>1. Return(SetXit(OpenRig(gui, changed)), toGui)
        BY <1>10 DEF AcceptSettings
    <2>2. Prepares(OpenRig(gui, changed))
        BY <1>1, OpenRigPrepares
    <2>3. Prepares(SetXit(OpenRig(gui, changed)))
        BY <1>1, <2>2, SetXitPrepares
    <2>. QED
        BY <2>1, <2>3, PreparedByReturn
<1>. QED
    BY <1>2, <1>4, <1>5, <1>6, <1>8, <1>9, <1>10

LEMMA GuiThreadPrepared ==
    ASSUME IInv, Prepared, GuiThread
    PROVE  Prepared'
<1>1. gui \in GUI /\ Prepares(gui)
    BY GuiPrepares
<1>2. CASE HandleUpdate
    <2>1. toGui # << >> /\ Return(FollowUpdate(gui, Head(toGui)), Tail(toGui))
        BY <1>2 DEF HandleUpdate
    <2>2. Head(toGui) \in Signal
        BY <2>1, HeadTailProperties DEF IInv, TypeOK
    <2>3. Prepares(FollowUpdate(gui, Head(toGui)))
        BY <1>1, <2>2, FollowUpdatePrepares
    <2>. QED
        BY <2>1, <2>3, PreparedByReturn
<1>3. CASE HandleFailure
    <2>1. PICK visible \in BOOLEAN : Return(RigFailure(gui, visible), Tail(toGui))
        BY <1>3 DEF HandleFailure
    <2>2. Prepares(RigFailure(gui, visible))
        BY <1>1, RigFailurePrepares
    <2>. QED
        BY <2>1, <2>2, PreparedByReturn
<1>. QED
    BY <1>2, <1>3 DEF GuiThread

(* The commands stay what they are, and a radio that was keyed is keyed.   *)
LEMMA PreparedStill ==
    ASSUME Prepared, UNCHANGED <<splitMode, toRig>>, gui'.cached = gui.cached,
           gui'.active = gui.active, Keyed => Keyed'
    PROVE  Prepared'
<1>1. Suits(toRig, Keyed)'
    BY DEF Prepared, Suits, Suited
<1>2. gui.active /\ gui.cached.ptt => EndsKeyed(toRig, Keyed)'
    BY DEF Prepared, EndsKeyed
<1>. QED
    BY <1>1, <1>2 DEF Prepared

(* A command is taken; one that keys the radio has keyed it.               *)
LEMMA PreparedByServing ==
    ASSUME IInv, Prepared, NEW do, Serve(do), UNCHANGED <<splitMode, gui>>,
           Keyed' \in BOOLEAN, Keying(Head(toRig)) => Keyed'
    PROVE  Prepared'
<1>1. /\ toRig # << >> /\ toRig' = Tail(toRig) /\ toRig \in Seq(Command)
      /\ Keyed \in BOOLEAN
    BY DEF Serve, IInv, TypeOK, Keyed, Radio, Rig
<1>2. /\ Suits(Tail(toRig), Keyed')
      /\ EndsKeyed(toRig, Keyed) => EndsKeyed(Tail(toRig), Keyed')
    BY <1>1, TailSuits DEF Prepared
<1>3. Suits(toRig, Keyed)'
    BY <1>1, <1>2 DEF Suits, Suited
<1>4. gui.active /\ gui.cached.ptt => EndsKeyed(toRig, Keyed)'
    BY <1>1, <1>2 DEF Prepared, EndsKeyed
<1>. QED
    BY <1>3, <1>4 DEF Prepared

-----------------------------------------------------------------------------
(* The rig thread.                                                         *)

LEMMA ServeStartPrepared ==
    ASSUME ~ReleaseFails, IInv, Prepared, ServeStart
    PROVE  Prepared' /\ ~radio'.ptt
<1>. PICK n \in {0, NeverFails} :
            MayFail(n, NeverFails)
         /\ Worked(Start(Handling(n), Head(toRig).newest, NeverFails))
    BY DEF ServeStart
<1>. DEFINE s == Handling(n)
            t == Start(s, Head(toRig).newest, NeverFails)
<1>1. Serve("start") /\ toRig # << >> /\ Head(toRig).do = "start"
    BY DEF ServeStart, Serve
<1>2. n \in Nat /\ NeverFails \in Nat
    BY DEF NeverFails
<1>3. s \in Handlings /\ s.radio = radio
    BY <1>2, HandlingIsTyped
<1>4. Head(toRig).newest \in BOOLEAN
    BY <1>1, HeadIsCommand DEF Command
<1>5. Worked(t)
    OBVIOUS
<1>6. ~radio.ptt
    <2>1. toRig \in Seq(Command) /\ Reset(toRig, ~rig.requested.online)
        BY DEF IInv, TypeOK, CommandsInOrder
    <2>2. 1 \in DOMAIN toRig /\ toRig[1].do = "start"
        BY <1>1, <2>1
    <2>3. ~rig.requested.online
        BY <2>1, <2>2 DEF Reset
    <2>. QED
        BY <2>3 DEF IInv, RigIsAtRest
<1>. HIDE DEF s
<1>7. t \in Handlings /\ ~t.radio.ptt
    BY <1>2, <1>3, <1>4, <1>6, StartIsAtRest
<1>. HIDE DEF t
<1>8. /\ radio' = t.radio /\ rig' = t.rig
      /\ UNCHANGED <<splitMode, gui>>
    BY <1>5 DEF Worked
<1>9. Keyed' \in BOOLEAN /\ ~Keying(Head(toRig))
    BY <1>1, <1>7, <1>8 DEF Keyed, Handlings, Radio, Rig, Keying
<1>. QED
    BY <1>1, <1>7, <1>8, <1>9, PreparedByServing

(* A radio that receives and was not touched is tuned where its object     *)
(* believes.                                                               *)
LEMMA UndisturbedDial ==
    ASSUME ~ReleaseFails, IInv, Undisturbed, ~radio.ptt
    PROVE  rig.actual.freq = radio.freq
<1>. DEFINE s == Handling(NeverFails)
            a == rig.actual
            b == [a EXCEPT !.freq = radio.freq, !.split = SplitIs(radio.split),
                           !.ptt = radio.ptt, !.tx = IF radio.split THEN radio.tx ELSE @]
            t == [s EXCEPT !.rig.actual = b, !.rig.requested.freq = radio.freq]
<1>1. ~rig.actual.ptt /\ rig \in Rig /\ radio \in Radio
    BY DEF IInv, TypeOK, RigIsAtRest
<1>2. NeverFails \in Nat /\ NeverFails # 0
    BY DEF NeverFails
<1>3. /\ s \in Handlings /\ ~s.threw /\ s.left = NeverFails
      /\ s.rig = rig /\ s.radio = radio
    BY <1>2, HandlingIsTyped
<1>. HIDE DEF s
<1>4. Read(s) = [t EXCEPT !.left = NeverFails - 1]
    BY <1>1, <1>2, <1>3 DEF Read, Access
<1>5. t.rig.actual = b
    BY <1>1, <1>3 DEF Handlings, Rig
<1>6. Read(s).rig.actual = b
    BY <1>3, <1>4, <1>5 DEF Handlings
<1>7. Read(s).rig.actual = rig.actual
    BY DEF Undisturbed, s
<1>8. b.freq = radio.freq
    BY <1>1 DEF Rig, State
<1>. QED
    BY <1>6, <1>7, <1>8

LEMMA ServeSetPrepared ==
    ASSUME ~ReleaseFails, IInv, Prepared, ServeSet
    PROVE  Prepared' /\ (KeysUndisturbed => OnTxFrequency)
<1>. PICK n \in Accesses, m \in {0, NeverFails} :
            MayFail(n, m)
         /\ Worked(Set(Handling(n), Head(toRig).state, Head(toRig).newest, m))
    BY DEF ServeSet
<1>. DEFINE s == Handling(n)
            want == Head(toRig).state
            e == Wanted(want)
            t == Set(s, want, Head(toRig).newest, m)
<1>1. Serve("set") /\ toRig # << >> /\ Head(toRig).do = "set"
    BY DEF ServeSet, Serve
<1>2. n \in Nat /\ m \in Nat
    BY DEF Accesses, NeverFails
<1>3. m > 1
    BY <1>2, MayFailType DEF NeverFails
<1>4. /\ s \in Handlings /\ ~s.threw /\ s.radio = radio /\ s.rig = rig
      /\ AtRest(s)
    BY <1>2, HandlingIsTyped
<1>5. Head(toRig).newest \in BOOLEAN /\ want \in State
    BY <1>1, HeadIsCommand DEF Command
<1>6. Worked(t)
    OBVIOUS
<1>. HIDE DEF s
<1>7. /\ t \in Handlings /\ Obeys(t, s, want)
      /\ t.radio.ptt /\ ~s.radio.ptt /\ ~s.rig.failed
         /\ s.rig.actual.freq = s.radio.freq /\ e.freq # 0 =>
           want.ptt /\ KeysOn(t.radio, s.radio, e)
    BY <1>2, <1>3, <1>4, <1>5, SetIsAtRest
<1>. HIDE DEF t
<1>8. /\ radio' = t.radio /\ rig' = t.rig
      /\ UNCHANGED <<splitMode, gui>>
    BY <1>6 DEF Worked
<1>9. Prepared'
    <2>1. Keyed' \in BOOLEAN
        BY <1>7, <1>8 DEF Keyed, Handlings, Radio, Rig
    <2>2. Keying(Head(toRig)) => Keyed'
        BY <1>7, <1>8 DEF Obeys, Keyed, Keying
    <2>. QED
        BY <1>1, <1>8, <2>1, <2>2, PreparedByServing
<1>10. ASSUME KeysUndisturbed PROVE OnTxFrequency
    <2>1. /\ ~radio.ptt /\ t.radio.ptt /\ Undisturbed /\ ~rig.failed
          /\ radio.split => splitMode = "rig"
        BY <1>8, <1>10 DEF KeysUndisturbed
    <2>2. rig.actual.freq = radio.freq
        BY <2>1, UndisturbedDial
    <2>3. want.ptt
        BY <1>4, <1>7, <2>1 DEF Obeys, AtRest
    <2>4. Suited(want)
        <3>1. toRig \in Seq(Command) /\ 1 \in DOMAIN toRig /\ Head(toRig) = toRig[1]
            BY <1>1 DEF IInv, TypeOK
        <3>2. Keying(toRig[1]) /\ ~Keyed
            BY <1>1, <2>1, <2>3, <3>1 DEF Keying, Keyed
        <3>. QED
            BY <3>1, <3>2 DEF Prepared, Suits
    <2>. SUFFICES ASSUME splitMode = "none" \/ TxOf(want.freq) # 0
                  PROVE  (IF t.radio.split THEN t.radio.tx ELSE t.radio.freq)
                            = (IF splitMode = "none" THEN want.freq ELSE TxOf(want.freq))
        BY <1>8 DEF OnTxFrequency
    <2>5. e.freq = IF splitMode = "emulate" THEN TxOf(want.freq) ELSE want.freq
        BY <1>5, <2>3, <2>4 DEF Wanted, Emulated, Suited, State
    <2>6. e.tx = IF splitMode = "rig" THEN TxOf(want.freq) ELSE 0
        <3>1. splitMode \in {"none", "rig", "emulate"}
            BY FrequencyAssumption DEF IInv, TypeOK
        <3>. QED
            BY <1>5, <2>4, <3>1, EmulatedIsState DEF Wanted, Suited
    <2>7. e.freq # 0
        BY <2>4, <2>5 DEF Suited
    <2>8. KeysOn(t.radio, radio, e)
        BY <1>4, <1>7, <2>1, <2>2, <2>7
    <2>9. splitMode \in {"none", "rig", "emulate"}
        BY FrequencyAssumption DEF IInv, TypeOK
    <2>. HIDE DEF e, want
    <2>. QED
        BY <2>1, <2>5, <2>6, <2>8, <2>9 DEF KeysOn
<1>. QED
    BY <1>9, <1>10

LEMMA ServeStopPrepared ==
    ASSUME ~ReleaseFails, IInv, Prepared, ServeStop
    PROVE  Prepared' /\ ~radio'.ptt
<1>. PICK m \in {0, NeverFails} :
            MayFail(NeverFails, m)
         /\ Worked([Shutdown(Handling(m), m) EXCEPT
                        !.out = << >>,
                        !.rig = [NewRig EXCEPT !.failed = Shutdown(Handling(m), m).rig.failed]])
    BY DEF ServeStop
<1>. DEFINE s == Handling(m)
            u == Shutdown(s, m)
            r == [NewRig EXCEPT !.failed = u.rig.failed]
            t == [u EXCEPT !.out = << >>, !.rig = r]
<1>1. Serve("stop") /\ Head(toRig).do = "stop"
    BY DEF ServeStop, Serve
<1>2. m \in Nat /\ NeverFails \in Nat
    BY DEF NeverFails
<1>3. m > 1
    BY <1>2, MayFailType DEF NeverFails
<1>4. s \in Handlings /\ AtRest(s)
    BY <1>2, HandlingIsTyped
<1>5. Worked(t)
    OBVIOUS
<1>. HIDE DEF s
<1>6. u \in Handlings /\ ~u.radio.ptt
    BY <1>2, <1>3, <1>4, ShutdownReleases DEF AtRest
<1>. HIDE DEF u
<1>7. t.rig = r /\ t.radio = u.radio /\ r.failed \in BOOLEAN
    BY <1>6 DEF Handlings, Rig, NewRig
<1>. HIDE DEF r, t
<1>8. /\ radio' = t.radio /\ rig' = t.rig
      /\ UNCHANGED <<splitMode, gui>>
    BY <1>5 DEF Worked
<1>9. Keyed' \in BOOLEAN /\ ~Keying(Head(toRig))
    BY <1>1, <1>6, <1>7, <1>8 DEF Keyed, Handlings, Radio, Keying
<1>. QED
    BY <1>1, <1>6, <1>7, <1>8, <1>9, PreparedByServing

LEMMA HandleTimeoutPrepared ==
    ASSUME ~ReleaseFails, IInv, Prepared, HandleTimeout
    PROVE  Prepared' /\ (radio'.ptt => radio.ptt)
<1>. PICK n \in {0, NeverFails}, m \in {0, NeverFails} :
            MayFail(n, m) /\ Worked(Poll(Handling(n), m))
    BY DEF HandleTimeout
<1>. DEFINE s == Handling(n)
            t == Poll(s, m)
<1>1. rig.polling /\ toRig' = toRig
    BY DEF HandleTimeout
<1>2. n \in Nat /\ m \in Nat
    BY DEF NeverFails
<1>3. m > 1
    BY <1>2, MayFailType DEF NeverFails
<1>4. s \in Handlings /\ s.radio = radio /\ s.rig = rig /\ AtRest(s)
    BY <1>2, HandlingIsTyped
<1>5. Worked(t)
    OBVIOUS
<1>. HIDE DEF s
<1>6. \/ t.radio = radio /\ t.rig.failed = rig.failed
      \/ ~t.radio.ptt /\ t.rig.failed
    BY <1>1, <1>2, <1>3, <1>4, PollIsAtRest
<1>. HIDE DEF t
<1>7. radio' = t.radio /\ rig' = t.rig /\ splitMode' = splitMode /\ gui' = gui
    BY <1>5 DEF Worked
<1>8. Keyed => Keyed'
    BY <1>6, <1>7 DEF Keyed
<1>. QED
    BY <1>1, <1>6, <1>7, <1>8, PreparedStill

(* Only a command that keys the radio keys it.                             *)
LEMMA StepPrepared ==
    ASSUME ~ReleaseFails, IInv, Prepared, [Next]_vars
    PROVE  Prepared' /\ [KeysUndisturbed => OnTxFrequency]_vars
<1>. SUFFICES Prepared' /\ (KeysUndisturbed => OnTxFrequency)
    OBVIOUS
<1>1. ASSUME NEW g, NEW events, Return(g, events)
      PROVE  ~KeysUndisturbed
    BY <1>1 DEF Return, KeysUndisturbed
<1>2. CASE \/ \E f \in Freq : Qsy(f)
           \/ Key \/ StopTx \/ StopTx2
           \/ ReadFreq \/ TestCat \/ RigOpen
           \/ \E changed \in BOOLEAN : AcceptSettings(changed)
           \/ \E retry \in BOOLEAN : AnswerBox(retry)
    <2>1. \E g, events : Return(g, events)
        BY <1>2, Zenon DEF Qsy, Key, StopTx, StopTx2, ReadFreq, TestCat, RigOpen,
                           AcceptSettings, AnswerBox, Handler
    <2>. QED
        BY <1>1, <1>2, <2>1, UserPrepared
<1>3. CASE GuiThread
    <2>1. \E g, events : Return(g, events)
        BY <1>3, Zenon DEF GuiThread, HandleUpdate, HandleFailure
    <2>. QED
        BY <1>1, <1>3, <2>1, GuiThreadPrepared
<1>4. CASE ServeStart \/ ServeStop \/ HandleTimeout
    BY <1>4, ServeStartPrepared, ServeStopPrepared, HandleTimeoutPrepared
    DEF KeysUndisturbed
<1>5. CASE ServeSet
    BY <1>5, ServeSetPrepared
<1>6. CASE Emit
    <2>1. UNCHANGED <<splitMode, gui, toRig, rig, radio>>
        BY <1>6 DEF Emit
    <2>. QED
        BY <2>1, PreparedStill DEF Keyed, KeysUndisturbed
<1>7. CASE TurnKnob
    <2>1. UNCHANGED <<splitMode, gui, toRig, rig>> /\ ~radio.ptt
        BY <1>7 DEF TurnKnob
    <2>2. ~radio'.ptt
        <3>1. radio \in Radio
            BY DEF IInv, TypeOK
        <3>2. CASE \E f \in Freq \ {radio.freq} : radio' = [radio EXCEPT !.freq = f]
            BY <2>1, <3>1, <3>2 DEF Radio
        <3>3. CASE radio' = [radio EXCEPT !.split = ~@]
            BY <2>1, <3>1, <3>3 DEF Radio
        <3>. QED
            BY <1>7, <3>2, <3>3 DEF TurnKnob
    <2>. QED
        BY <2>1, <2>2, PreparedStill DEF Keyed, KeysUndisturbed
<1>8. CASE UNCHANGED vars
    <2>1. UNCHANGED <<splitMode, gui, toRig, rig, radio>>
        BY <1>8 DEF vars
    <2>. QED
        BY <2>1, PreparedStill DEF Keyed, KeysUndisturbed
<1>. QED
    BY <1>2, <1>3, <1>4, <1>5, <1>6, <1>7, <1>8 DEF Next, RigThread

(* Whenever the radio is keyed, undisturbed and having obeyed so far, it is *)
(* keyed on the frequency that belongs to the dial frequency of its        *)
(* command: setRig and setXIT prepare both before prepareSending keys, and *)
(* no command, update or failure in between takes them apart.              *)
THEOREM KeyedCorrect ==
    ASSUME ReleaseFails = FALSE
    PROVE  Spec => KeyedOnTxFrequency
<1>1. /\ IInv /\ Prepared /\ [Next]_vars => Prepared'
      /\ IInv /\ Prepared /\ [Next]_vars => [KeysUndisturbed => OnTxFrequency]_vars
    BY StepPrepared
<1>. QED
    BY <1>1, InitIsPrepared, Invariant, PTL DEF Spec, KeyedOnTxFrequency

=============================================================================
