--------------------------- MODULE TxLoops_proofs ---------------------------
(* Proofs about the transmission loops, for all speeds, intervals (negative *)
(* ones of the API too), delays and drifts: type correctness; that one loop *)
(* runs at most and agrees with its button and its timer, and that what it  *)
(* plans is the start of a slot; how near the next transmission is, how far *)
(* two transmissions are from each other, and that a loop that triggers     *)
(* goes on unless its message is refused.                                   *)
EXTENDS TxLoops, SequenceTheorems, WellFoundedInduction, TLAPS

-----------------------------------------------------------------------------
(* Slots.                                                                  *)
LEMMA MultipleIsAligned ==
    ASSUME NEW p \in Nat, p > 0, NEW k \in Int
    PROVE  (p * k) % p = 0
BY SMT

LEMMA AlignedIsMultiple ==
    ASSUME NEW p \in Nat, p > 0, NEW t \in Int, t % p = 0
    PROVE  \E k \in Int : t = p * k
<1>1. t \div p \in Int /\ t = p * (t \div p) + (t % p)
    BY SMT
<1>. QED
    BY <1>1

(* What is rounded down to a slot is aligned.                              *)
LEMMA RoundedDown ==
    ASSUME NEW p \in Nat, p > 0, NEW t \in Int
    PROVE  t - (t % p) \in Int /\ (t - (t % p)) % p = 0
BY SMT

(* So is what is whole intervals later.                                    *)
LEMMA IntervalsLater ==
    ASSUME NEW p \in Nat, p > 0, NEW t \in Int, t % p = 0, NEW i \in Int, i % p = 0,
           NEW n \in Int
    PROVE  (t + n * i) % p = 0
<1>1. PICK a \in Int : t = p * a
    BY AlignedIsMultiple
<1>2. PICK b \in Int : i = p * b
    BY AlignedIsMultiple
<1>3. t + n * i = p * (a + n * b) /\ a + n * b \in Int
    BY <1>1, <1>2, SMT
<1>. QED
    BY <1>3, MultipleIsAligned

(* NextSlot rounds up.                                                     *)
LEMMA NextSlotIsAligned ==
    ASSUME NEW p \in Nat, p > 0, NEW t \in Int
    PROVE  NextSlot(t, p) \in Int /\ NextSlot(t, p) >= t /\ NextSlot(t, p) % p = 0
<1>1. t % p \in 0 .. p - 1 /\ t \div p \in Int /\ t = p * (t \div p) + (t % p)
    BY SMT
<1>2. CASE t % p = 0
    BY <1>2 DEF NextSlot
<1>3. CASE t % p # 0
    <2>1. NextSlot(t, p) = t + (p - (t % p))
        BY <1>3 DEF NextSlot
    <2>2. NextSlot(t, p) = p * ((t \div p) + 1)
        BY <2>1, <1>1
    <2>3. NextSlot(t, p) \in Int /\ NextSlot(t, p) >= t
        BY <2>1, <1>1
    <2>. QED
        BY <2>3, <2>2, MultipleIsAligned, <1>1
<1>. QED
    BY <1>2, <1>3

(* An interval holds a slot at least.                                      *)
LEMMA IntervalHoldsSlot ==
    ASSUME NEW p \in Nat, p > 0, NEW i \in Nat, i > 0, i % p = 0
    PROVE  i >= p
BY SMT

(* One whole period more than what it is late by is in the future.         *)
LEMMA PastTheLateness ==
    ASSUME NEW p \in Nat, p > 0, NEW t \in Nat
    PROVE  t \div p \in Nat /\ ((t \div p) + 1) * p > t
BY SMT

-----------------------------------------------------------------------------
(* States of the window.  An interval is one of the menu's or of the API's. *)
Chosen == Intervals \cup ApiIntervals

Settings == {f \in [Loops -> Chosen] : \A l \in Loops : f[l] \in Settable(l)}

Window == [loop : [Loops -> Loop], interval : Settings, selected : BOOLEAN,
           paused : BOOLEAN, speed : Submodes, submode : Submodes, delay : Delays,
           boxes : Seq(Box), outcome : Outcomes]

(* A loop, of which the button may have been pressed before it starts.  A  *)
(* negative period may leave it without a timer.                           *)
Orderly(x) ==
    /\ x \in Loop
    /\ x.active => /\ x.checked
                   /\ x.period \in Chosen \ {0}
                   /\ x.period > 0 => x.timer >= 0
    /\ ~x.active => x.timer = Unset

InStep(x) == Orderly(x) /\ (x.checked => x.active)

OnSlots(s) == \A l \in Loops : s.loop[l].active => s.loop[l].next % Period[s.submode] = 0

(* Good is what holds between two handlers; Pressed, while the CQ button   *)
(* is handled; Both are all loops, of which two may be active.             *)
Both(s)    == s \in Window /\ \A l \in Loops : Orderly(s.loop[l])
Pressed(s) == /\ Both(s) /\ OnSlots(s) /\ InStep(s.loop["hb"])
              /\ ~(s.loop["hb"].active /\ s.loop["cq"].active)
Good(s)    == Pressed(s) /\ InStep(s.loop["cq"])

(* What is the same in both.                                               *)
SameSettings(t, s) == /\ t.interval = s.interval /\ t.speed = s.speed
                      /\ t.submode = s.submode /\ t.delay = s.delay
                      /\ t.outcome = s.outcome

Same(t, s) == SameSettings(t, s) /\ t.selected = s.selected /\ t.paused = s.paused

Put(s, l, x) == [s EXCEPT !.loop = [s.loop EXCEPT ![l] = x]]

Stopped(x) == [x EXCEPT !.active = FALSE, !.timer = Unset, !.checked = FALSE]

LEMMA LoopsAre ==
    /\ "hb" \in Loops /\ "cq" \in Loops /\ "hb" # "cq"
    /\ \A l \in Loops : l = "hb" \/ l = "cq"
    /\ Other("hb") = "cq" /\ Other("cq") = "hb"
BY DEF Loops, Other

LEMMA SettingsAre ==
    /\ \A f \in Settings, l \in Loops : f[l] \in Chosen
    /\ \A f \in Settings, l \in Loops : \A i \in Settable(l) : [f EXCEPT ![l] = i] \in Settings
    /\ \A f : f \in Settings <=> /\ f \in [Loops -> Int]
                                 /\ \A l \in Loops : f[l] \in Settable(l)
<1>1. /\ \A l \in Loops : Settable(l) \subseteq Chosen
      /\ Chosen \subseteq Int
    BY TimesAssumption DEF Settable, Chosen
<1>2. ASSUME NEW f \in Settings, NEW l \in Loops, NEW i \in Settable(l)
      PROVE  [f EXCEPT ![l] = i] \in Settings
    BY <1>1 DEF Settings
<1>. QED
    BY <1>1, <1>2 DEF Settings

LEMMA PutIs ==
    ASSUME NEW s \in Window, NEW l \in Loops, NEW x \in Loop
    PROVE  /\ Put(s, l, x) \in Window /\ Same(Put(s, l, x), s)
           /\ Put(s, l, x).loop[l] = x
           /\ \A k \in Loops \ {l} : Put(s, l, x).loop[k] = s.loop[k]
<1>1. [s.loop EXCEPT ![l] = x] \in [Loops -> Loop]
    BY DEF Window
<1>. QED
    BY <1>1 DEF Put, Window, Same, SameSettings

LEMMA ChangedLoop ==
    ASSUME NEW x \in Loop, NEW a \in BOOLEAN, NEW c \in BOOLEAN, NEW p \in Int,
           NEW n \in Int, NEW t \in Int
    PROVE  /\ [x EXCEPT !.active = a, !.timer = t, !.checked = c] \in Loop
           /\ [x EXCEPT !.active = a, !.period = p, !.next = n, !.timer = t] \in Loop
           /\ [x EXCEPT !.next = n, !.timer = t] \in Loop
BY DEF Loop

LEMMA PressedLoop ==
    ASSUME NEW x \in Loop
    PROVE  [x EXCEPT !.checked = TRUE] \in Loop
BY DEF Loop

LEMMA StoppedIs ==
    ASSUME NEW x \in Loop
    PROVE  /\ Stopped(x) \in Loop /\ InStep(Stopped(x))
           /\ ~Stopped(x).active /\ ~Stopped(x).checked
<1>1. Stopped(x) \in Loop
    <2>1. FALSE \in BOOLEAN /\ Unset \in Int
        BY DEF Unset
    <2>. QED
        BY <2>1, ChangedLoop DEF Stopped
<1>2. Stopped(x).active = FALSE /\ Stopped(x).checked = FALSE /\ Stopped(x).timer = Unset
    BY DEF Stopped, Loop
<1>. QED
    BY <1>1, <1>2 DEF InStep, Orderly

-----------------------------------------------------------------------------
(* Stopping a loop.                                                        *)

(* t is s with some loops stopped.                                         *)
Stops(t, s) ==
    /\ t \in Window /\ Same(t, s)
    /\ \A l \in Loops : t.loop[l] = s.loop[l] \/ t.loop[l] = Stopped(s.loop[l])

LEMMA StopsTwice ==
    ASSUME NEW s \in Window, NEW t, NEW u, Stops(t, s), Stops(u, t)
    PROVE  Stops(u, s)
<1>1. \A x \in Loop : Stopped(Stopped(x)) = Stopped(x)
    BY DEF Stopped, Loop, Unset
<1>2. \A l \in Loops : s.loop[l] \in Loop
    BY DEF Window
<1>. QED
    BY <1>1, <1>2 DEF Stops, Same, SameSettings

LEMMA StoppingIsGood ==
    ASSUME NEW s, NEW t, Stops(t, s)
    PROVE  /\ Both(s) => Both(t)
           /\ Pressed(s) => Pressed(t)
           /\ Good(s) => Good(t)
<1>1. ASSUME Both(s)
      PROVE  /\ Both(t)
             /\ \A l \in Loops : /\ InStep(s.loop[l]) => InStep(t.loop[l])
                                 /\ t.loop[l].active => t.loop[l] = s.loop[l]
    BY <1>1, StoppedIs DEF Stops, Both, Orderly, InStep
<1>2. ASSUME Pressed(s)
      PROVE  Pressed(t)
    <2>1. Both(s) /\ s.submode = t.submode
        BY <1>2 DEF Pressed, Stops, Same, SameSettings
    <2>. QED
        BY <1>1, <1>2, <2>1, LoopsAre DEF Pressed, OnSlots
<1>3. ASSUME Good(s)
      PROVE  Good(t)
    BY <1>1, <1>2, <1>3, LoopsAre DEF Good, Pressed
<1>. QED
    BY <1>1, <1>2, <1>3

(* onLoopCancel.                                                           *)
LEMMA CancelStops ==
    ASSUME NEW s \in Window, NEW l \in Loops
    PROVE  /\ Stops(Cancel(s, l), s)
           /\ ~Cancel(s, l).loop[l].active
           /\ ~s.loop[l].active => Cancel(s, l) = s
           /\ \A k \in Loops \ {l} : Cancel(s, l).loop[k] = s.loop[k]
<1>1. s.loop[l] \in Loop
    BY DEF Window
<1>2. Cancel(s, l) = IF s.loop[l].active THEN Put(s, l, Stopped(s.loop[l])) ELSE s
    BY DEF Cancel, Put, Stopped, Window
<1>3. CASE s.loop[l].active
    BY <1>1, <1>2, <1>3, StoppedIs, PutIs DEF Stops
<1>4. CASE ~s.loop[l].active
    BY <1>2, <1>4 DEF Stops, Same, SameSettings
<1>. QED
    BY <1>3, <1>4

(* setChecked(false).                                                      *)
LEMMA UncheckStops ==
    ASSUME NEW s, Both(s), NEW l \in Loops
    PROVE  /\ Stops(Uncheck(s, l), s)
           /\ InStep(Uncheck(s, l).loop[l])
           /\ \A k \in Loops \ {l} : Uncheck(s, l).loop[k] = s.loop[k]
<1>1. s \in Window /\ s.loop[l] \in Loop /\ Orderly(s.loop[l])
    BY DEF Both, Window
<1>. DEFINE x == [s.loop[l] EXCEPT !.checked = FALSE]
            u == Put(s, l, x)
<1>2. x \in Loop /\ x.active = s.loop[l].active
    BY <1>1 DEF Loop
<1>3. Stopped(x) = Stopped(s.loop[l])
    BY <1>1 DEF Stopped, Loop
<1>4. ~x.active => x = Stopped(s.loop[l])
    BY <1>1, <1>2 DEF Stopped, Loop, Orderly
<1>5. Uncheck(s, l) = IF s.loop[l].checked THEN Cancel(u, l) ELSE s
    BY <1>1 DEF Uncheck, Put, Window
<1>. HIDE DEF x
<1>6. /\ u \in Window /\ Same(u, s) /\ u.loop[l] = x
      /\ \A k \in Loops \ {l} : u.loop[k] = s.loop[k]
    BY <1>1, <1>2, PutIs
<1>. HIDE DEF u
<1>7. CASE s.loop[l].checked
    <2>1. Stops(Cancel(u, l), u) /\ \A k \in Loops \ {l} : Cancel(u, l).loop[k] = u.loop[k]
        BY <1>6, CancelStops
    <2>2. Cancel(u, l).loop[l] = Stopped(s.loop[l])
        BY <1>2, <1>3, <1>4, <1>6, <2>1, CancelStops DEF Stops
    <2>3. Stops(Cancel(u, l), s)
        BY <1>6, <2>1, <2>2 DEF Stops, Same, SameSettings
    <2>. QED
        BY <1>1, <1>5, <1>6, <1>7, <2>1, <2>2, <2>3, StoppedIs
<1>8. CASE ~s.loop[l].checked
    BY <1>1, <1>5, <1>8 DEF Stops, Same, SameSettings, InStep
<1>. QED
    BY <1>7, <1>8

(* on_stopTxButton_clicked.                                                *)
LEMMA StopStops ==
    ASSUME NEW s \in Window
    PROVE  /\ Stops(Stop(s), s)
           /\ \A l \in Loops : /\ ~Stop(s).loop[l].active
                               /\ ~s.loop[l].active => Stop(s).loop[l] = s.loop[l]
<1>. DEFINE a == Cancel(s, "hb")
            b == Cancel(a, "cq")
<1>1. /\ Stops(a, s) /\ ~a.loop["hb"].active /\ a.loop["cq"] = s.loop["cq"] /\ a \in Window
      /\ ~s.loop["hb"].active => a = s
    BY CancelStops, LoopsAre DEF Stops
<1>. HIDE DEF a
<1>2. /\ Stops(b, a) /\ ~b.loop["cq"].active /\ b.loop["hb"] = a.loop["hb"]
      /\ ~a.loop["cq"].active => b = a
    BY <1>1, CancelStops, LoopsAre
<1>3. Stop(s) = b
    BY DEF Stop, a
<1>. HIDE DEF b
<1>4. Stops(b, s)
    BY <1>1, <1>2, StopsTwice
<1>. QED
    BY <1>1, <1>2, <1>3, <1>4, LoopsAre

(* tx_watchdog(true).                                                      *)
LEMMA TxWatchdogStops ==
    ASSUME NEW s, Both(s)
    PROVE  /\ Stops(TxWatchdog(s), s)
           /\ \A l \in Loops : InStep(TxWatchdog(s).loop[l])
<1>. DEFINE box == [hb |-> s.loop["hb"].checked, cq |-> s.loop["cq"].checked]
            u == [s EXCEPT !.boxes = Append(s.boxes, box)]
            a == Uncheck(u, "hb")
            b == Uncheck(a, "cq")
<1>1. s \in Window /\ "hb" \in Loops /\ "cq" \in Loops /\ "hb" # "cq"
    BY LoopsAre DEF Both
<1>2. box \in Box /\ s.boxes \in Seq(Box)
    BY <1>1 DEF Window, Loop, Box
<1>3. TxWatchdog(s) = b
    BY DEF TxWatchdog
<1>. HIDE DEF box
<1>4. Append(s.boxes, box) \in Seq(Box)
    BY <1>2, AppendProperties
<1>5. u \in Window /\ u.loop = s.loop /\ Same(u, s)
    BY <1>1, <1>4 DEF Window, Same, SameSettings
<1>. HIDE DEF u
<1>6. Both(u) /\ Stops(u, s)
    BY <1>5 DEF Both, Stops
<1>7. Stops(a, u) /\ InStep(a.loop["hb"])
    BY <1>1, <1>6, UncheckStops
<1>. HIDE DEF a
<1>8. Both(a)
    BY <1>6, <1>7, StoppingIsGood
<1>9. Stops(b, a) /\ InStep(b.loop["cq"]) /\ b.loop["hb"] = a.loop["hb"]
    BY <1>1, <1>8, UncheckStops
<1>. HIDE DEF b
<1>10. Stops(a, s)
    BY <1>1, <1>6, <1>7, StopsTwice
<1>11. Stops(b, s)
    BY <1>1, <1>9, <1>10, StopsTwice
<1>. QED
    BY <1>3, <1>7, <1>9, <1>11, LoopsAre

(* A message that is not let go leaves no loop running.                    *)
LEMMA TransmitStops ==
    ASSUME NEW s, Both(s)
    PROVE  /\ Stops(Transmit(s), s)
           /\ s.outcome = "ready" => Transmit(s) = s
           /\ s.outcome # "ready" => \A l \in Loops : ~Transmit(s).loop[l].active
           /\ s.outcome # "idle" =>
                \A l \in Loops : ~s.loop[l].active => Transmit(s).loop[l] = s.loop[l]
<1>1. s \in Window /\ s.outcome \in {"ready", "refused", "idle"}
    BY DEF Both, Window, Outcomes
<1>2. Stops(s, s)
    BY <1>1 DEF Stops, Same, SameSettings
<1>3. CASE s.outcome = "ready"
    BY <1>2, <1>3 DEF Transmit
<1>4. CASE s.outcome = "refused"
    <2>1. Transmit(s) = Stop(s)
        BY <1>4 DEF Transmit
    <2>. QED
        BY <1>1, <1>4, <2>1, StopStops
<1>5. CASE s.outcome = "idle"
    <2>1. Transmit(s) = Stop(TxWatchdog(s))
        BY <1>5 DEF Transmit
    <2>2. Stops(TxWatchdog(s), s) /\ TxWatchdog(s) \in Window
        BY TxWatchdogStops DEF Stops
    <2>3. /\ Stops(Stop(TxWatchdog(s)), TxWatchdog(s))
          /\ \A l \in Loops : ~Stop(TxWatchdog(s)).loop[l].active
        BY <2>2, StopStops
    <2>4. Stops(Stop(TxWatchdog(s)), s)
        BY <1>1, <2>2, <2>3, StopsTwice
    <2>. QED
        BY <1>5, <2>1, <2>3, <2>4
<1>. QED
    BY <1>1, <1>3, <1>4, <1>5

-----------------------------------------------------------------------------
(* Starting a loop.                                                        *)

(* What is chosen, and what the slots and the delays are.                  *)
LEMMA ChosenIs ==
    ASSUME NEW i \in Chosen \ {0}
    PROVE  i \in Int /\ i # 0 /\ \A m \in Submodes : i % Period[m] = 0
<1>1. i \in Int /\ i # 0
    <2>1. Intervals \subseteq Nat /\ ApiIntervals \subseteq Int
        BY TimesAssumption
    <2>. QED
        BY <2>1 DEF Chosen
<1>2. \A m \in Submodes : i % Period[m] = 0
    <2>1. i \in Intervals \cup ApiIntervals
        BY DEF Chosen
    <2>. QED
        BY <2>1, TimesAssumption
<1>. QED
    BY <1>1, <1>2

LEMMA SlotsAre ==
    ASSUME NEW m \in Submodes, NEW y \in Delays
    PROVE  /\ Period[m] \in Nat /\ Period[m] > 0
           /\ y \in Nat /\ y < Period[m]
<1>1. Period[m] \in Nat /\ Period[m] > 0
    BY SubmodesAssumption
<1>2. Delays \subseteq Nat /\ y < Period[m]
    BY TimesAssumption
<1>. QED
    BY <1>1, <1>2

LEMMA TimerToIs ==
    ASSUME NEW at \in Int, time \in Nat
    PROVE  TimerTo(at) \in Int /\ (at >= time => TimerTo(at) = at)
BY DEF TimerTo, Unset

(* onTxLoopPeriodChangeStart: the loop runs on slots, alone.               *)
LEMMA StartIsGood ==
    ASSUME NEW s, Both(s), NEW l \in Loops, s.loop[l].checked,
           NEW p \in Chosen \ {0}, time \in Nat
    PROVE  /\ Both(Start(s, l, p)) /\ OnSlots(Start(s, l, p)) /\ Same(Start(s, l, p), s)
           /\ Start(s, l, p).loop[l].active /\ Start(s, l, p).loop[l].period = p
           /\ \A k \in Loops \ {l} :
                /\ ~Start(s, l, p).loop[k].active
                /\ InStep(s.loop[k]) => InStep(Start(s, l, p).loop[k])
                /\ \/ Start(s, l, p).loop[k] = s.loop[k]
                   \/ s.loop[k].active /\ Start(s, l, p).loop[k] = Stopped(s.loop[k])
<1>. DEFINE slot == Period[s.submode]
            n == NextSlot(time + p, slot)
            wake == TimerTo(n - s.delay)
            x == [s.loop[l] EXCEPT !.active = TRUE, !.period = p, !.next = n, !.timer = wake]
            u == Put(s, l, x)
<1>1. /\ s \in Window /\ s.loop[l] \in Loop /\ \A k \in Loops : Orderly(s.loop[k])
      /\ s.submode \in Submodes /\ s.delay \in Delays
    BY DEF Both, Window
<1>2. /\ slot \in Nat /\ slot > 0 /\ p \in Int /\ p # 0 /\ p % slot = 0
      /\ s.delay \in Nat /\ s.delay < slot
    BY <1>1, ChosenIs, SlotsAre
<1>. HIDE DEF slot
<1>3. n \in Int /\ n >= time + p /\ n % slot = 0
    <2>1. time + p \in Int
        BY <1>2
    <2>. QED
        BY <1>2, <2>1, NextSlotIsAligned
<1>4. p > 0 => p >= slot
    BY <1>2, IntervalHoldsSlot
<1>5. wake \in Int /\ (p > 0 => wake = n - s.delay /\ wake >= 0)
    <2>1. n - s.delay \in Int /\ (p > 0 => n - s.delay >= time)
        BY <1>2, <1>3, <1>4
    <2>. HIDE DEF n
    <2>2. TimerTo(n - s.delay) \in Int /\ (p > 0 => TimerTo(n - s.delay) = n - s.delay)
        BY <2>1, TimerToIs
    <2>. QED
        BY <2>1, <2>2
<1>. HIDE DEF wake
<1>6. x \in Loop
    <2>1. TRUE \in BOOLEAN /\ n \in Int
        BY <1>3
    <2>. HIDE DEF n
    <2>. QED
        BY <1>1, <1>2, <1>5, <2>1, ChangedLoop
<1>7. /\ x.active = TRUE /\ x.checked = s.loop[l].checked /\ x.period = p
      /\ x.next = n /\ x.timer = wake
    BY <1>1 DEF Loop
<1>8. Start(s, l, p) = Cancel(u, Other(l))
    BY <1>1 DEF Start, Put, Window, slot, wake
<1>. HIDE DEF x, n
<1>9. /\ u \in Window /\ Same(u, s) /\ u.loop[l] = x
      /\ \A k \in Loops \ {l} : u.loop[k] = s.loop[k]
    BY <1>1, <1>6, PutIs
<1>. HIDE DEF u
<1>10. InStep(x)
    BY <1>5, <1>6, <1>7 DEF InStep, Orderly
<1>11. Both(u)
    BY <1>1, <1>9, <1>10 DEF Both, InStep
<1>12. Other(l) \in Loops /\ Other(l) # l /\ \A k \in Loops \ {l} : k = Other(l)
    BY LoopsAre
<1>. DEFINE t == Start(s, l, p)
<1>13. /\ Stops(t, u) /\ ~t.loop[Other(l)].active /\ t.loop[l] = x
       /\ ~s.loop[Other(l)].active => t.loop[Other(l)] = s.loop[Other(l)]
       /\ t.loop[Other(l)] = s.loop[Other(l)] \/ t.loop[Other(l)] = Stopped(s.loop[Other(l)])
    BY <1>8, <1>9, <1>12, CancelStops DEF Stops
<1>. HIDE DEF t
<1>14. Both(t) /\ Same(t, s)
    BY <1>9, <1>11, <1>13, StoppingIsGood DEF Stops, Same, SameSettings
<1>15. OnSlots(t)
    BY <1>3, <1>7, <1>12, <1>13, <1>14 DEF OnSlots, Same, SameSettings, slot
<1>16. InStep(s.loop[Other(l)]) => InStep(t.loop[Other(l)])
    <2>1. s.loop[Other(l)] \in Loop
        BY <1>1, <1>12 DEF Window
    <2>. QED
        BY <1>13, <2>1, StoppedIs
<1>. QED
    BY <1>7, <1>12, <1>13, <1>14, <1>15, <1>16 DEF t

(* A loop that has its button down may start, restart or move its timer.   *)
LEMMA StartedIsGood ==
    ASSUME NEW s, Both(s), NEW l \in Loops, s.loop[l].checked, InStep(s.loop[Other(l)]),
           NEW p \in Chosen \ {0}, time \in Nat
    PROVE  Good(Start(s, l, p)) /\ Same(Start(s, l, p), s)
<1>1. Other(l) \in Loops \ {l} /\ \A k \in Loops : k = l \/ k = Other(l)
    BY LoopsAre
<1>. DEFINE t == Start(s, l, p)
<1>2. /\ Both(t) /\ OnSlots(t) /\ Same(t, s) /\ t.loop[l].active
      /\ ~t.loop[Other(l)].active /\ InStep(t.loop[Other(l)])
    BY <1>1, StartIsGood
<1>. HIDE DEF t
<1>3. InStep(t.loop[l])
    BY <1>2 DEF Both, InStep
<1>. QED
    BY <1>1, <1>2, <1>3, LoopsAre DEF Good, Pressed, t

LEMMA RestartIsGood ==
    ASSUME NEW s, Both(s), \A k \in Loops : InStep(s.loop[k]), NEW l \in Loops, time \in Nat
    PROVE  /\ Both(Restart(s, l)) /\ Same(Restart(s, l), s)
           /\ \A k \in Loops : InStep(Restart(s, l).loop[k])
           /\ s.loop[l].active => Good(Restart(s, l))
           /\ ~s.loop[l].active => Restart(s, l) = s
           /\ Good(s) => Good(Restart(s, l))
<1>1. CASE s.loop[l].active
    <2>1. s.loop[l].checked /\ s.loop[l].period \in Chosen \ {0}
        BY <1>1 DEF Both, Orderly
    <2>2. Good(Start(s, l, s.loop[l].period)) /\ Same(Start(s, l, s.loop[l].period), s)
        BY <2>1, StartedIsGood, LoopsAre
    <2>. QED
        BY <1>1, <2>2, LoopsAre DEF Restart, Good, Pressed
<1>2. CASE ~s.loop[l].active
    BY <1>2 DEF Restart, Same, SameSettings
<1>. QED
    BY <1>1, <1>2

-----------------------------------------------------------------------------
(* The buttons and the selection.                                          *)

(* What pressing the heartbeat's button, or a deselection that does, makes *)
(* of the window: the other loop stops only if it runs, unless the user is *)
(* idle.                                                                   *)
Resumes(t, s) ==
    /\ Pressed(t) /\ SameSettings(t, s)
    /\ \/ t.loop["cq"] = s.loop["cq"]
       \/ /\ t.loop["cq"] = Stopped(s.loop["cq"])
          /\ s.loop["cq"].active \/ s.outcome = "idle"

LEMMA ResumesIsGood ==
    ASSUME NEW s, NEW t, Good(s), Resumes(t, s)
    PROVE  Good(t)
<1>1. s.loop["cq"] \in Loop
    BY LoopsAre DEF Good, Pressed, Both, Window
<1>. QED
    BY <1>1, StoppedIs DEF Good, Resumes

(* Setting fields other than the loops.                                    *)
LEMMA SelectionIs ==
    ASSUME NEW s \in Window, NEW a \in BOOLEAN, NEW b \in BOOLEAN
    PROVE  LET t == [s EXCEPT !.selected = a, !.paused = b]
           IN  /\ t \in Window /\ t.loop = s.loop /\ SameSettings(t, s)
               /\ t.selected = a /\ t.paused = b
BY DEF Window, SameSettings

LEMMA CheckHbIsGood ==
    ASSUME NEW s, Pressed(s), time \in Nat, pause \in BOOLEAN
    PROVE  Resumes(CheckHb(s), s)
<1>1. /\ s \in Window /\ Both(s) /\ OnSlots(s) /\ InStep(s.loop["hb"])
      /\ s.loop["hb"] \in Loop /\ s.selected \in BOOLEAN /\ s.paused \in BOOLEAN
      /\ s.interval["hb"] \in Chosen
    BY LoopsAre, SettingsAre DEF Pressed, Both, Window
<1>2. CASE s.loop["hb"].checked
    BY <1>1, <1>2 DEF CheckHb, Resumes, SameSettings
<1>3. CASE ~s.loop["hb"].checked
    <2>. DEFINE clears == pause /\ s.selected
                x == [s.loop["hb"] EXCEPT !.checked = TRUE]
                u == Put(s, "hb", x)
                c == [u EXCEPT !.selected = s.selected /\ ~clears,
                               !.paused = s.paused /\ ~clears]
    <2>1. ~s.loop["hb"].active
        BY <1>1, <1>3 DEF InStep, Orderly
    <2>2. /\ x \in Loop /\ ~x.active /\ x.checked /\ x.timer = Unset
          /\ Stopped(x) = s.loop["hb"] /\ Orderly(x)
        <3>1. x \in Loop
            BY <1>1, PressedLoop
        <3>2. x.active = s.loop["hb"].active /\ x.checked = TRUE /\ x.timer = s.loop["hb"].timer
            BY <1>1 DEF Loop
        <3>3. s.loop["hb"].timer = Unset
            BY <1>1, <2>1 DEF InStep, Orderly
        <3>4. Stopped(x) = s.loop["hb"]
            <4>1. Stopped(x) = Stopped(s.loop["hb"])
                BY <1>1 DEF Stopped, Loop
            <4>2. s.loop["hb"] = Stopped(s.loop["hb"])
                BY <1>1, <1>3, <2>1, <3>3 DEF Stopped, Loop
            <4>. QED
                BY <4>1, <4>2
        <3>. QED
            BY <2>1, <3>1, <3>2, <3>3, <3>4 DEF Orderly
    <2>3. CheckHb(s) = IF s.interval["hb"] # 0 THEN Start(c, "hb", s.interval["hb"])
                       ELSE Uncheck(Transmit(Cancel(c, "hb")), "hb")
        BY <1>1, <1>3, <2>1 DEF CheckHb, Put, Window, Loops
    <2>. HIDE DEF x
    <2>4. /\ u \in Window /\ Same(u, s) /\ u.loop["hb"] = x /\ u.loop["cq"] = s.loop["cq"]
        BY <1>1, <2>2, PutIs, LoopsAre
    <2>. HIDE DEF u
    <2>5. c \in Window /\ c.loop = u.loop /\ SameSettings(c, u)
        <3>1. (s.selected /\ ~clears) \in BOOLEAN /\ (s.paused /\ ~clears) \in BOOLEAN
            OBVIOUS
        <3>. QED
            BY <2>4, <3>1, SelectionIs
    <2>. HIDE DEF c
    <2>6. Both(c) /\ SameSettings(c, s)
        BY <1>1, <2>2, <2>4, <2>5, LoopsAre DEF Both, Same, SameSettings
    <2>7. CASE s.interval["hb"] # 0
        <3>. DEFINE t == Start(c, "hb", s.interval["hb"])
        <3>1. s.interval["hb"] \in Chosen \ {0} /\ c.loop["hb"].checked
            BY <1>1, <2>2, <2>4, <2>5, <2>7
        <3>2. /\ Both(t) /\ OnSlots(t) /\ Same(t, c) /\ t.loop["hb"].active
              /\ ~t.loop["cq"].active
              /\ \/ t.loop["cq"] = c.loop["cq"]
                 \/ c.loop["cq"].active /\ t.loop["cq"] = Stopped(c.loop["cq"])
            BY <2>6, <3>1, StartIsGood, LoopsAre
        <3>. HIDE DEF t
        <3>3. Pressed(t) /\ SameSettings(t, s)
            BY <2>6, <3>2, LoopsAre DEF Pressed, Both, InStep, Orderly, Same, SameSettings
        <3>4. CheckHb(s) = t
            BY <2>3, <2>7 DEF t
        <3>. QED
            BY <2>4, <2>5, <3>2, <3>3, <3>4 DEF Resumes
    <2>8. CASE s.interval["hb"] = 0
        <3>. DEFINE v == Transmit(c)
                    t == Uncheck(v, "hb")
        <3>1. Cancel(c, "hb") = c
            BY <2>2, <2>4, <2>5, CancelStops, LoopsAre
        <3>2. CheckHb(s) = t
            BY <2>3, <2>8, <3>1
        <3>3. /\ Stops(v, c)
              /\ c.outcome # "idle" =>
                    \A l \in Loops : ~c.loop[l].active => v.loop[l] = c.loop[l]
            BY <2>6, TransmitStops
        <3>. HIDE DEF v
        <3>4. Both(v) /\ v \in Window
            BY <2>6, <3>3, StoppingIsGood DEF Both
        <3>5. Stops(t, v) /\ InStep(t.loop["hb"]) /\ t.loop["cq"] = v.loop["cq"]
            BY <3>4, UncheckStops, LoopsAre
        <3>. HIDE DEF t
        <3>6. Stops(t, c)
            BY <2>5, <3>3, <3>5, StopsTwice
        <3>7. Both(t) /\ SameSettings(t, s)
            BY <2>6, <3>6, StoppingIsGood DEF Stops, Same, SameSettings
        <3>8. ~t.loop["hb"].active
            BY <2>2, <2>4, <2>5, <3>6, StoppedIs, LoopsAre DEF Stops
        <3>9. /\ \/ t.loop["cq"] = s.loop["cq"]
                 \/ /\ t.loop["cq"] = Stopped(s.loop["cq"])
                    /\ s.loop["cq"].active \/ s.outcome = "idle"
              /\ t.loop["cq"].active => t.loop["cq"] = s.loop["cq"]
            <4>1. t.loop["cq"] = s.loop["cq"] \/ t.loop["cq"] = Stopped(s.loop["cq"])
                BY <2>4, <2>5, <3>6, LoopsAre DEF Stops
            <4>2. s.outcome # "idle" /\ ~s.loop["cq"].active => t.loop["cq"] = s.loop["cq"]
                BY <2>4, <2>5, <2>6, <3>3, <3>5, LoopsAre DEF SameSettings
            <4>3. s.loop["cq"] \in Loop
                BY <1>1, LoopsAre DEF Window
            <4>. QED
                BY <4>1, <4>2, <4>3, StoppedIs
        <3>10. OnSlots(t)
            BY <1>1, <3>7, <3>8, <3>9, LoopsAre DEF OnSlots, SameSettings
        <3>. QED
            BY <3>2, <3>5, <3>7, <3>8, <3>9, <3>10 DEF Resumes, Pressed
    <2>. QED
        BY <1>3, <2>3, <2>7, <2>8
<1>. QED
    BY <1>2, <1>3

(* Clearing the selection, which may resume the heartbeat.                 *)
LEMMA DeselectIsGood ==
    ASSUME NEW s, Pressed(s), time \in Nat, pause \in BOOLEAN
    PROVE  Resumes(Deselect(s), s)
<1>1. s \in Window /\ s.selected \in BOOLEAN /\ s.paused \in BOOLEAN
    BY DEF Pressed, Both, Window
<1>2. CASE ~s.selected
    BY <1>2 DEF Deselect, Resumes, SameSettings
<1>. DEFINE u == [s EXCEPT !.selected = FALSE]
            c == CheckHb(u)
<1>3. u \in Window /\ u.loop = s.loop /\ SameSettings(u, s)
    BY <1>1 DEF Window, SameSettings
<1>4. Pressed(u)
    BY <1>3 DEF Pressed, Both, OnSlots, SameSettings
<1>5. Resumes(u, s)
    BY <1>3, <1>4 DEF Resumes
<1>. HIDE DEF u
<1>6. Resumes(c, u)
    BY <1>4, CheckHbIsGood
<1>7. CASE s.selected /\ s.paused
    <2>. DEFINE t == [c EXCEPT !.paused = FALSE]
    <2>1. c \in Window
        BY <1>6 DEF Resumes, Pressed, Both
    <2>. HIDE DEF c
    <2>2. t \in Window /\ t.loop = c.loop /\ SameSettings(t, c)
        BY <2>1 DEF Window, SameSettings
    <2>3. Deselect(s) = t
        BY <1>7 DEF Deselect, u, c
    <2>. HIDE DEF t
    <2>4. Pressed(t)
        BY <1>6, <2>2 DEF Resumes, Pressed, Both, OnSlots, SameSettings
    <2>. QED
        BY <1>3, <1>6, <2>2, <2>3, <2>4 DEF Resumes, SameSettings
<1>8. CASE s.selected /\ ~s.paused
    BY <1>5, <1>8 DEF Deselect, u
<1>. QED
    BY <1>1, <1>2, <1>7, <1>8

LEMMA SendCQIsGood ==
    ASSUME NEW s, Pressed(s), NEW repeat \in BOOLEAN, time \in Nat, pause \in BOOLEAN
    PROVE  /\ Pressed(SendCQ(s, repeat)) /\ SameSettings(SendCQ(s, repeat), s)
           /\ Good(s) => Good(SendCQ(s, repeat))
<1>. DEFINE u == IF repeat THEN s ELSE Cancel(Cancel(s, "cq"), "hb")
<1>1. s \in Window /\ "cq" \in Loops /\ "hb" \in Loops
    BY LoopsAre DEF Pressed, Both
<1>2. Stops(u, s)
    <2>1. Stops(s, s)
        BY <1>1 DEF Stops, Same, SameSettings
    <2>2. Stops(Cancel(s, "cq"), s)
        BY <1>1, CancelStops
    <2>3. Cancel(s, "cq") \in Window
        BY <2>2 DEF Stops
    <2>4. Stops(Cancel(Cancel(s, "cq"), "hb"), Cancel(s, "cq"))
        BY <1>1, <2>3, CancelStops
    <2>5. Stops(Cancel(Cancel(s, "cq"), "hb"), s)
        BY <1>1, <2>2, <2>4, StopsTwice
    <2>. QED
        BY <2>1, <2>5
<1>. HIDE DEF u
<1>3. Pressed(u) /\ (Good(s) => Good(u)) /\ SameSettings(u, s)
    BY <1>2, StoppingIsGood DEF Stops, Same
<1>4. Resumes(Deselect(u), u)
    BY <1>3, DeselectIsGood
<1>5. SendCQ(s, repeat) = Transmit(Deselect(u))
    BY DEF SendCQ, u
<1>. DEFINE c == Deselect(u)
<1>6. Pressed(c) /\ (Good(s) => Good(c)) /\ SameSettings(c, s)
    BY <1>3, <1>4, ResumesIsGood DEF Resumes, SameSettings
<1>. HIDE DEF c
<1>7. Stops(Transmit(c), c)
    BY <1>6, TransmitStops DEF Pressed
<1>. QED
    BY <1>5, <1>6, <1>7, StoppingIsGood DEF c, Stops, Same, SameSettings

(* The CQ button's handler clears the selection before the loop starts.    *)
LEMMA CheckCqIsGood ==
    ASSUME NEW s, Good(s), s.outcome # "idle", time \in Nat, pause \in BOOLEAN
    PROVE  Good(CheckCq(s)) /\ SameSettings(CheckCq(s), s)
<1>1. /\ s \in Window /\ Pressed(s) /\ InStep(s.loop["cq"]) /\ s.loop["cq"] \in Loop
      /\ "cq" \in Loops /\ "hb" \in Loops /\ Both(s)
    BY LoopsAre DEF Good, Pressed, Both, Window
<1>2. CASE s.loop["cq"].checked
    BY <1>2 DEF CheckCq, SameSettings
<1>3. CASE ~s.loop["cq"].checked
    <2>. DEFINE x == [s.loop["cq"] EXCEPT !.checked = TRUE]
                u == Put(s, "cq", x)
                c == Deselect(u)
    <2>1. ~s.loop["cq"].active
        BY <1>1, <1>3 DEF InStep, Orderly
    <2>2. x \in Loop /\ ~x.active /\ x.checked /\ Orderly(x)
        <3>1. x \in Loop
            BY <1>1, PressedLoop
        <3>2. x.active = s.loop["cq"].active /\ x.checked = TRUE /\ x.timer = s.loop["cq"].timer
            BY <1>1 DEF Loop
        <3>3. s.loop["cq"].timer = Unset
            BY <1>1, <2>1 DEF InStep, Orderly
        <3>. QED
            BY <2>1, <3>1, <3>2, <3>3 DEF Orderly
    <2>3. CheckCq(s) = IF s.interval["cq"] # 0 THEN Start(c, "cq", s.interval["cq"])
                       ELSE Uncheck(SendCQ(Cancel(c, "cq"), FALSE), "cq")
        <3>1. u = [s EXCEPT !.loop["cq"].checked = TRUE]
            BY <1>1 DEF Put, Window
        <3>. QED
            BY <1>3, <3>1 DEF CheckCq
    <2>. HIDE DEF x
    <2>4. u \in Window /\ Same(u, s) /\ u.loop["cq"] = x /\ u.loop["hb"] = s.loop["hb"]
        BY <1>1, <2>2, PutIs, LoopsAre
    <2>. HIDE DEF u
    <2>5. Pressed(u)
        BY <1>1, <2>2, <2>4, LoopsAre DEF Pressed, Both, OnSlots, Same, SameSettings
    <2>6. Resumes(c, u)
        BY <2>5, DeselectIsGood
    <2>. HIDE DEF c
    <2>7. Pressed(c) /\ Both(c) /\ SameSettings(c, s) /\ c.loop["cq"] = x /\ c \in Window
        BY <2>2, <2>4, <2>6 DEF Resumes, Pressed, Both, Same, SameSettings
    <2>8. CASE s.interval["cq"] # 0
        <3>1. s.interval["cq"] \in Chosen \ {0}
            BY <1>1, <2>8, SettingsAre DEF Window
        <3>2. InStep(c.loop["hb"])
            BY <2>7 DEF Pressed
        <3>3. /\ Good(Start(c, "cq", s.interval["cq"]))
              /\ Same(Start(c, "cq", s.interval["cq"]), c)
            BY <1>1, <2>2, <2>7, <3>1, <3>2, StartedIsGood, LoopsAre
        <3>. QED
            BY <2>3, <2>7, <2>8, <3>3 DEF Same, SameSettings
    <2>9. CASE s.interval["cq"] = 0
        <3>. DEFINE d == SendCQ(c, FALSE)
        <3>1. Cancel(c, "cq") = c
            BY <1>1, <2>2, <2>7, CancelStops
        <3>2. Pressed(d) /\ SameSettings(d, c)
            BY <2>7, SendCQIsGood
        <3>. HIDE DEF d
        <3>3. Both(d)
            BY <3>2 DEF Pressed
        <3>4. Stops(Uncheck(d, "cq"), d) /\ InStep(Uncheck(d, "cq").loop["cq"])
            BY <1>1, <3>3, UncheckStops
        <3>5. Good(Uncheck(d, "cq"))
            BY <3>2, <3>4, StoppingIsGood DEF Good
        <3>. QED
            BY <2>3, <2>7, <2>9, <3>1, <3>2, <3>4, <3>5 DEF d, Stops, Same, SameSettings
    <2>. QED
        BY <2>3, <2>8, <2>9
<1>. QED
    BY <1>2, <1>3

LEMMA SetCheckedIsGood ==
    ASSUME NEW s, Good(s), NEW l \in Loops, NEW checked \in BOOLEAN,
           l = "cq" => s.outcome # "idle", time \in Nat, pause \in BOOLEAN
    PROVE  Good(SetChecked(s, l, checked)) /\ SameSettings(SetChecked(s, l, checked), s)
<1>1. Pressed(s) /\ Both(s)
    BY DEF Good, Pressed
<1>2. Good(Uncheck(s, l)) /\ SameSettings(Uncheck(s, l), s)
    BY <1>1, UncheckStops, StoppingIsGood DEF Stops, Same
<1>3. Good(CheckHb(s)) /\ SameSettings(CheckHb(s), s)
    BY <1>1, CheckHbIsGood, ResumesIsGood DEF Resumes
<1>4. l = "cq" => Good(CheckCq(s)) /\ SameSettings(CheckCq(s), s)
    BY CheckCqIsGood
<1>. QED
    BY <1>2, <1>3, <1>4, LoopsAre DEF SetChecked

LEMMA PreparedIsGood ==
    ASSUME NEW s, Good(s), NEW enabled \in BOOLEAN
    PROVE  Stops(PrepareHeartbeatMode(s, enabled), s)
<1>1. s \in Window /\ "hb" \in Loops
    BY LoopsAre DEF Good, Pressed, Both
<1>2. Stops(s, s)
    BY <1>1 DEF Stops, Same, SameSettings
<1>3. Stops(Cancel(s, "hb"), s)
    BY <1>1, CancelStops
<1>4. Both(Cancel(s, "hb")) /\ Good(Cancel(s, "hb"))
    BY <1>3, StoppingIsGood DEF Good, Pressed
<1>5. Stops(Uncheck(Cancel(s, "hb"), "hb"), Cancel(s, "hb"))
    BY <1>1, <1>4, UncheckStops
<1>6. Stops(Uncheck(Cancel(s, "hb"), "hb"), s)
    BY <1>1, <1>3, <1>5, StopsTwice
<1>. QED
    BY <1>2, <1>6 DEF PrepareHeartbeatMode

(* callsignSelectedChanged.                                                *)
LEMMA SelectCallIsGood ==
    ASSUME NEW s, Good(s), pause \in BOOLEAN
    PROVE  Good(SelectCall(s)) /\ SameSettings(SelectCall(s), s)
<1>. DEFINE a == IF pause THEN Uncheck(s, "hb") ELSE s
            b == IF pause THEN Uncheck(a, "cq") ELSE a
            paused == s.paused \/ (pause /\ s.loop["hb"].checked)
<1>1. "hb" \in Loops /\ "cq" \in Loops /\ s \in Window /\ Both(s)
    BY LoopsAre DEF Good, Pressed, Both
<1>2. Good(a) /\ SameSettings(a, s)
    BY <1>1, UncheckStops, StoppingIsGood DEF Stops, Same, SameSettings
<1>3. SelectCall(s) = [b EXCEPT !.selected = TRUE, !.paused = paused]
    BY DEF SelectCall
<1>. HIDE DEF a
<1>4. Good(b) /\ SameSettings(b, s)
    <2>1. Both(a)
        BY <1>2 DEF Good, Pressed
    <2>2. Stops(Uncheck(a, "cq"), a)
        BY <1>1, <2>1, UncheckStops
    <2>3. Good(Uncheck(a, "cq")) /\ SameSettings(Uncheck(a, "cq"), a)
        BY <1>2, <2>2, StoppingIsGood DEF Stops, Same
    <2>. QED
        BY <1>2, <2>3 DEF SameSettings
<1>5. TRUE \in BOOLEAN /\ paused \in BOOLEAN
    <2>1. s.paused \in BOOLEAN /\ s.loop["hb"].checked \in BOOLEAN
        BY <1>1 DEF Window, Loop
    <2>. QED
        BY <2>1
<1>. HIDE DEF b, paused
<1>6. /\ b \in Window /\ SelectCall(s) \in Window /\ SelectCall(s).loop = b.loop
      /\ SameSettings(SelectCall(s), b)
    <2>1. b \in Window
        BY <1>4 DEF Good, Pressed, Both
    <2>. QED
        BY <1>3, <1>5, <2>1 DEF Window, SameSettings
<1>. QED
    BY <1>4, <1>6 DEF Good, Pressed, Both, OnSlots, SameSettings

(* Planning another start of a running loop.                               *)
LEMMA RescheduledIsGood ==
    ASSUME NEW s, Good(s), NEW l \in Loops, s.loop[l].active,
           NEW n \in Int, n % Period[s.submode] = 0, NEW k \in Int,
           s.loop[l].period > 0 => k >= 0
    PROVE  LET x == [s.loop[l] EXCEPT !.next = n, !.timer = k]
           IN  Good(Put(s, l, x)) /\ Same(Put(s, l, x), s)
<1>. DEFINE x == [s.loop[l] EXCEPT !.next = n, !.timer = k]
            u == Put(s, l, x)
<1>1. s \in Window /\ Both(s) /\ s.loop[l] \in Loop /\ InStep(s.loop[l])
    BY LoopsAre DEF Good, Pressed, Both, Window
<1>2. x \in Loop
    <2>1. k \in Int
        OBVIOUS
    <2>. QED
        BY <1>1, <2>1 DEF Loop
<1>3. /\ x.active = s.loop[l].active /\ x.checked = s.loop[l].checked
      /\ x.period = s.loop[l].period /\ x.next = n /\ x.timer = k
    BY <1>1 DEF Loop
<1>. HIDE DEF x
<1>4. InStep(x)
    BY <1>1, <1>2, <1>3 DEF InStep, Orderly
<1>5. /\ u \in Window /\ Same(u, s) /\ u.loop[l] = x
      /\ \A j \in Loops \ {l} : u.loop[j] = s.loop[j]
    BY <1>1, <1>2, PutIs
<1>. HIDE DEF u
<1>6. Both(u)
    BY <1>1, <1>4, <1>5 DEF Both, InStep
<1>7. OnSlots(u)
    BY <1>3, <1>5 DEF Good, Pressed, OnSlots, Same, SameSettings
<1>8. \A j \in Loops : InStep(u.loop[j]) /\ (u.loop[j].active <=> s.loop[j].active)
    BY <1>3, <1>4, <1>5, LoopsAre DEF Good, Pressed
<1>. QED
    BY <1>5, <1>6, <1>7, <1>8, LoopsAre DEF Good, Pressed, u, x

(* onDriftChange: the timer is moved, or the loop starts again.            *)
LEMMA OnDriftChangeIsGood ==
    ASSUME NEW s, Good(s), NEW l \in Loops, NEW d \in Drifts, time \in Nat
    PROVE  Good(OnDriftChange(s, l, d)) /\ Same(OnDriftChange(s, l, d), s)
<1>. DEFINE now == Drifted(time, d)
            push == s.loop[l].next - s.delay
            x == [s.loop[l] EXCEPT !.timer = time + (push - now)]
            y == [s.loop[l] EXCEPT !.next = s.loop[l].next, !.timer = time + (push - now)]
<1>1. /\ s \in Window /\ Both(s) /\ s.loop[l] \in Loop /\ InStep(s.loop[l])
      /\ InStep(s.loop[Other(l)]) /\ s.delay \in Delays /\ OnSlots(s)
    BY LoopsAre DEF Good, Pressed, Both, Window
<1>2. s.loop[l].next \in Int /\ s.delay \in Int /\ d \in Int
    <2>1. Delays \subseteq Nat /\ Drifts \subseteq Int
        BY TimesAssumption
    <2>2. s.delay \in Nat /\ d \in Int
        BY <1>1, <2>1
    <2>3. s.loop[l].next \in Int
        BY <1>1 DEF Loop
    <2>. QED
        BY <2>2, <2>3
<1>3. CASE ~s.loop[l].active
    BY <1>3 DEF OnDriftChange, Same, SameSettings
<1>4. CASE s.loop[l].active /\ now < push /\ push < now + s.loop[l].period
    <2>1. time + (push - now) \in Nat
        BY <1>2, <1>4 DEF Drifted
    <2>2. x = y
        BY <1>1 DEF Loop
    <2>3. OnDriftChange(s, l, d) = Put(s, l, x)
        BY <1>1, <1>4 DEF OnDriftChange, Put, Window
    <2>4. s.loop[l].next % Period[s.submode] = 0
        BY <1>1, <1>4 DEF OnSlots
    <2>5. Good(Put(s, l, y)) /\ Same(Put(s, l, y), s)
        <3>1. PICK k \in Int : k = time + (push - now) /\ k >= 0
            BY <2>1
        <3>2. /\ Good(Put(s, l, [s.loop[l] EXCEPT !.next = s.loop[l].next, !.timer = k]))
              /\ Same(Put(s, l, [s.loop[l] EXCEPT !.next = s.loop[l].next, !.timer = k]), s)
            BY <1>2, <1>4, <2>4, <3>1, RescheduledIsGood
        <3>. QED
            BY <3>1, <3>2
    <2>. QED
        BY <2>2, <2>3, <2>5
<1>5. CASE s.loop[l].active /\ ~(now < push /\ push < now + s.loop[l].period)
    <2>1. s.loop[l].checked /\ s.loop[l].period \in Chosen \ {0}
        BY <1>1, <1>5 DEF InStep, Orderly
    <2>2. OnDriftChange(s, l, d) = Start(s, l, s.loop[l].period)
        BY <1>5 DEF OnDriftChange
    <2>. QED
        BY <1>1, <2>1, <2>2, StartedIsGood
<1>. QED
    BY <1>3, <1>4, <1>5

-----------------------------------------------------------------------------
(* The inductive invariant.                                                *)
Running(l) ==
    /\ loop[l].active => /\ loop[l].checked
                         /\ loop[l].period \in Chosen \ {0}
                         /\ loop[l].period > 0 => loop[l].timer >= 0
                         /\ loop[l].next % Period[m_submode] = 0
    /\ ~loop[l].active => loop[l].timer = Unset /\ ~loop[l].checked

IInv ==
    /\ TypeOK
    /\ \A l \in Loops : Running(l)
    /\ ~(loop["hb"].active /\ loop["cq"].active)

LEMMA StateIsGood ==
    ASSUME IInv, NEW o \in Outcomes
    PROVE  /\ Good(State(o)) /\ State(o) \in Window /\ time \in Nat /\ pause \in BOOLEAN
           /\ hbMode \in BOOLEAN /\ State(o).loop = loop /\ State(o).submode = m_submode
           /\ State(o).delay = m_tx_delay /\ State(o).outcome = o
<1>1. State(o) \in Window
    <2>1. interval \in Settings
        BY SettingsAre DEF IInv, TypeOK
    <2>. QED
        BY <2>1 DEF IInv, TypeOK, State, Window
<1>2. \A l \in Loops : loop[l] \in Loop /\ InStep(loop[l])
    BY DEF IInv, TypeOK, Running, InStep, Orderly
<1>3. /\ State(o).loop = loop /\ State(o).submode = m_submode
      /\ State(o).delay = m_tx_delay /\ State(o).outcome = o
    BY DEF State
<1>4. OnSlots(State(o))
    BY <1>3 DEF IInv, Running, OnSlots
<1>5. Good(State(o))
    BY <1>1, <1>2, <1>3, <1>4, LoopsAre DEF IInv, Good, Pressed, Both, InStep
<1>. QED
    BY <1>1, <1>3, <1>5 DEF IInv, TypeOK

(* A handler that leaves the window good keeps the invariant.              *)
LEMMA GoodStep ==
    ASSUME NEW t, Good(t), Becomes(t),
           time' \in Nat, drift' \in Drifts, pause' \in BOOLEAN, hbMode' \in BOOLEAN,
           lastTrigger' \in Nat \cup {Unset}, inputs' \in Nat
    PROVE  IInv'
<1>1. /\ t \in Window /\ OnSlots(t) /\ \A l \in Loops : InStep(t.loop[l])
      /\ ~(t.loop["hb"].active /\ t.loop["cq"].active)
    BY LoopsAre DEF Good, Pressed, Both
<1>2. TypeOK'
    <2>1. t.interval \in [Loops -> Int] /\ \A l \in Loops : t.interval[l] \in Settable(l)
        BY <1>1, SettingsAre DEF Window
    <2>2. interval' \in [Loops -> Int] /\ \A l \in Loops : interval'[l] \in Settable(l)
        BY <2>1 DEF Becomes
    <2>3. \A l : Settable(l)' = Settable(l)
        BY DEF Settable
    <2>. QED
        BY <1>1, <2>2 DEF TypeOK, Becomes, Window
<1>3. \A l \in Loops : Running(l)'
    BY <1>1 DEF Running, Becomes, OnSlots, InStep, Orderly
<1>. QED
    BY <1>1, <1>2, <1>3 DEF IInv, Becomes

(* A timer that fires plans the next start, not earlier than now if it is  *)
(* a period later.                                                         *)
LEMMA NextActivityIs ==
    ASSUME IInv, NEW l \in Loops, loop[l].active
    PROVE  /\ NextActivity(l) \in Int
           /\ NextActivity(l) % Period[m_submode] = 0
           /\ loop[l].period > 0 => NextActivity(l) - m_tx_delay >= Drifted(time, drift)
<1>. DEFINE p == loop[l].period
            slot == Period[m_submode]
            now == Drifted(time, drift)
            raw == loop[l].next + p
            next == raw - (raw % slot)
            late == now - (next - m_tx_delay)
<1>1. /\ slot \in Nat /\ slot > 0 /\ p \in Int /\ p # 0 /\ p % slot = 0
      /\ loop[l].next \in Int /\ m_tx_delay \in Nat /\ now \in Int
    <2>1. /\ loop[l] \in Loop /\ p \in Chosen \ {0} /\ m_submode \in Submodes
          /\ m_tx_delay \in Delays /\ drift \in Drifts /\ time \in Nat
        BY DEF IInv, TypeOK, Running
    <2>2. drift \in Int /\ loop[l].next \in Int
        BY <2>1, TimesAssumption DEF Loop
    <2>. QED
        BY <2>1, <2>2, ChosenIs, SlotsAre DEF Drifted
<1>. HIDE DEF slot, now, p
<1>2. next \in Int /\ next % slot = 0
    <2>1. raw \in Int
        BY <1>1
    <2>. HIDE DEF raw
    <2>. QED
        BY <1>1, <2>1, RoundedDown
<1>3. NextActivity(l) = IF late > 0 THEN next + (Quotient(late, p) + 1) * p ELSE next
    BY DEF NextActivity, slot, now, p
<1>. HIDE DEF next
<1>4. CASE late > 0
    <2>1. late \in Nat
        BY <1>1, <1>2, <1>4
    <2>. DEFINE n == Quotient(late, p) + 1
    <2>2. n \in Int /\ n * p \in Int /\ (p > 0 => n * p > late)
        <3>1. CASE p > 0
            BY <1>1, <2>1, <3>1, PastTheLateness DEF Quotient
        <3>2. CASE ~(p > 0)
            <4>1. -p \in Nat /\ -p > 0
                BY <1>1, <3>2
            <4>2. late \div (-p) \in Nat
                BY <2>1, <4>1, PastTheLateness
            <4>3. Quotient(late, p) = -(late \div (-p))
                BY <3>2 DEF Quotient
            <4>4. n \in Int
                BY <4>2, <4>3
            <4>. HIDE DEF n
            <4>. QED
                BY <1>1, <3>2, <4>4
        <3>. QED
            BY <3>1, <3>2
    <2>. HIDE DEF n
    <2>3. (next + n * p) % slot = 0
        BY <1>1, <1>2, <2>2, IntervalsLater
    <2>4. NextActivity(l) = next + n * p
        BY <1>3, <1>4 DEF n
    <2>. QED
        BY <1>1, <1>2, <2>2, <2>3, <2>4 DEF slot, now, p
<1>5. CASE ~(late > 0)
    BY <1>1, <1>2, <1>3, <1>5 DEF slot, now, p
<1>. QED
    BY <1>4, <1>5

LEMMA OnTimerStep ==
    ASSUME IInv, NEW l \in Loops, NEW o \in Outcomes, OnTimer(l, o)
    PROVE  IInv'
<1>. DEFINE n == NextActivity(l)
            wait == n - Drifted(time, drift) - m_tx_delay
            k == TimerTo(time + wait)
            x == [State(o).loop[l] EXCEPT !.next = n, !.timer = k]
            u == Put(State(o), l, x)
            told == Cancel(u, Other(l))
<1>1. /\ Good(State(o)) /\ State(o) \in Window /\ time \in Nat /\ pause \in BOOLEAN
      /\ State(o).loop = loop /\ State(o).submode = m_submode
    BY StateIsGood
<1>2. loop[l].active
    BY DEF IInv, Running, OnTimer
<1>3. /\ n \in Int /\ n % Period[m_submode] = 0 /\ k \in Int
      /\ loop[l].period > 0 => k >= 0
    <2>1. /\ n \in Int /\ n % Period[m_submode] = 0
          /\ loop[l].period > 0 => n - m_tx_delay >= Drifted(time, drift)
        BY <1>2, NextActivityIs
    <2>2. m_tx_delay \in Int /\ Drifted(time, drift) \in Int
        <3>1. m_tx_delay \in Delays /\ drift \in Drifts
            BY DEF IInv, TypeOK
        <3>2. Delays \subseteq Nat /\ Drifts \subseteq Int
            BY TimesAssumption
        <3>3. m_tx_delay \in Nat /\ drift \in Int
            BY <3>1, <3>2
        <3>. QED
            BY <1>1, <3>3 DEF Drifted
    <2>. HIDE DEF n
    <2>3. time + wait \in Int /\ (loop[l].period > 0 => time + wait >= time)
        BY <1>1, <2>1, <2>2
    <2>. HIDE DEF wait
    <2>. QED
        BY <1>1, <2>1, <2>3, TimerToIs
<1>4. [State(o) EXCEPT !.loop[l].next = n, !.loop[l].timer = k] = u
    BY <1>1 DEF Put, Window
<1>5. Becomes(IF l = "cq" THEN SendCQ(told, TRUE) ELSE Transmit(told))
    BY <1>4 DEF OnTimer
<1>. HIDE DEF n, wait, k
<1>6. Good(u) /\ Same(u, State(o))
    BY <1>1, <1>2, <1>3, RescheduledIsGood
<1>. HIDE DEF u
<1>7. Other(l) \in Loops /\ u \in Window
    BY <1>6, LoopsAre DEF Good, Pressed, Both
<1>8. Good(told)
    BY <1>6, <1>7, CancelStops, StoppingIsGood
<1>. HIDE DEF told
<1>9. Pressed(told) /\ Both(told)
    BY <1>8 DEF Good, Pressed
<1>10. Good(SendCQ(told, TRUE)) /\ Good(Transmit(told))
    BY <1>1, <1>8, <1>9, SendCQIsGood, TransmitStops, StoppingIsGood
<1>11. Good(IF l = "cq" THEN SendCQ(told, TRUE) ELSE Transmit(told))
    BY <1>10
<1>. QED
    BY <1>5, <1>11, GoodStep DEF OnTimer, IInv, TypeOK

(* What sets the speed.                                                    *)
LEMMA SpeedIs ==
    ASSUME NEW s, Good(s), NEW m \in Submodes
    PROVE  Good([s EXCEPT !.speed = m]) /\ [s EXCEPT !.speed = m].submode = s.submode
<1>. DEFINE t == [s EXCEPT !.speed = m]
<1>1. s \in Window
    BY DEF Good, Pressed, Both
<1>2. t \in Window /\ t.loop = s.loop /\ t.submode = s.submode
    BY <1>1 DEF Window
<1>. HIDE DEF t
<1>3. Good(t) /\ t.submode = s.submode
    BY <1>2 DEF Good, Pressed, Both, OnSlots
<1>. QED
    BY <1>3 DEF t

LEMMA SetupIsGood ==
    ASSUME NEW s, Good(s), NEW m \in Submodes, hbMode \in BOOLEAN
    PROVE  Good(SetupJS8(s, m)) /\ SetupJS8(s, m).submode = s.submode
<1>. DEFINE t == [s EXCEPT !.speed = m]
<1>1. Good(t) /\ t.submode = s.submode
    BY SpeedIs
<1>2. (m \in HbSubmodes /\ hbMode) \in BOOLEAN
    OBVIOUS
<1>3. Stops(SetupJS8(s, m), t)
    BY <1>1, <1>2, PreparedIsGood DEF SetupJS8
<1>. HIDE DEF t
<1>. QED
    BY <1>1, <1>3, StoppingIsGood DEF Stops, Same, SameSettings

(* A speed of which the loops are told: those that run start again.        *)
LEMMA RetimedIsGood ==
    ASSUME NEW s, Good(s), NEW m \in Submodes, time \in Nat
    PROVE  LET t == [s EXCEPT !.submode = m]
           IN  /\ Good(Restart(Restart(t, "hb"), "cq"))
               /\ m = s.submode => Good(t)
<1>. DEFINE t == [s EXCEPT !.submode = m]
            h == Restart(t, "hb")
<1>1. /\ s \in Window /\ Both(s) /\ \A l \in Loops : InStep(s.loop[l])
      /\ "hb" \in Loops /\ "cq" \in Loops
    BY LoopsAre DEF Good, Pressed, Both
<1>2. t \in Window /\ t.loop = s.loop /\ t.submode = m
    BY <1>1 DEF Window
<1>. HIDE DEF t
<1>3. Both(t) /\ \A l \in Loops : InStep(t.loop[l])
    BY <1>1, <1>2 DEF Both
<1>4. ASSUME ~t.loop["hb"].active, ~t.loop["cq"].active PROVE Good(t)
    BY <1>3, <1>4, LoopsAre DEF Good, Pressed, OnSlots
<1>5. ASSUME m = s.submode PROVE Good(t)
    BY <1>2, <1>3, <1>5, LoopsAre DEF Good, Pressed, OnSlots
<1>6. CASE t.loop["hb"].active
    <2>1. Good(h)
        BY <1>1, <1>3, <1>6, RestartIsGood
    <2>. HIDE DEF h
    <2>2. Both(h) /\ \A l \in Loops : InStep(h.loop[l])
        BY <2>1, LoopsAre DEF Good, Pressed
    <2>3. Good(Restart(h, "cq"))
        BY <1>1, <2>1, <2>2, RestartIsGood
    <2>. QED
        BY <1>5, <2>3 DEF t, h
<1>7. CASE ~t.loop["hb"].active
    <2>1. h = t
        BY <1>1, <1>3, <1>7, RestartIsGood
    <2>2. Good(Restart(t, "cq"))
        BY <1>1, <1>3, <1>4, <1>7, RestartIsGood
    <2>. QED
        BY <1>5, <2>1, <2>2 DEF t, h
<1>. QED
    BY <1>6, <1>7

-----------------------------------------------------------------------------
(* Every step.                                                             *)
LEMMA InputStep ==
    ASSUME IInv, NEW t, Good(t), Becomes(t), Input,
           UNCHANGED <<time, drift, pause, hbMode, lastTrigger>>
    PROVE  IInv'
BY GoodStep DEF IInv, TypeOK, Input

LEMMA OutcomesAre ==
    /\ "ready" \in Outcomes /\ "idle" \in Outcomes
    /\ \A o \in UserOutcomes : o \in Outcomes /\ o # "idle"
BY DEF Outcomes, UserOutcomes

(* Storing an interval.                                                    *)
LEMMA SettingIsGood ==
    ASSUME NEW s, Good(s), NEW l \in Loops, NEW i \in Settable(l)
    PROVE  LET t == [s EXCEPT !.interval[l] = i]
           IN  /\ t \in Window /\ Good(t) /\ t.loop = s.loop /\ t.submode = s.submode
               /\ t.delay = s.delay /\ t.selected = s.selected /\ t.paused = s.paused
               /\ t.outcome = s.outcome
<1>. DEFINE set == [s.interval EXCEPT ![l] = i]
            t == [s EXCEPT !.interval[l] = i]
<1>1. s \in Window
    BY DEF Good, Pressed, Both
<1>2. set \in Settings
    BY <1>1, SettingsAre DEF Window
<1>3. t = [s EXCEPT !.interval = set]
    BY <1>1 DEF Window
<1>. HIDE DEF set
<1>4. /\ t \in Window /\ t.loop = s.loop /\ t.submode = s.submode
      /\ t.delay = s.delay /\ t.selected = s.selected /\ t.paused = s.paused
      /\ t.outcome = s.outcome
    BY <1>1, <1>2, <1>3 DEF Window
<1>. HIDE DEF t
<1>5. Good(t)
    BY <1>4 DEF Good, Pressed, Both, OnSlots
<1>. QED
    BY <1>4, <1>5 DEF t

LEMMA ToggleStep ==
    ASSUME IInv, NEW l \in Loops, NEW o \in UserOutcomes, MacroButtonToggled(l, o)
    PROVE  IInv'
<1>1. /\ Good(State(o)) /\ time \in Nat /\ pause \in BOOLEAN /\ State(o).outcome = o
      /\ o # "idle"
    BY StateIsGood, OutcomesAre
<1>2. (~loop[l].checked) \in BOOLEAN
    OBVIOUS
<1>3. Good(SetChecked(State(o), l, ~loop[l].checked))
    BY <1>1, <1>2, SetCheckedIsGood
<1>. QED
    BY <1>3, InputStep DEF MacroButtonToggled, UserInput

LEMMA RepeatStep ==
    ASSUME IInv, NEW l \in Loops, NEW i \in Intervals, NEW o \in UserOutcomes,
           RepeatMenu(l, i, o)
    PROVE  IInv'
<1>. DEFINE set == [State(o) EXCEPT !.interval[l] = i]
            t == SetChecked(Uncheck(set, l), l, i > 0)
<1>1. /\ Good(State(o)) /\ time \in Nat /\ pause \in BOOLEAN /\ State(o).outcome = o
      /\ o # "idle" /\ i \in Settable(l)
    BY StateIsGood, OutcomesAre DEF Settable
<1>2. Good(set) /\ Both(set) /\ set.outcome = o
    BY <1>1, SettingIsGood DEF Good, Pressed
<1>3. Becomes(t)
    BY DEF RepeatMenu
<1>. HIDE DEF set
<1>4. Good(Uncheck(set, l)) /\ Uncheck(set, l).outcome = o
    BY <1>2, UncheckStops, StoppingIsGood DEF Stops, Same, SameSettings
<1>5. (i > 0) \in BOOLEAN
    OBVIOUS
<1>6. Good(t)
    BY <1>1, <1>4, <1>5, SetCheckedIsGood
<1>. HIDE DEF t
<1>. QED
    BY <1>3, <1>6, InputStep DEF RepeatMenu, UserInput

LEMMA HbTimerStep ==
    ASSUME IInv, NEW start \in BOOLEAN, NEW o \in Outcomes, SetHbTimer(start, o)
    PROVE  IInv'
<1>1. Good(State(o)) /\ time \in Nat /\ pause \in BOOLEAN /\ "hb" \in Loops /\ "hb" # "cq"
    BY StateIsGood, LoopsAre
<1>2. Good(SetChecked(State(o), "hb", start))
    BY <1>1, SetCheckedIsGood
<1>. QED
    BY <1>2, InputStep DEF SetHbTimer, ApiInput

LEMMA HbIntervalStep ==
    ASSUME IInv, NEW i \in ApiIntervals, SetHbInterval(i)
    PROVE  IInv'
<1>. DEFINE set == [State("ready") EXCEPT !.interval["hb"] = i]
            t == IF loop["hb"].checked /\ i > 0 THEN Start(set, "hb", i) ELSE set
<1>1. /\ Good(State("ready")) /\ State("ready").loop = loop /\ time \in Nat
      /\ i \in Settable("hb") /\ "hb" \in Loops
    BY StateIsGood, LoopsAre, OutcomesAre DEF Settable
<1>2. Good(set) /\ Both(set) /\ InStep(set.loop["cq"]) /\ set.loop = loop
    BY <1>1, SettingIsGood DEF Good, Pressed
<1>3. Becomes(t)
    BY DEF SetHbInterval
<1>. HIDE DEF set
<1>4. ASSUME loop["hb"].checked, i > 0
      PROVE  Good(Start(set, "hb", i))
    <2>1. i \in Chosen \ {0}
        BY <1>4 DEF Chosen
    <2>. QED
        BY <1>1, <1>2, <1>4, <2>1, StartedIsGood, LoopsAre
<1>5. Good(t)
    BY <1>2, <1>4
<1>. HIDE DEF t
<1>. QED
    BY <1>3, <1>5, InputStep DEF SetHbInterval, ApiInput

LEMMA SpeedStep ==
    ASSUME IInv, NEW m \in Submodes, NEW d \in Delays,
           \/ SetSubmode(m) \/ SelectSpeed(m) \/ TxDelayChange(d)
           \/ HbModeToggled \/ AutoreplyToggled
    PROVE  IInv'
<1>. DEFINE now == State("ready")
<1>1. /\ Good(now) /\ now \in Window /\ time \in Nat /\ pause \in BOOLEAN
      /\ hbMode \in BOOLEAN /\ now.submode = m_submode
    BY StateIsGood, OutcomesAre
<1>2. Good(SetupJS8(now, m)) /\ SetupJS8(now, m).submode = m_submode
    BY <1>1, SetupIsGood
<1>3. CASE SetSubmode(m)
    <2>. DEFINE setup == [SetupJS8(now, m) EXCEPT !.submode = m]
                t == IF m # m_submode THEN Restart(Restart(setup, "hb"), "cq") ELSE setup
    <2>1. Good(t)
        BY <1>1, <1>2, RetimedIsGood
    <2>2. Becomes(t)
        BY <1>3 DEF SetSubmode
    <2>. HIDE DEF t
    <2>. QED
        BY <1>3, <2>1, <2>2, InputStep DEF SetSubmode, UserInput
<1>4. CASE SelectSpeed(m)
    BY <1>2, <1>4, InputStep DEF SelectSpeed, UserInput, ApiInput
<1>5. CASE TxDelayChange(d)
    <2>. DEFINE set == [now EXCEPT !.delay = d]
    <2>1. set \in Window /\ set.loop = now.loop /\ set.submode = now.submode
        BY <1>1 DEF Window
    <2>2. Becomes(Restart(Restart(set, "hb"), "cq"))
        BY <1>5 DEF TxDelayChange
    <2>. HIDE DEF set
    <2>3. Good(set)
        BY <1>1, <2>1 DEF Good, Pressed, Both, OnSlots
    <2>4. Good(Restart(set, "hb"))
        BY <1>1, <2>3, RestartIsGood, LoopsAre DEF Good, Pressed
    <2>5. Good(Restart(Restart(set, "hb"), "cq"))
        BY <1>1, <2>4, RestartIsGood, LoopsAre DEF Good, Pressed
    <2>. QED
        BY <1>5, <2>2, <2>5, InputStep DEF TxDelayChange, UserInput
<1>6. CASE HbModeToggled
    <2>. DEFINE enabled == m_nSubMode \in HbSubmodes /\ hbMode'
                t == PrepareHeartbeatMode(now, enabled)
    <2>1. hbMode' \in BOOLEAN
        BY <1>1, <1>6 DEF HbModeToggled
    <2>2. enabled \in BOOLEAN
        BY <2>1
    <2>3. Good(t)
        BY <1>1, <2>2, PreparedIsGood, StoppingIsGood
    <2>4. Becomes(t)
        BY <1>6 DEF HbModeToggled
    <2>. HIDE DEF t
    <2>5. /\ time' \in Nat /\ drift' \in Drifts /\ pause' \in BOOLEAN
          /\ lastTrigger' \in Nat \cup {Unset} /\ inputs' \in Nat
        BY <1>6 DEF HbModeToggled, UserInput, ApiInput, Input, IInv, TypeOK
    <2>. QED
        BY <2>1, <2>3, <2>4, <2>5, GoodStep
<1>7. CASE AutoreplyToggled
    <2>. DEFINE t == Toggled(now)
    <2>1. (m_nSubMode \in HbSubmodes /\ hbMode) \in BOOLEAN
        OBVIOUS
    <2>2. Good(t)
        BY <1>1, <2>1, PreparedIsGood, StoppingIsGood DEF Toggled
    <2>3. Becomes(t)
        BY <1>7 DEF AutoreplyToggled
    <2>. HIDE DEF t
    <2>. QED
        BY <1>7, <2>2, <2>3, InputStep DEF AutoreplyToggled, UserInput, ApiInput
<1>. QED
    BY <1>3, <1>4, <1>5, <1>6, <1>7

LEMMA SelectionStep ==
    ASSUME IInv, NEW o \in UserOutcomes,
           \/ SendCQNow(o) \/ StopTxButton \/ MessageDisplayed \/ PauseChanged
           \/ \E call \in BOOLEAN : SelectionChanged(call, o)
    PROVE  IInv'
<1>1. /\ \A q \in Outcomes : Good(State(q)) /\ State(q) \in Window /\ Pressed(State(q))
      /\ time \in Nat /\ pause \in BOOLEAN /\ "hb" \in Loops /\ "cq" \in Loops
      /\ o \in Outcomes /\ "ready" \in Outcomes
    BY StateIsGood, LoopsAre, OutcomesAre DEF Good
<1>2. CASE SendCQNow(o)
    <2>1. Good(SendCQ(State(o), FALSE))
        BY <1>1, SendCQIsGood
    <2>. QED
        BY <1>2, <2>1, InputStep DEF SendCQNow, UserInput
<1>3. CASE StopTxButton
    <2>1. Good(Stop(State("ready")))
        BY <1>1, StopStops, StoppingIsGood
    <2>. QED
        BY <1>3, <2>1, InputStep DEF StopTxButton
<1>4. CASE MessageDisplayed
    <2>1. Good(Cancel(State("ready"), "cq"))
        BY <1>1, CancelStops, StoppingIsGood
    <2>. QED
        BY <1>4, <2>1, InputStep DEF MessageDisplayed
<1>5. CASE PauseChanged
    <2>1. Good(State("ready"))
        BY <1>1
    <2>. QED
        BY <1>5, <2>1, GoodStep DEF PauseChanged, UserInput, Input, IInv, TypeOK
<1>6. ASSUME NEW call \in BOOLEAN, SelectionChanged(call, o)
      PROVE  IInv'
    <2>1. Good(State(o)) /\ Pressed(State(o))
        BY <1>1
    <2>2. Good(SelectCall(State(o)))
        BY <1>1, <2>1, SelectCallIsGood
    <2>3. Good(Deselect(State(o)))
        BY <1>1, <2>1, DeselectIsGood, ResumesIsGood
    <2>4. Good(IF call THEN SelectCall(State(o)) ELSE Deselect(State(o)))
        BY <2>2, <2>3
    <2>. QED
        BY <1>6, <2>4, InputStep DEF SelectionChanged, UserInput
<1>. QED
    BY <1>2, <1>3, <1>4, <1>5, <1>6

LEMMA SetDriftStep ==
    ASSUME IInv, NEW d \in Drifts, SetDrift(d)
    PROVE  IInv'
<1>. DEFINE now == State("ready")
<1>1. Good(now) /\ time \in Nat /\ "hb" \in Loops /\ "cq" \in Loops
    BY StateIsGood, LoopsAre, OutcomesAre
<1>2. Good(OnDriftChange(now, "cq", d))
    BY <1>1, OnDriftChangeIsGood
<1>3. Good(OnDriftChange(OnDriftChange(now, "cq", d), "hb", d))
    BY <1>1, <1>2, OnDriftChangeIsGood
<1>. QED
    BY <1>3, GoodStep DEF SetDrift, Input, IInv, TypeOK

(* The box on top is gone.                                                 *)
LEMMA ClosedBox ==
    ASSUME IInv, boxes # << >>
    PROVE  boxes[Len(boxes)] \in Box /\ SubSeq(boxes, 1, Len(boxes) - 1) \in Seq(Box)
<1>1. boxes \in Seq(Box)
    BY DEF IInv, TypeOK
<1>2. Len(boxes) \in Nat /\ Len(boxes) > 0
    BY <1>1, LenProperties, EmptySeq
<1>3. boxes[Len(boxes)] \in Box /\ \A i \in 1 .. Len(boxes) - 1 : boxes[i] \in Box
    BY <1>1, <1>2, ElementOfSeq
<1>. QED
    BY <1>1, <1>2, <1>3, SubSeqProperties

LEMMA ClosedIs ==
    ASSUME NEW s, Good(s), NEW q \in Seq(Box), NEW wasAuto \in BOOLEAN
    PROVE  LET t == [s EXCEPT !.boxes = q]
           IN  /\ Good(t) /\ t \in Window /\ Same(t, s) /\ t.loop = s.loop
               /\ Stops(IF wasAuto THEN Toggled(t) ELSE t, t)
<1>. DEFINE t == [s EXCEPT !.boxes = q]
<1>1. s \in Window
    BY DEF Good, Pressed, Both
<1>2. t \in Window /\ Same(t, s) /\ t.loop = s.loop
    BY <1>1 DEF Window, Same, SameSettings
<1>. HIDE DEF t
<1>3. Good(t)
    BY <1>2 DEF Good, Pressed, Both, OnSlots, Same, SameSettings
<1>4. (m_nSubMode \in HbSubmodes /\ hbMode) \in BOOLEAN
    OBVIOUS
<1>5. Stops(Toggled(t), t)
    BY <1>3, <1>4, PreparedIsGood DEF Toggled
<1>6. Stops(t, t)
    BY <1>2 DEF Stops, Same, SameSettings
<1>. QED
    BY <1>2, <1>3, <1>5, <1>6 DEF t

LEMMA WatchdogStep ==
    ASSUME IInv, NEW o \in UserOutcomes, NEW wasAuto \in BOOLEAN,
           Watchdog \/ BoxClosed(o, wasAuto)
    PROVE  IInv'
<1>1. /\ \A q \in Outcomes : Good(State(q)) /\ State(q).outcome = q /\ Both(State(q))
      /\ time \in Nat /\ pause \in BOOLEAN /\ "hb" \in Loops /\ "cq" \in Loops
      /\ o \in Outcomes /\ o # "idle" /\ "ready" \in Outcomes
    BY StateIsGood, LoopsAre, OutcomesAre DEF Good, Pressed
<1>2. CASE Watchdog
    <2>1. Good(TxWatchdog(State("ready")))
        BY <1>1, TxWatchdogStops, StoppingIsGood
    <2>. QED
        BY <1>2, <2>1, InputStep DEF Watchdog
<1>3. CASE BoxClosed(o, wasAuto)
    <2>. DEFINE box == boxes[Len(boxes)]
                rest == SubSeq(boxes, 1, Len(boxes) - 1)
                closed == [State(o) EXCEPT !.boxes = rest]
                auto == IF wasAuto THEN Toggled(closed) ELSE closed
    <2>1. box \in Box /\ rest \in Seq(Box)
        BY <1>3, ClosedBox DEF BoxClosed
    <2>2. /\ Becomes(SetChecked(SetChecked(auto, "hb", box.hb), "cq", box.cq))
          /\ UNCHANGED <<time, drift, pause, hbMode, lastTrigger, inputs>>
        BY <1>3 DEF BoxClosed
    <2>. HIDE DEF box, rest
    <2>3. Good(State(o)) /\ State(o).outcome = o
        BY <1>1
    <2>4. Stops(auto, closed) /\ Good(closed) /\ Same(closed, State(o))
        BY <2>1, <2>3, ClosedIs
    <2>. HIDE DEF closed, auto
    <2>5. Good(auto) /\ auto.outcome = o
        BY <2>3, <2>4, StoppingIsGood DEF Stops, Same, SameSettings
    <2>6. box.hb \in BOOLEAN /\ box.cq \in BOOLEAN
        BY <2>1 DEF Box
    <2>7. /\ Good(SetChecked(auto, "hb", box.hb))
          /\ SetChecked(auto, "hb", box.hb).outcome = o
        BY <1>1, <2>5, <2>6, SetCheckedIsGood, LoopsAre DEF SameSettings
    <2>8. Good(SetChecked(SetChecked(auto, "hb", box.hb), "cq", box.cq))
        BY <1>1, <2>6, <2>7, SetCheckedIsGood
    <2>. QED
        BY <2>2, <2>8, GoodStep DEF IInv, TypeOK
<1>. QED
    BY <1>2, <1>3

LEMMA StepIsGood ==
    ASSUME IInv, [Next]_vars
    PROVE  IInv'
<1>. USE OutcomesAre
<1>1. CASE UNCHANGED vars
    BY <1>1 DEF vars, IInv, TypeOK, Running, Settable
<1>2. CASE Tick
    BY <1>2 DEF Tick, IInv, TypeOK, Running, Settable
<1>3. CASE \E l \in Loops, o \in Outcomes : OnTimer(l, o)
    BY <1>3, OnTimerStep
<1>4. CASE \/ \E l \in Loops, o \in UserOutcomes : MacroButtonToggled(l, o)
           \/ \E l \in Loops, i \in Intervals, o \in UserOutcomes : RepeatMenu(l, i, o)
    BY <1>4, ToggleStep, RepeatStep
<1>5. CASE \/ \E i \in ApiIntervals : SetHbInterval(i)
           \/ \E start \in BOOLEAN, o \in Outcomes : SetHbTimer(start, o)
    BY <1>5, HbTimerStep, HbIntervalStep
<1>6. CASE \/ StopTxButton \/ MessageDisplayed \/ PauseChanged
           \/ \E o \in UserOutcomes : SendCQNow(o)
           \/ \E call \in BOOLEAN, o \in UserOutcomes : SelectionChanged(call, o)
    <2>1. "ready" \in UserOutcomes
        BY DEF UserOutcomes
    <2>. QED
        BY <1>6, <2>1, SelectionStep
<1>7. CASE \/ \E m \in Submodes : SetSubmode(m) \/ SelectSpeed(m)
           \/ \E d \in Delays : TxDelayChange(d)
           \/ HbModeToggled \/ AutoreplyToggled
    <2>1. m_nSubMode \in Submodes /\ m_tx_delay \in Delays
        BY DEF IInv, TypeOK
    <2>. QED
        BY <1>7, <2>1, SpeedStep
<1>8. CASE \E d \in Drifts : SetDrift(d)
    BY <1>8, SetDriftStep
<1>9. CASE \/ Watchdog
           \/ \E o \in UserOutcomes, wasAuto \in BOOLEAN : BoxClosed(o, wasAuto)
    <2>1. "ready" \in UserOutcomes /\ TRUE \in BOOLEAN
        BY DEF UserOutcomes
    <2>. QED
        BY <1>9, <2>1, WatchdogStep
<1>10. CASE Done
    BY <1>10 DEF Done, vars, IInv, TypeOK, Running, Settable
<1>. QED
    BY <1>1, <1>2, <1>3, <1>4, <1>5, <1>6, <1>7, <1>8, <1>9, <1>10 DEF Next

LEMMA InitIsGood ==
    ASSUME Init
    PROVE  IInv
<1>1. \A l \in Loops : loop[l] = [active |-> FALSE, next |-> 0, period |-> 0,
                                  timer |-> Unset, checked |-> FALSE]
    BY DEF Init
<1>2. [active |-> FALSE, next |-> 0, period |-> 0, timer |-> Unset, checked |-> FALSE] \in Loop
    BY DEF Loop, Unset
<1>3. loop \in [Loops -> Loop]
    BY <1>2 DEF Init
<1>4. boxes \in Seq(Box)
    BY EmptySeq DEF Init
<1>5. TypeOK
    <2>1. \A i \in Intervals \cup ApiIntervals : i \in Int
        BY TimesAssumption
    <2>2. interval \in [Loops -> Int] /\ \A l \in Loops : interval[l] \in Settable(l)
        BY <2>1 DEF Init
    <2>. QED
        BY <1>3, <1>4, <2>2 DEF Init, TypeOK
<1>6. \A l \in Loops : Running(l)
    BY <1>1 DEF Running
<1>. QED
    BY <1>1, <1>5, <1>6, LoopsAre DEF IInv

(* The invariant holds in every reachable state.                           *)
LEMMA Inductive == Spec => []IInv
<1>1. Init => IInv
    BY InitIsGood
<1>2. IInv /\ [Next]_vars => IInv'
    BY StepIsGood
<1>. QED
    BY <1>1, <1>2, PTL DEF Spec

-----------------------------------------------------------------------------
(* The window, the loops and the boxes are well typed.                     *)
THEOREM TypeCorrect == Spec => []TypeOK
<1>1. IInv => TypeOK
    BY DEF IInv
<1>. QED
    BY <1>1, Inductive, PTL

(* Whatever switches the loops, one runs at most, its button is down       *)
(* exactly then, and so is its timer set.                                  *)
THEOREM OneLoopCorrect == Spec => []OneLoop
<1>1. IInv => OneLoop
    BY DEF IInv, TypeOK, Running, OneLoop, Unset, Loop
<1>. QED
    BY <1>1, Inductive, PTL

(* What is planned is the start of a slot of the speed the loops know,     *)
(* after any change of clock, speed, interval and delay.                   *)
THEOREM StartsCorrect == Spec => []StartsWithSlot
<1>1. IInv => StartsWithSlot
    BY DEF IInv, Running, StartsWithSlot
<1>. QED
    BY <1>1, Inductive, PTL

-----------------------------------------------------------------------------
(* Extremes of sets of integers.                                           *)
Less == {ss \in Nat \X Nat : ss[1] < ss[2]}

LEMMA LessIsWellFounded == IsWellFoundedOn(Less, Nat)
<1>1. IsWellFoundedOn(OpToRel(<, Nat), Nat)
    BY NatLessThanWellFounded, Zenon
<1>. QED
    BY ONLY <1>1, Zenon DEF OpToRel, Less

LEMMA LeastOne ==
    ASSUME NEW T, T \subseteq Nat, T # {}
    PROVE  \E x \in T : \A y \in T : x =< y
<1>1. \A x, y \in Nat : ~(<<x, y>> \in Less) => y =< x
    BY SMT DEF Less
<1>2. PICK x \in T : \A y \in T : ~(<<y, x>> \in Less)
    BY LessIsWellFounded, WFMin
<1>3. ASSUME NEW y \in T PROVE x =< y
    BY <1>1, <1>2
<1>. QED
    BY <1>3

LEMMA GreatestOne ==
    ASSUME NEW T, T \subseteq Int, T # {}, NEW h \in Int, \A x \in T : x =< h
    PROVE  \E x \in T : \A y \in T : y =< x
<1>. DEFINE U == {h - x : x \in T}
<1>1. U \subseteq Nat
    <2>1. ASSUME NEW x \in T PROVE h - x \in Nat
        <3>1. x \in Int /\ x =< h
            OBVIOUS
        <3>. QED
            BY <3>1
    <2>. QED
        BY <2>1
<1>2. U # {}
    OBVIOUS
<1>3. PICK u \in U : \A y \in U : u =< y
    BY <1>1, <1>2, LeastOne
<1>4. PICK x \in T : u = h - x
    OBVIOUS
<1>5. ASSUME NEW y \in T PROVE y =< x
    <2>1. h - y \in U /\ x \in Int /\ y \in Int
        OBVIOUS
    <2>2. u =< h - y
        BY <1>3, <2>1
    <2>. QED
        BY <1>4, <2>1, <2>2
<1>. QED
    BY <1>5

(* The spread of a bounded set is its largest difference.                  *)
Differences(S) == {a - b : a, b \in S}

LEMMA DifferencesAre ==
    ASSUME NEW S
    PROVE  /\ \A x \in Differences(S) : \E a, b \in S : x = a - b
           /\ \A a, b \in S : a - b \in Differences(S)
<1>1. ASSUME NEW x \in Differences(S) PROVE \E a, b \in S : x = a - b
    BY SMT DEF Differences
<1>2. ASSUME NEW a \in S, NEW b \in S PROVE a - b \in Differences(S)
    BY SMT DEF Differences
<1>. QED
    BY <1>1, <1>2

LEMMA SpreadIsChosen ==
    ASSUME NEW S, \E d \in Differences(S) : \A a, b \in S : a - b =< d
    PROVE  Spread(S) \in Differences(S) /\ \A a, b \in S : a - b =< Spread(S)
BY DEF Spread, Differences

LEMMA SpreadIs ==
    ASSUME NEW S, S # {}, NEW lo \in Int, NEW hi \in Int, S \subseteq lo .. hi
    PROVE  Spread(S) \in Int /\ \A a, b \in S : a - b =< Spread(S)
<1>1. ASSUME NEW a \in S, NEW b \in S PROVE a - b \in Int /\ a - b =< hi - lo
    <2>1. a \in lo .. hi /\ b \in lo .. hi
        OBVIOUS
    <2>. QED
        BY <2>1
<1>2. /\ Differences(S) \subseteq Int /\ Differences(S) # {}
      /\ \A x \in Differences(S) : x =< hi - lo
    <2>1. ASSUME NEW x \in Differences(S) PROVE x \in Int /\ x =< hi - lo
        <3>1. PICK a \in S, b \in S : x = a - b
            BY DifferencesAre
        <3>. QED
            BY <1>1, <3>1
    <2>2. Differences(S) # {}
        BY DifferencesAre
    <2>. QED
        BY <2>1, <2>2
<1>3. \E d \in Differences(S) : \A x \in Differences(S) : x =< d
    <2>1. hi - lo \in Int
        OBVIOUS
    <2>. QED
        BY <1>2, <2>1, GreatestOne
<1>4. \E d \in Differences(S) : \A a, b \in S : a - b =< d
    BY <1>3, DifferencesAre
<1>. QED
    BY <1>2, <1>4, SpreadIsChosen

-----------------------------------------------------------------------------
(* What the drifts are assumed to be.                                      *)

(* The clock is less than any slot behind the system's.                    *)
DriftsAreNear == \A d \in Drifts, m \in Submodes : -d < Period[m]

(* Drifts have a range (the code's are of an integer type).                *)
DriftsAreBounded == \E lo, hi \in Int : Drifts \subseteq lo .. hi

(* The clock is not an interval ahead of the system's, or less than that   *)
(* by what a timer may be late.                                            *)
NoDriftIsAnInterval == \A d \in Drifts, i \in Periods : i - d \notin 0 .. MaxLate

(* The least time between two transmissions.                               *)
Gap == ShortestInterval - Spread(Delays \cup {0}) - MaxLate - Spread(Drifts)

LEMMA BoundsAre ==
    /\ MaxLate \in Nat
    /\ \A d \in Drifts : d \in Int
    /\ \A y \in Delays : y \in Nat
    /\ \A i \in Periods : i \in Nat /\ i > 0 /\ i \in Chosen \ {0}
    /\ \A i \in Chosen \ {0} : i \in Int /\ (i > 0 => i \in Periods)
    /\ \A m \in Submodes : /\ Period[m] \in Nat /\ Period[m] > 0
                           /\ \A y \in Delays : y < Period[m]
                           /\ \A i \in Periods : i % Period[m] = 0
    /\ 0 \in Drifts
<1>1. MaxLate \in Nat
    BY BoundsAssumption
<1>2. \A m \in Submodes : Period[m] \in Nat /\ Period[m] > 0
    BY SubmodesAssumption
<1>3. /\ \A d \in Drifts : d \in Int
      /\ \A y \in Delays : y \in Nat
      /\ 0 \in Drifts
    BY TimesAssumption
<1>4. \A m \in Submodes : \A y \in Delays : y < Period[m]
    BY TimesAssumption
<1>5. ASSUME NEW i \in Chosen \ {0}
      PROVE  i \in Int /\ (i > 0 => i \in Periods) /\ \A m \in Submodes : i % Period[m] = 0
    BY ChosenIs DEF Chosen, Periods
<1>6. ASSUME NEW i \in Periods
      PROVE  i \in Nat /\ i > 0 /\ i \in Chosen \ {0}
    <2>1. i \in Chosen /\ i > 0
        BY DEF Periods, Chosen
    <2>2. i \in Int
        BY <2>1, TimesAssumption DEF Chosen
    <2>. QED
        BY <2>1, <2>2
<1>. QED
    BY <1>1, <1>2, <1>3, <1>4, <1>5, <1>6

LEMMA ShortestIs ==
    ASSUME NEW i \in Periods
    PROVE  ShortestInterval \in Nat /\ ShortestInterval =< i
<1>1. Periods \subseteq Nat
    BY BoundsAre
<1>2. \E j \in Periods : \A k \in Periods : j =< k
    BY <1>1, LeastOne
<1>3. ShortestInterval \in Periods /\ \A k \in Periods : ShortestInterval =< k
    BY <1>2 DEF ShortestInterval
<1>. QED
    BY <1>1, <1>3

(* A start now, and the one after a transmission, leave the gap to any     *)
(* clock the drift may turn to.                                            *)
LEMMA GapIs ==
    ASSUME DriftsAreBounded, NEW m \in Submodes, NEW i \in Periods,
           NEW y \in Delays, NEW d \in Drifts, NEW e \in Drifts
    PROVE  Gap \in Int /\ i - y - e >= Gap /\ i - MaxLate + d - e >= Gap
<1>. DEFINE delays == Spread(Delays \cup {0})
            drifts == Spread(Drifts)
<1>1. delays \in Int /\ \A a, b \in Delays \cup {0} : a - b =< delays
    <2>1. Delays \cup {0} \subseteq 0 .. Period[m]
        <3>1. ASSUME NEW z \in Delays \cup {0} PROVE z \in 0 .. Period[m]
            BY BoundsAre
        <3>. QED
            BY <3>1
    <2>2. Period[m] \in Int /\ 0 \in Int /\ Delays \cup {0} # {}
        BY BoundsAre
    <2>. QED
        BY <2>1, <2>2, SpreadIs
<1>2. drifts \in Int /\ \A a, b \in Drifts : a - b =< drifts
    <2>1. PICK lo \in Int, hi \in Int : Drifts \subseteq lo .. hi
        BY DEF DriftsAreBounded
    <2>2. Drifts # {}
        BY BoundsAre
    <2>. QED
        BY <2>1, <2>2, SpreadIs
<1>3. ShortestInterval \in Nat /\ ShortestInterval =< i
    BY ShortestIs
<1>4. Gap = ShortestInterval - delays - MaxLate - drifts
    BY DEF Gap
<1>. HIDE DEF delays, drifts
<1>5. /\ MaxLate \in Nat /\ d \in Int /\ e \in Int /\ y \in Nat /\ i \in Nat /\ 0 \in Drifts
    BY BoundsAre
<1>6. 0 - 0 =< delays /\ y - 0 =< delays
    BY <1>1
<1>7. e - 0 =< drifts /\ e - d =< drifts
    BY <1>2, <1>5
<1>. QED
    BY <1>1, <1>2, <1>3, <1>4, <1>5, <1>6, <1>7

-----------------------------------------------------------------------------
(* When a loop is due.                                                     *)

(* The timer is set by the system's clock or by the drifted one, and is    *)
(* not overdue.                                                            *)
Fires(x, push, d) ==
    /\ x.timer = push \/ x.timer = push - d
    /\ time =< x.timer + MaxLate

Near(x, m) == x.timer - time < x.period + Period[m]

(* Whatever the drift becomes, the last transmission is far enough.        *)
Apart(push, last) == last # Unset => \A e \in Drifts : push - e >= last + Gap

Due(x, m, y, d, last) ==
    /\ Fires(x, x.next - y, d)
    /\ DriftsAreNear => Near(x, m)
    /\ DriftsAreBounded => Apart(x.next - y, last)

OnTime(s, d, last) ==
    \A l \in Loops : s.loop[l].active /\ s.loop[l].period > 0 =>
        Due(s.loop[l], s.submode, s.delay, d, last)

(* A paused heartbeat waits for the selection to go, and no CQ runs.       *)
Rested(s) == s.paused => s.selected /\ ~s.loop["cq"].active

Fit(s, d, last) == Good(s) /\ OnTime(s, d, last) /\ Rested(s)

(* The clock, the drift and the last trigger that the loops are judged by. *)
Now(d, last) ==
    /\ time \in Nat /\ pause \in BOOLEAN /\ d \in Drifts
    /\ last \in Nat \cup {Unset} /\ last =< time

LEMMA SameIsOnTime ==
    ASSUME NEW s, NEW t, NEW d, NEW last, OnTime(s, d, last), SameSettings(t, s),
           \A l \in Loops : t.loop[l].active => t.loop[l] = s.loop[l]
    PROVE  OnTime(t, d, last)
BY DEF OnTime, SameSettings

LEMMA StoppedIsFit ==
    ASSUME NEW s, NEW t, NEW d, NEW last, Stops(t, s), s \in Window
    PROVE  /\ OnTime(s, d, last) => OnTime(t, d, last)
           /\ Rested(s) => Rested(t)
           /\ Fit(s, d, last) => Fit(t, d, last)
<1>1. \A l \in Loops : t.loop[l].active => t.loop[l] = s.loop[l]
    <2>1. \A l \in Loops : s.loop[l] \in Loop
        BY DEF Window
    <2>. QED
        BY <2>1, StoppedIs DEF Stops
<1>2. SameSettings(t, s) /\ t.selected = s.selected /\ t.paused = s.paused
    BY DEF Stops, Same
<1>3. OnTime(s, d, last) => OnTime(t, d, last)
    BY <1>1, <1>2, SameIsOnTime
<1>4. Rested(s) => Rested(t)
    BY <1>1, <1>2, LoopsAre DEF Rested
<1>5. Good(s) => Good(t)
    BY StoppingIsGood
<1>. QED
    BY <1>3, <1>4, <1>5 DEF Fit

(* A slot to wait for is shorter than a slot.                              *)
LEMMA NextSlotIsNear ==
    ASSUME NEW p \in Nat, p > 0, NEW t \in Int
    PROVE  NextSlot(t, p) < t + p
<1>1. t % p \in 0 .. p - 1
    BY SMT
<1>. QED
    BY <1>1 DEF NextSlot

(* onTxLoopPeriodChangeStart: whatever ran before, what runs now is due an *)
(* interval from now.                                                      *)
LEMMA StartIsDue ==
    ASSUME NEW s, Both(s), NEW l \in Loops, s.loop[l].checked,
           NEW p \in Periods, NEW d, NEW last, Now(d, last)
    PROVE  OnTime(Start(s, l, p), d, last)
<1>. DEFINE slot == Period[s.submode]
            n == NextSlot(time + p, slot)
            wake == TimerTo(n - s.delay)
            x == [s.loop[l] EXCEPT !.active = TRUE, !.period = p, !.next = n, !.timer = wake]
            u == Put(s, l, x)
            t == Start(s, l, p)
<1>1. /\ s \in Window /\ s.loop[l] \in Loop /\ s.submode \in Submodes /\ s.delay \in Delays
      /\ time \in Nat
    BY DEF Both, Window, Now
<1>2. /\ slot \in Nat /\ slot > 0 /\ p \in Nat /\ p > 0 /\ p >= slot
      /\ s.delay \in Nat /\ s.delay < slot /\ MaxLate \in Nat
    <2>1. p % slot = 0 /\ slot \in Nat /\ slot > 0 /\ p \in Nat /\ p > 0
        BY <1>1, BoundsAre
    <2>2. p >= slot
        BY <2>1, IntervalHoldsSlot
    <2>. QED
        BY <1>1, <2>1, <2>2, BoundsAre
<1>. HIDE DEF slot
<1>3. n \in Int /\ n >= time + p /\ n < time + p + slot
    <2>1. time + p \in Int
        BY <1>1, <1>2
    <2>. QED
        BY <1>2, <2>1, NextSlotIsAligned, NextSlotIsNear
<1>4. t = Cancel(u, Other(l))
    BY <1>1 DEF Start, Put, Window, slot
<1>. HIDE DEF n
<1>5. /\ x \in Loop /\ x.period = p /\ x.next = n /\ x.timer = n - s.delay
    <2>1. n - s.delay \in Int /\ n - s.delay >= time
        BY <1>1, <1>2, <1>3
    <2>2. wake \in Int /\ wake = n - s.delay
        BY <1>1, <2>1, TimerToIs
    <2>. HIDE DEF wake
    <2>3. TRUE \in BOOLEAN /\ n \in Int /\ p \in Int
        BY <1>2, <1>3
    <2>4. x \in Loop
        BY <1>1, <2>2, <2>3, ChangedLoop
    <2>. QED
        BY <1>1, <2>2, <2>4 DEF Loop
<1>. HIDE DEF x
<1>6. u \in Window /\ u.loop[l] = x
    BY <1>1, <1>5, PutIs
<1>. HIDE DEF u
<1>7. Other(l) \in Loops /\ Other(l) # l /\ \A k \in Loops \ {l} : k = Other(l)
    BY LoopsAre
<1>8. t.loop[l] = x
    BY <1>4, <1>6, <1>7, CancelStops
<1>9. /\ \A k \in Loops \ {l} : ~t.loop[k].active
      /\ t.submode = s.submode /\ t.delay = s.delay
    <2>1. p \in Chosen \ {0}
        BY BoundsAre
    <2>. QED
        BY <1>1, <2>1, StartIsGood DEF Same, SameSettings
<1>. HIDE DEF t
<1>10. Fires(x, x.next - s.delay, d)
    BY <1>1, <1>2, <1>3, <1>5 DEF Fires
<1>11. Near(x, s.submode)
    BY <1>1, <1>2, <1>3, <1>5 DEF Near, slot
<1>12. ASSUME DriftsAreBounded, last # Unset, NEW e \in Drifts
       PROVE  x.next - s.delay - e >= last + Gap
    <2>1. Gap \in Int /\ p - s.delay - e >= Gap
        <3>1. d \in Drifts
            BY DEF Now
        <3>. QED
            BY <1>1, <1>12, <3>1, GapIs
    <2>2. last \in Nat /\ last =< time /\ e \in Int
        BY <1>12, BoundsAre DEF Now
    <2>. QED
        BY <1>1, <1>2, <1>3, <1>5, <2>1, <2>2
<1>13. Due(x, s.submode, s.delay, d, last)
    BY <1>10, <1>11, <1>12 DEF Due, Apart
<1>14. OnTime(t, d, last)
    BY <1>8, <1>9, <1>13 DEF OnTime
<1>. QED
    BY <1>14 DEF t

(* A loop with a negative period is left out.                              *)
LEMMA StartIsOnTime ==
    ASSUME NEW s, Both(s), NEW l \in Loops, s.loop[l].checked,
           NEW p \in Chosen \ {0}, NEW d, NEW last, Now(d, last)
    PROVE  OnTime(Start(s, l, p), d, last)
<1>1. CASE p > 0
    <2>1. p \in Periods
        BY <1>1, BoundsAre
    <2>. QED
        BY <2>1, StartIsDue
<1>2. CASE ~(p > 0)
    <2>1. time \in Nat
        BY DEF Now
    <2>2. /\ Start(s, l, p).loop[l].period = p
          /\ \A k \in Loops \ {l} : ~Start(s, l, p).loop[k].active
        BY <2>1, StartIsGood
    <2>. QED
        BY <1>2, <2>2 DEF OnTime
<1>. QED
    BY <1>1, <1>2

-----------------------------------------------------------------------------
(* The handlers of the window.                                             *)

(* What the heartbeat's button starts, or springs back from.               *)
LEMMA CheckHbIs ==
    ASSUME NEW s, Pressed(s), ~s.loop["hb"].checked, pause \in BOOLEAN
    PROVE  \E c :
            /\ Both(c) /\ SameSettings(c, s)
            /\ c.loop["hb"].checked /\ ~c.loop["hb"].active /\ c.loop["cq"] = s.loop["cq"]
            /\ c.paused => s.paused /\ c.selected = s.selected
            /\ CheckHb(s) = IF s.interval["hb"] # 0 THEN Start(c, "hb", s.interval["hb"])
                            ELSE Uncheck(Transmit(c), "hb")
<1>. DEFINE clears == pause /\ s.selected
            a == s.selected /\ ~clears
            b == s.paused /\ ~clears
            x == [s.loop["hb"] EXCEPT !.checked = TRUE]
            u == Put(s, "hb", x)
            c == [u EXCEPT !.selected = a, !.paused = b]
<1>1. /\ s \in Window /\ Both(s) /\ s.loop["hb"] \in Loop /\ ~s.loop["hb"].active
      /\ s.selected \in BOOLEAN /\ s.paused \in BOOLEAN
    BY LoopsAre DEF Pressed, Both, Window, InStep, Orderly
<1>2. x \in Loop /\ ~x.active /\ x.checked /\ Orderly(x)
    <2>1. x \in Loop
        BY <1>1, PressedLoop
    <2>2. x.active = s.loop["hb"].active /\ x.checked = TRUE /\ x.timer = s.loop["hb"].timer
        BY <1>1 DEF Loop
    <2>3. s.loop["hb"].timer = Unset
        BY <1>1, LoopsAre DEF Both, Orderly
    <2>. QED
        BY <1>1, <2>1, <2>2, <2>3 DEF Orderly
<1>3. CheckHb(s) = IF s.interval["hb"] # 0 THEN Start(c, "hb", s.interval["hb"])
                   ELSE Uncheck(Transmit(Cancel(c, "hb")), "hb")
    BY <1>1 DEF CheckHb, Put, Window, Loops
<1>. HIDE DEF x
<1>4. /\ u \in Window /\ Same(u, s) /\ u.loop["hb"] = x /\ u.loop["cq"] = s.loop["cq"]
    BY <1>1, <1>2, PutIs, LoopsAre
<1>. HIDE DEF u
<1>5. a \in BOOLEAN /\ b \in BOOLEAN /\ (b => s.paused /\ a = s.selected)
    BY <1>1
<1>. HIDE DEF a, b
<1>6. /\ c \in Window /\ c.loop = u.loop /\ SameSettings(c, u) /\ c.selected = a
      /\ c.paused = b
    BY <1>4, <1>5, SelectionIs
<1>. HIDE DEF c
<1>7. Both(c) /\ SameSettings(c, s)
    BY <1>1, <1>2, <1>4, <1>6, LoopsAre DEF Both, Same, SameSettings
<1>8. Cancel(c, "hb") = c
    BY <1>2, <1>4, <1>6, CancelStops, LoopsAre
<1>. QED
    BY <1>2, <1>3, <1>4, <1>5, <1>6, <1>7, <1>8

LEMMA CheckHbFits ==
    ASSUME NEW s, Pressed(s), NEW d, NEW last, Now(d, last), OnTime(s, d, last)
    PROVE  /\ OnTime(CheckHb(s), d, last)
           /\ Rested(s) => Rested(CheckHb(s))
<1>1. CASE s.loop["hb"].checked
    BY <1>1 DEF CheckHb
<1>2. CASE ~s.loop["hb"].checked
    <2>1. pause \in BOOLEAN /\ time \in Nat /\ "hb" \in Loops /\ "cq" \in Loops /\ "hb" # "cq"
        BY LoopsAre DEF Now
    <2>2. PICK c :
            /\ Both(c) /\ SameSettings(c, s)
            /\ c.loop["hb"].checked /\ ~c.loop["hb"].active /\ c.loop["cq"] = s.loop["cq"]
            /\ c.paused => s.paused /\ c.selected = s.selected
            /\ CheckHb(s) = IF s.interval["hb"] # 0 THEN Start(c, "hb", s.interval["hb"])
                            ELSE Uncheck(Transmit(c), "hb")
        BY <1>2, <2>1, CheckHbIs
    <2>3. CASE s.interval["hb"] # 0
        <3>. DEFINE t == Start(c, "hb", s.interval["hb"])
        <3>1. s.interval["hb"] \in Chosen \ {0}
            BY <2>1, <2>3, SettingsAre DEF Pressed, Both, Window
        <3>2. OnTime(t, d, last) /\ Same(t, c) /\ ~t.loop["cq"].active
            BY <2>1, <2>2, <3>1, StartIsOnTime, StartIsGood
        <3>3. CheckHb(s) = t
            BY <2>2, <2>3
        <3>. HIDE DEF t
        <3>4. Rested(s) => Rested(t)
            BY <2>2, <3>2 DEF Rested, Same
        <3>. QED
            BY <3>2, <3>3, <3>4
    <2>4. CASE s.interval["hb"] = 0
        <3>1. OnTime(c, d, last)
            BY <2>2, LoopsAre, SameIsOnTime
        <3>2. Rested(s) => Rested(c)
            BY <2>2 DEF Rested
        <3>3. Stops(Uncheck(Transmit(c), "hb"), c) /\ c \in Window
            <4>1. Stops(Transmit(c), c) /\ Both(Transmit(c)) /\ c \in Window
                BY <2>2, TransmitStops, StoppingIsGood DEF Both
            <4>2. Stops(Uncheck(Transmit(c), "hb"), Transmit(c))
                BY <2>1, <4>1, UncheckStops
            <4>. QED
                BY <4>1, <4>2, StopsTwice
        <3>4. CheckHb(s) = Uncheck(Transmit(c), "hb")
            BY <2>2, <2>4
        <3>. QED
            BY <3>1, <3>2, <3>3, <3>4, StoppedIsFit
    <2>. QED
        BY <2>3, <2>4
<1>. QED
    BY <1>1, <1>2

(* Clearing the selection resumes a paused heartbeat, and nothing else.    *)
LEMMA DeselectFits ==
    ASSUME NEW s, Pressed(s), NEW d, NEW last, Now(d, last), OnTime(s, d, last)
    PROVE  /\ OnTime(Deselect(s), d, last)
           /\ Rested(s) => ~Deselect(s).paused
           /\ ~s.paused => Deselect(s).loop = s.loop
<1>. DEFINE u == [s EXCEPT !.selected = FALSE]
            c == CheckHb(u)
            t == [c EXCEPT !.paused = FALSE]
<1>1. s \in Window /\ s.selected \in BOOLEAN /\ s.paused \in BOOLEAN
    BY DEF Pressed, Both, Window
<1>2. Deselect(s) = IF ~s.selected THEN s ELSE IF s.paused THEN t ELSE u
    BY DEF Deselect
<1>3. u \in Window /\ u.loop = s.loop /\ SameSettings(u, s) /\ u.paused = s.paused
    BY <1>1 DEF Window, SameSettings
<1>. HIDE DEF u
<1>4. Pressed(u)
    BY <1>3 DEF Pressed, Both, OnSlots, SameSettings
<1>5. OnTime(u, d, last)
    BY <1>3, SameIsOnTime
<1>6. OnTime(c, d, last)
    BY <1>4, <1>5, CheckHbFits
<1>7. c \in Window
    <2>1. time \in Nat /\ pause \in BOOLEAN
        BY DEF Now
    <2>. QED
        BY <1>4, <2>1, CheckHbIsGood DEF Resumes, Pressed, Both
<1>. HIDE DEF c
<1>8. t.loop = c.loop /\ SameSettings(t, c) /\ t.paused = FALSE
    BY <1>7 DEF Window, SameSettings
<1>. HIDE DEF t
<1>9. OnTime(t, d, last)
    BY <1>6, <1>8, SameIsOnTime
<1>. QED
    BY <1>2, <1>3, <1>5, <1>8, <1>9 DEF Rested

LEMMA SendCQFits ==
    ASSUME NEW s, Pressed(s), NEW d, NEW last, Now(d, last), OnTime(s, d, last),
           NEW repeat \in BOOLEAN
    PROVE  /\ OnTime(SendCQ(s, repeat), d, last)
           /\ Rested(s) => ~SendCQ(s, repeat).paused
           /\ repeat /\ ~s.paused /\ s.outcome = "ready" => SendCQ(s, repeat).loop = s.loop
           /\ s.outcome # "ready" => \A l \in Loops : ~SendCQ(s, repeat).loop[l].active
<1>. DEFINE u == IF repeat THEN s ELSE Cancel(Cancel(s, "cq"), "hb")
<1>1. s \in Window /\ "cq" \in Loops /\ "hb" \in Loops
    BY LoopsAre DEF Pressed, Both
<1>2. Stops(u, s)
    <2>1. Stops(s, s)
        BY <1>1 DEF Stops, Same, SameSettings
    <2>2. Stops(Cancel(s, "cq"), s) /\ Cancel(s, "cq") \in Window
        BY <1>1, CancelStops DEF Stops
    <2>3. Stops(Cancel(Cancel(s, "cq"), "hb"), Cancel(s, "cq"))
        BY <1>1, <2>2, CancelStops
    <2>4. Stops(Cancel(Cancel(s, "cq"), "hb"), s)
        BY <1>1, <2>2, <2>3, StopsTwice
    <2>. QED
        BY <2>1, <2>4
<1>3. SendCQ(s, repeat) = Transmit(Deselect(u)) /\ (repeat => u = s)
    BY DEF SendCQ
<1>. HIDE DEF u
<1>4. /\ Pressed(u) /\ OnTime(u, d, last) /\ (Rested(s) => Rested(u))
      /\ u.outcome = s.outcome /\ time \in Nat /\ pause \in BOOLEAN
    BY <1>1, <1>2, StoppingIsGood, StoppedIsFit DEF Stops, Same, SameSettings, Now
<1>. DEFINE c == Deselect(u)
<1>5. /\ OnTime(c, d, last) /\ (Rested(u) => ~c.paused) /\ (~u.paused => c.loop = u.loop)
    BY <1>4, DeselectFits
<1>6. Both(c) /\ c.outcome = s.outcome
    BY <1>4, DeselectIsGood DEF Resumes, Pressed, SameSettings
<1>. HIDE DEF c
<1>7. /\ Stops(Transmit(c), c)
      /\ s.outcome = "ready" => Transmit(c) = c
      /\ s.outcome # "ready" => \A l \in Loops : ~Transmit(c).loop[l].active
    BY <1>6, TransmitStops
<1>8. OnTime(Transmit(c), d, last) /\ Transmit(c).paused = c.paused
    BY <1>5, <1>6, <1>7, StoppedIsFit DEF Both, Stops, Same
<1>. QED
    BY <1>3, <1>4, <1>5, <1>7, <1>8 DEF c

LEMMA CheckCqFits ==
    ASSUME NEW s, NEW d, NEW last, Now(d, last), Fit(s, d, last),
           s.outcome # "idle"
    PROVE  Fit(CheckCq(s), d, last)
<1>1. /\ Good(s) /\ OnTime(s, d, last) /\ Rested(s)
      /\ s \in Window /\ Pressed(s) /\ InStep(s.loop["cq"]) /\ s.loop["cq"] \in Loop
      /\ "cq" \in Loops /\ "hb" \in Loops /\ Both(s) /\ time \in Nat /\ pause \in BOOLEAN
    BY LoopsAre DEF Fit, Good, Pressed, Both, Window, Now
<1>2. Good(CheckCq(s))
    BY <1>1, CheckCqIsGood
<1>3. CASE s.loop["cq"].checked
    BY <1>3 DEF CheckCq
<1>4. CASE ~s.loop["cq"].checked
    <2>. DEFINE x == [s.loop["cq"] EXCEPT !.checked = TRUE]
                u == Put(s, "cq", x)
                c == Deselect(u)
    <2>1. ~s.loop["cq"].active
        BY <1>1, <1>4 DEF InStep, Orderly
    <2>2. x \in Loop /\ ~x.active /\ x.checked /\ Orderly(x)
        <3>1. x \in Loop
            BY <1>1, PressedLoop
        <3>2. x.active = s.loop["cq"].active /\ x.checked = TRUE /\ x.timer = s.loop["cq"].timer
            BY <1>1 DEF Loop
        <3>3. s.loop["cq"].timer = Unset
            BY <1>1, <2>1 DEF InStep, Orderly
        <3>. QED
            BY <2>1, <3>1, <3>2, <3>3 DEF Orderly
    <2>3. CheckCq(s) = IF s.interval["cq"] # 0 THEN Start(c, "cq", s.interval["cq"])
                       ELSE Uncheck(SendCQ(Cancel(c, "cq"), FALSE), "cq")
        <3>1. u = [s EXCEPT !.loop["cq"].checked = TRUE]
            BY <1>1 DEF Put, Window
        <3>. QED
            BY <1>4, <3>1 DEF CheckCq
    <2>. HIDE DEF x
    <2>4. u \in Window /\ Same(u, s) /\ u.loop["cq"] = x /\ u.loop["hb"] = s.loop["hb"]
        BY <1>1, <2>2, PutIs, LoopsAre
    <2>. HIDE DEF u
    <2>5. Pressed(u)
        BY <1>1, <2>2, <2>4, LoopsAre DEF Pressed, Both, OnSlots, Same, SameSettings
    <2>6. OnTime(u, d, last)
        BY <1>1, <2>2, <2>4, LoopsAre, SameIsOnTime DEF Same
    <2>7. Rested(u)
        BY <1>1, <2>2, <2>4 DEF Rested, Same
    <2>8. Resumes(c, u) /\ OnTime(c, d, last) /\ ~c.paused
        BY <1>1, <2>5, <2>6, <2>7, DeselectIsGood, DeselectFits
    <2>. HIDE DEF c
    <2>9. /\ Pressed(c) /\ Both(c) /\ c.loop["cq"] = x /\ c \in Window /\ Rested(c)
        <3>1. u.outcome # "idle" /\ ~u.loop["cq"].active
            BY <2>2, <2>4 DEF Same, SameSettings
        <3>. QED
            BY <2>4, <2>8, <3>1 DEF Resumes, Pressed, Both, Rested
    <2>10. CASE s.interval["cq"] # 0
        <3>. DEFINE t == Start(c, "cq", s.interval["cq"])
        <3>1. s.interval["cq"] \in Chosen \ {0}
            BY <1>1, <2>10, SettingsAre DEF Window
        <3>2. OnTime(t, d, last) /\ Same(t, c)
            BY <1>1, <2>2, <2>9, <3>1, StartIsOnTime, StartIsGood
        <3>3. CheckCq(s) = t
            BY <2>3, <2>10
        <3>. HIDE DEF t
        <3>. QED
            BY <1>2, <2>8, <3>2, <3>3 DEF Fit, Rested, Same
    <2>11. CASE s.interval["cq"] = 0
        <3>. DEFINE e == SendCQ(c, FALSE)
        <3>1. Cancel(c, "cq") = c
            BY <1>1, <2>2, <2>9, CancelStops
        <3>2. Pressed(e) /\ OnTime(e, d, last) /\ ~e.paused
            BY <1>1, <2>8, <2>9, SendCQIsGood, SendCQFits
        <3>3. CheckCq(s) = Uncheck(e, "cq")
            BY <2>3, <2>11, <3>1
        <3>. HIDE DEF e
        <3>4. Stops(Uncheck(e, "cq"), e) /\ e \in Window /\ Rested(e)
            BY <1>1, <3>2, UncheckStops DEF Pressed, Both, Rested
        <3>. QED
            BY <1>2, <3>2, <3>3, <3>4, StoppedIsFit DEF Fit
    <2>. QED
        BY <2>10, <2>11
<1>. QED
    BY <1>1, <1>3, <1>4 DEF Fit

LEMMA SetCheckedFits ==
    ASSUME NEW s, NEW d, NEW last, Now(d, last), Fit(s, d, last), NEW l \in Loops,
           NEW checked \in BOOLEAN, l = "cq" => s.outcome # "idle"
    PROVE  Fit(SetChecked(s, l, checked), d, last)
<1>1. /\ Good(s) /\ Both(s) /\ Pressed(s) /\ s \in Window /\ time \in Nat
      /\ pause \in BOOLEAN
    BY DEF Fit, Good, Pressed, Both, Now
<1>2. Fit(Uncheck(s, l), d, last)
    BY <1>1, UncheckStops, StoppedIsFit
<1>3. Fit(CheckHb(s), d, last)
    BY <1>1, CheckHbIsGood, ResumesIsGood, CheckHbFits DEF Fit
<1>4. l = "cq" => Fit(CheckCq(s), d, last)
    BY CheckCqFits
<1>. QED
    BY <1>2, <1>3, <1>4, LoopsAre DEF SetChecked

LEMMA SelectCallFits ==
    ASSUME NEW s, NEW d, NEW last, Now(d, last), Fit(s, d, last)
    PROVE  Fit(SelectCall(s), d, last)
<1>. DEFINE a == IF pause THEN Uncheck(s, "hb") ELSE s
            b == IF pause THEN Uncheck(a, "cq") ELSE a
            paused == s.paused \/ (pause /\ s.loop["hb"].checked)
            t == [b EXCEPT !.selected = TRUE, !.paused = paused]
<1>1. /\ "hb" \in Loops /\ "cq" \in Loops /\ "hb" # "cq" /\ s \in Window /\ Both(s)
      /\ Good(s) /\ pause \in BOOLEAN /\ s.paused \in BOOLEAN
      /\ s.loop["hb"].checked \in BOOLEAN /\ s.loop["hb"].active \in BOOLEAN
      /\ (s.loop["hb"].checked => s.loop["hb"].active)
      /\ ~(s.loop["hb"].active /\ s.loop["cq"].active)
    BY LoopsAre DEF Fit, Good, Pressed, Both, Now, Window, Loop, InStep
<1>2. Good(SelectCall(s))
    BY <1>1, SelectCallIsGood
<1>3. SelectCall(s) = t
    BY DEF SelectCall
<1>4. Fit(a, d, last) /\ a.loop["cq"] = s.loop["cq"] /\ a.paused = s.paused
    BY <1>1, UncheckStops, StoppedIsFit DEF Stops, Same
<1>5. a \in Window /\ Both(a)
    BY <1>4 DEF Fit, Good, Pressed, Both
<1>. HIDE DEF a
<1>6. Stops(Uncheck(a, "cq"), a)
    BY <1>1, <1>5, UncheckStops
<1>7. Fit(b, d, last) /\ (b.loop["cq"].active => a.loop["cq"].active)
    <2>1. Fit(Uncheck(a, "cq"), d, last)
        BY <1>4, <1>5, <1>6, StoppedIsFit
    <2>2. Uncheck(a, "cq").loop["cq"].active => a.loop["cq"].active
        <3>1. a.loop["cq"] \in Loop
            BY <1>1, <1>5 DEF Window
        <3>. QED
            BY <1>1, <1>6, <3>1, StoppedIs DEF Stops
    <2>. QED
        BY <1>4, <2>1, <2>2
<1>8. TRUE \in BOOLEAN /\ paused \in BOOLEAN
    BY <1>1
<1>9. paused => ~s.loop["cq"].active
    BY <1>1 DEF Fit, Rested
<1>. HIDE DEF b, paused
<1>10. t.loop = b.loop /\ SameSettings(t, b) /\ t.selected = TRUE /\ t.paused = paused
    <2>1. b \in Window
        BY <1>7 DEF Fit, Good, Pressed, Both
    <2>. QED
        BY <1>8, <2>1 DEF Window, SameSettings
<1>. HIDE DEF t
<1>11. OnTime(t, d, last)
    BY <1>7, <1>10, SameIsOnTime DEF Fit
<1>12. Rested(t)
    BY <1>4, <1>7, <1>9, <1>10 DEF Rested
<1>. QED
    BY <1>2, <1>3, <1>11, <1>12 DEF Fit

LEMMA SetupFits ==
    ASSUME NEW s, NEW d, NEW last, Now(d, last), Fit(s, d, last), NEW m \in Submodes,
           hbMode \in BOOLEAN
    PROVE  Fit(SetupJS8(s, m), d, last)
<1>. DEFINE t == [s EXCEPT !.speed = m]
<1>1. Good(t) /\ Good(SetupJS8(s, m)) /\ s \in Window
    BY SpeedIs, SetupIsGood DEF Fit, Good, Pressed, Both
<1>2. (m \in HbSubmodes /\ hbMode) \in BOOLEAN
    OBVIOUS
<1>3. Stops(SetupJS8(s, m), t)
    BY <1>1, <1>2, PreparedIsGood DEF SetupJS8
<1>4. /\ t \in Window /\ t.loop = s.loop /\ t.submode = s.submode /\ t.delay = s.delay
      /\ t.selected = s.selected /\ t.paused = s.paused
    BY <1>1 DEF Window
<1>. HIDE DEF t
<1>5. OnTime(t, d, last) /\ Rested(t)
    BY <1>4 DEF Fit, OnTime, Rested
<1>. QED
    BY <1>1, <1>3, <1>4, <1>5, StoppedIsFit DEF Fit

(* Starting again what runs.                                               *)
LEMMA RestartFits ==
    ASSUME NEW s, Both(s), NEW l \in Loops, NEW d, NEW last, Now(d, last)
    PROVE  /\ OnTime(s, d, last) => OnTime(Restart(s, l), d, last)
           /\ s.loop[l].active => OnTime(Restart(s, l), d, last)
           /\ Rested(s) => Rested(Restart(s, l))
<1>1. CASE s.loop[l].active
    <2>. DEFINE t == Start(s, l, s.loop[l].period)
    <2>1. s.loop[l].checked /\ s.loop[l].period \in Chosen \ {0} /\ time \in Nat
        BY <1>1 DEF Both, Orderly, Now
    <2>2. OnTime(t, d, last) /\ Same(t, s)
        BY <2>1, StartIsOnTime, StartIsGood
    <2>3. \A k \in Loops \ {l} : ~t.loop[k].active
        BY <2>1, StartIsGood
    <2>4. Restart(s, l) = t
        BY <1>1 DEF Restart
    <2>. HIDE DEF t
    <2>5. Rested(s) => Rested(t)
        BY <1>1, <2>2, <2>3, LoopsAre DEF Rested, Same
    <2>. QED
        BY <2>2, <2>4, <2>5
<1>2. CASE ~s.loop[l].active
    BY <1>2 DEF Restart
<1>. QED
    BY <1>1, <1>2

LEMMA RestartedFits ==
    ASSUME NEW s, Both(s), \A l \in Loops : InStep(s.loop[l]), Rested(s),
           NEW d, NEW last, Now(d, last)
    PROVE  /\ OnTime(Restart(Restart(s, "hb"), "cq"), d, last)
           /\ Rested(Restart(Restart(s, "hb"), "cq"))
<1>. DEFINE h == Restart(s, "hb")
<1>1. "hb" \in Loops /\ "cq" \in Loops /\ time \in Nat
    BY LoopsAre DEF Now
<1>2. Both(h) /\ Rested(h)
    BY <1>1, RestartIsGood, RestartFits
<1>3. s.loop["hb"].active => OnTime(h, d, last)
    BY <1>1, RestartFits
<1>4. ~s.loop["hb"].active => h = s
    BY <1>1, RestartIsGood
<1>. HIDE DEF h
<1>5. Rested(Restart(h, "cq"))
    BY <1>1, <1>2, RestartFits
<1>6. CASE s.loop["hb"].active
    BY <1>1, <1>2, <1>3, <1>5, <1>6, RestartFits DEF h
<1>7. CASE ~s.loop["hb"].active /\ s.loop["cq"].active
    BY <1>1, <1>2, <1>4, <1>5, <1>7, RestartFits DEF h
<1>8. CASE ~s.loop["hb"].active /\ ~s.loop["cq"].active
    <2>1. OnTime(s, d, last)
        BY <1>8, LoopsAre DEF OnTime
    <2>. QED
        BY <1>1, <1>2, <1>4, <1>5, <1>8, <2>1, RestartFits DEF h
<1>. QED
    BY <1>6, <1>7, <1>8

-----------------------------------------------------------------------------
(* Changes of the drift.                                                   *)

(* onDriftChange: a loop that runs follows the clock or starts again.      *)
LEMMA OnDriftChangeFits ==
    ASSUME NEW s, Good(s), NEW l \in Loops, NEW d, NEW last, Now(d, last),
           NEW d0, OnTime(s, d0, last), Rested(s)
    PROVE  /\ s.loop[l].active => OnTime(OnDriftChange(s, l, d), d, last)
           /\ ~s.loop[l].active => OnDriftChange(s, l, d) = s
           /\ Rested(OnDriftChange(s, l, d))
<1>. DEFINE now == Drifted(time, d)
            push == s.loop[l].next - s.delay
            x == [s.loop[l] EXCEPT !.timer = time + (push - now)]
            t == OnDriftChange(s, l, d)
<1>1. /\ s \in Window /\ Both(s) /\ s.loop[l] \in Loop /\ s.delay \in Delays
      /\ s.submode \in Submodes /\ time \in Nat /\ d \in Drifts
    BY LoopsAre DEF Good, Pressed, Both, Window, Now
<1>2. /\ s.loop[l].next \in Int /\ s.loop[l].period \in Int /\ s.delay \in Nat /\ d \in Int
      /\ MaxLate \in Nat /\ Period[s.submode] \in Nat
    BY <1>1, BoundsAre DEF Loop
<1>3. CASE ~s.loop[l].active
    BY <1>3 DEF OnDriftChange
<1>4. CASE s.loop[l].active /\ now < push /\ push < now + s.loop[l].period
    <2>1. time + (push - now) \in Int
        BY <1>1, <1>2 DEF Drifted
    <2>2. /\ x \in Loop /\ x.active /\ x.next = s.loop[l].next /\ x.period = s.loop[l].period
          /\ x.timer = time + (push - now)
        BY <1>1, <1>4, <2>1 DEF Loop
    <2>3. t = Put(s, l, x)
        BY <1>1, <1>4 DEF OnDriftChange, Put, Window
    <2>. HIDE DEF x, t
    <2>4. /\ Same(t, s) /\ t.loop[l] = x /\ \A k \in Loops \ {l} : t.loop[k] = s.loop[k]
        BY <1>1, <2>2, <2>3, PutIs
    <2>5. Fires(x, push, d)
        BY <1>1, <1>2, <1>4, <2>2 DEF Fires, Drifted
    <2>6. Near(x, s.submode)
        BY <1>1, <1>2, <1>4, <2>2 DEF Near, Drifted
    <2>7. DriftsAreBounded => Apart(push, last)
        <3>1. now \in Int /\ push \in Int
            BY <1>1, <1>2 DEF Drifted
        <3>2. s.loop[l].period > 0
            BY <1>2, <1>4, <3>1
        <3>. QED
            BY <1>4, <3>2 DEF OnTime, Due
    <2>8. Due(x, s.submode, s.delay, d, last)
        BY <2>2, <2>5, <2>6, <2>7 DEF Due
    <2>9. \A k \in Loops \ {l} : ~s.loop[k].active
        BY <1>4, LoopsAre DEF Good, Pressed
    <2>10. OnTime(t, d, last)
        BY <2>4, <2>8, <2>9 DEF OnTime, Same, SameSettings
    <2>11. Rested(t)
        BY <1>4, <2>2, <2>4, LoopsAre DEF Rested, Same
    <2>. QED
        BY <1>4, <2>10, <2>11 DEF t
<1>5. CASE s.loop[l].active /\ ~(now < push /\ push < now + s.loop[l].period)
    <2>1. t = Restart(s, l)
        BY <1>5 DEF OnDriftChange, Restart
    <2>. HIDE DEF t
    <2>2. OnTime(t, d, last) /\ Rested(t)
        BY <1>1, <1>5, <2>1, RestartFits
    <2>. QED
        BY <1>5, <2>2 DEF t
<1>. QED
    BY <1>3, <1>4, <1>5

-----------------------------------------------------------------------------
(* The inductive invariant.                                                *)
TInv ==
    /\ IInv
    /\ OnTime(State("ready"), drift, lastTrigger)
    /\ Rested(State("ready"))
    /\ lastTrigger =< time

LEMMA StateFits ==
    ASSUME TInv, NEW o \in Outcomes
    PROVE  /\ Fit(State(o), drift, lastTrigger) /\ Now(drift, lastTrigger)
           /\ State(o) \in Window /\ State(o).loop = loop /\ State(o).submode = m_submode
           /\ State(o).delay = m_tx_delay /\ State(o).outcome = o /\ hbMode \in BOOLEAN
           /\ IInv
<1>1. Now(drift, lastTrigger)
    BY DEF TInv, IInv, TypeOK, Now
<1>2. /\ State(o).loop = State("ready").loop /\ State(o).submode = State("ready").submode
      /\ State(o).delay = State("ready").delay /\ State(o).paused = State("ready").paused
      /\ State(o).selected = State("ready").selected
    BY DEF State
<1>3. OnTime(State(o), drift, lastTrigger) /\ Rested(State(o))
    BY <1>2 DEF TInv, OnTime, Rested
<1>. QED
    BY <1>1, <1>3, StateIsGood DEF TInv, Fit

(* A handler that leaves the loops on time keeps the invariant.            *)
LEMMA FitStep ==
    ASSUME TInv, [Next]_vars, NEW t, Becomes(t), time' = time,
           OnTime(t, drift', lastTrigger'), Rested(t), lastTrigger' =< time
    PROVE  TInv'
<1>1. IInv'
    BY StepIsGood DEF TInv
<1>. DEFINE now == State("ready")
<1>2. /\ now'.loop = t.loop /\ now'.submode = t.submode /\ now'.delay = t.delay
      /\ now'.paused = t.paused /\ now'.selected = t.selected
    BY DEF Becomes, State
<1>3. OnTime(now, drift, lastTrigger)'
    BY <1>2 DEF OnTime, Due, Fires, Near, Apart
<1>4. Rested(now)'
    BY <1>2 DEF Rested
<1>. QED
    BY <1>1, <1>3, <1>4 DEF TInv

LEMMA InputFits ==
    ASSUME TInv, [Next]_vars, NEW t, Becomes(t), Fit(t, drift, lastTrigger),
           UNCHANGED <<time, drift, lastTrigger>>
    PROVE  TInv'
BY FitStep DEF Fit, TInv

(* Time passes while no timer is as late as it may be.                     *)
LEMMA TickFits ==
    ASSUME TInv, Tick
    PROVE  TInv'
<1>. DEFINE now == State("ready")
<1>1. [Next]_vars
    BY DEF Next
<1>2. IInv'
    BY <1>1, StepIsGood DEF TInv
<1>3. /\ now' = now /\ drift' = drift /\ lastTrigger' = lastTrigger /\ time' = time + 1
      /\ now.loop = loop /\ now.submode = m_submode /\ now.delay = m_tx_delay
    BY DEF Tick, State
<1>4. /\ time \in Nat /\ MaxLate \in Nat /\ lastTrigger \in Int /\ m_submode \in Submodes
      /\ Period[m_submode] \in Nat
    <2>1. time \in Nat /\ lastTrigger \in Int /\ m_submode \in Submodes
        BY DEF TInv, IInv, TypeOK, Unset
    <2>. QED
        BY <2>1, BoundsAre
<1>5. ASSUME NEW l \in Loops, loop[l].active, loop[l].period > 0
      PROVE  Due(loop[l], m_submode, m_tx_delay, drift, lastTrigger)'
    <2>1. loop[l] \in Loop /\ loop[l].timer >= 0
        BY <1>5 DEF TInv, IInv, TypeOK, Running
    <2>2. loop[l].timer \in Int /\ loop[l].period \in Int /\ loop[l].timer # Unset
        BY <2>1 DEF Loop, Unset
    <2>3. time < loop[l].timer + MaxLate
        BY <2>2 DEF Tick
    <2>4. Due(loop[l], m_submode, m_tx_delay, drift, lastTrigger)
        BY <1>3, <1>5 DEF TInv, OnTime
    <2>5. UNCHANGED <<loop, m_submode, m_tx_delay, drift, lastTrigger>>
        BY DEF Tick
    <2>6. Fires(loop[l], loop[l].next - m_tx_delay, drift)'
        BY <1>3, <1>4, <2>2, <2>3, <2>4, <2>5 DEF Due, Fires
    <2>7. Near(loop[l], m_submode) => Near(loop[l], m_submode)'
        BY <1>3, <1>4, <2>2, <2>5 DEF Near
    <2>8. Apart(loop[l].next - m_tx_delay, lastTrigger)
            => Apart(loop[l].next - m_tx_delay, lastTrigger)'
        BY <2>5 DEF Apart
    <2>. QED
        BY <2>4, <2>6, <2>7, <2>8 DEF Due
<1>6. OnTime(now, drift, lastTrigger)'
    <2>1. now'.loop = loop' /\ now'.submode = m_submode' /\ now'.delay = m_tx_delay'
        BY DEF State
    <2>2. loop' = loop
        BY DEF Tick
    <2>. QED
        BY <1>5, <2>1, <2>2 DEF OnTime
<1>7. Rested(now)'
    BY <1>3 DEF TInv, Rested
<1>8. (lastTrigger =< time)'
    BY <1>3, <1>4 DEF TInv
<1>. QED
    BY <1>2, <1>6, <1>7, <1>8 DEF TInv

-----------------------------------------------------------------------------
(* A timer that fires.                                                     *)

(* How far a whole number of periods beyond the lateness is.               *)
LEMMA UpToAPeriod ==
    ASSUME NEW p \in Nat, p > 0, NEW t \in Nat
    PROVE  ((t \div p) + 1) * p - t \in 1 .. p
<1>1. t % p \in 0 .. p - 1 /\ t \div p \in Nat /\ t = p * (t \div p) + (t % p)
    BY SMT
<1>. DEFINE q == t \div p
            r == t % p
<1>2. r \in 0 .. p - 1 /\ q \in Nat /\ t = p * q + r
    BY <1>1
<1>. HIDE DEF q, r
<1>3. (q + 1) * p - t = p - r
    BY <1>2
<1>. QED
    BY <1>2, <1>3 DEF q

(* onTimer plans the start a period later, or, when the clock is past that *)
(* one, the first of the following periods' that is not.                   *)
LEMMA NextActivityIsNear ==
    ASSUME IInv, NEW l \in Loops, loop[l].active, loop[l].period > 0
    PROVE  LET push == loop[l].next - m_tx_delay
               p    == loop[l].period
               wait == NextActivity(l) - m_tx_delay - Drifted(time, drift)
           IN  \/ NextActivity(l) = loop[l].next + p /\ wait = push + p - (time + drift) /\ wait >= 0
               \/ push + p < time + drift /\ wait \in 1 .. p
<1>. DEFINE p == loop[l].period
            slot == Period[m_submode]
            now == Drifted(time, drift)
            raw == loop[l].next + p
            next == raw - (raw % slot)
            late == now - (next - m_tx_delay)
<1>1. /\ slot \in Nat /\ slot > 0 /\ p \in Nat /\ p > 0 /\ p % slot = 0
      /\ loop[l].next \in Int /\ m_tx_delay \in Nat /\ now \in Int /\ now = time + drift
      /\ loop[l].next % slot = 0
    <2>1. /\ loop[l] \in Loop /\ p \in Periods /\ m_submode \in Submodes
          /\ m_tx_delay \in Delays /\ drift \in Drifts /\ time \in Nat
          /\ loop[l].next % slot = 0
        BY BoundsAre DEF IInv, TypeOK, Running
    <2>2. loop[l].next \in Int
        BY <2>1 DEF Loop
    <2>. QED
        BY <2>1, <2>2, BoundsAre DEF Drifted
<1>2. NextActivity(l) = IF late > 0 THEN next + (late \div p + 1) * p ELSE next
    BY DEF NextActivity, Quotient
<1>. HIDE DEF slot, now, p
<1>3. next = raw /\ raw \in Int
    <2>1. p \in Int /\ 1 \in Int
        BY <1>1
    <2>2. (loop[l].next + 1 * p) % slot = 0
        BY <1>1, <2>1, IntervalsLater
    <2>3. 1 * p = p
        BY <2>1
    <2>4. raw % slot = 0
        BY <2>2, <2>3
    <2>5. raw \in Int
        BY <1>1
    <2>. QED
        BY <2>4, <2>5
<1>. HIDE DEF next
<1>4. CASE late > 0
    <2>1. late \in Nat
        BY <1>1, <1>3, <1>4
    <2>. DEFINE n == (late \div p + 1) * p
    <2>2. n - late \in 1 .. p /\ n \in Int
        BY <1>1, <2>1, UpToAPeriod
    <2>3. NextActivity(l) = next + n
        BY <1>2, <1>4
    <2>. HIDE DEF n
    <2>4. NextActivity(l) - m_tx_delay - now \in 1 .. p
        BY <1>1, <1>3, <2>2, <2>3
    <2>5. loop[l].next - m_tx_delay + p < time + drift
        BY <1>1, <1>3, <1>4
    <2>. QED
        BY <2>4, <2>5 DEF now, p
<1>5. CASE ~(late > 0)
    <2>1. NextActivity(l) = raw
        BY <1>2, <1>3, <1>5
    <2>2. NextActivity(l) - m_tx_delay - now = loop[l].next - m_tx_delay + p - (time + drift)
        BY <1>1, <2>1
    <2>3. NextActivity(l) - m_tx_delay - now >= 0
        BY <1>1, <1>3, <1>5, <2>1
    <2>. QED
        BY <2>1, <2>2, <2>3 DEF now, p
<1>. QED
    BY <1>4, <1>5

(* The loop as it is planned when its timer fires.                         *)
Planned(l) ==
    [loop[l] EXCEPT !.next = NextActivity(l),
                    !.timer = TimerTo(time + (NextActivity(l) - Drifted(time, drift)
                                                              - m_tx_delay))]

LEMMA PlannedIsDue ==
    ASSUME TInv, NEW l \in Loops, NEW o \in Outcomes, OnTimer(l, o), loop[l].period > 0
    PROVE  /\ Due(Planned(l), m_submode, m_tx_delay, drift, time)
           /\ NoDriftIsAnInterval => Planned(l).timer > time
<1>. DEFINE n == NextActivity(l)
            x == Planned(l)
            p == loop[l].period
            slot == Period[m_submode]
            push == loop[l].next - m_tx_delay
            wait == n - m_tx_delay - Drifted(time, drift)
<1>1. loop[l].active
    BY DEF TInv, IInv, Running, OnTimer
<1>2. /\ loop[l] \in Loop /\ p \in Periods /\ m_submode \in Submodes
      /\ m_tx_delay \in Delays /\ drift \in Drifts /\ time \in Nat
    BY <1>1, BoundsAre DEF TInv, IInv, TypeOK, Running
<1>3. /\ loop[l].next \in Int /\ loop[l].timer \in Int /\ p \in Nat /\ p > 0
      /\ m_tx_delay \in Nat /\ drift \in Int /\ MaxLate \in Nat /\ slot \in Nat /\ slot > 0
    BY <1>2, BoundsAre DEF Loop
<1>4. n \in Int /\ Drifted(time, drift) = time + drift
    BY <1>1, NextActivityIs DEF TInv, Drifted
<1>5. \/ n = loop[l].next + p /\ wait = push + p - (time + drift) /\ wait >= 0
      \/ push + p < time + drift /\ wait \in 1 .. p
    BY <1>1, NextActivityIsNear DEF TInv
<1>6. loop[l].timer =< time /\ Due(loop[l], m_submode, m_tx_delay, drift, lastTrigger)
    BY <1>1, StateFits, OutcomesAre DEF OnTimer, Fit, OnTime
<1>7. /\ loop[l].timer = push \/ loop[l].timer = push - drift
      /\ time =< loop[l].timer + MaxLate
    BY <1>6 DEF Due, Fires
<1>. HIDE DEF n
<1>8. /\ x \in Loop /\ x.active /\ x.next = n /\ x.period = p
      /\ x.timer = time + (n - Drifted(time, drift) - m_tx_delay)
    <2>. DEFINE at == time + (n - Drifted(time, drift) - m_tx_delay)
    <2>1. at \in Int /\ at >= time
        BY <1>2, <1>3, <1>4, <1>5
    <2>2. Planned(l) = [loop[l] EXCEPT !.next = n, !.timer = TimerTo(at)]
        BY DEF Planned, n
    <2>. HIDE DEF at
    <2>3. TimerTo(at) = at
        BY <1>2, <2>1, TimerToIs
    <2>4. /\ x \in Loop /\ x.active /\ x.next = n /\ x.period = p /\ x.timer = at
        BY <1>1, <1>2, <1>4, <2>1, <2>2, <2>3 DEF Loop
    <2>. QED
        BY <2>4 DEF at
<1>. HIDE DEF x, p, slot
<1>9. /\ x.timer = x.next - m_tx_delay - drift /\ x.timer = time + wait /\ wait \in Int
      /\ wait >= 0
    BY <1>2, <1>3, <1>4, <1>5, <1>8
<1>10. Fires(x, x.next - m_tx_delay, drift)
    BY <1>2, <1>3, <1>9 DEF Fires
<1>11. ASSUME DriftsAreNear PROVE Near(x, m_submode)
    <2>1. -drift < slot
        BY <1>2, <1>11 DEF DriftsAreNear, slot
    <2>2. wait < p + slot
        BY <1>2, <1>3, <1>4, <1>5, <1>6, <1>7, <2>1
    <2>. QED
        BY <1>2, <1>3, <1>8, <1>9, <2>2 DEF Near, slot
<1>12. ASSUME DriftsAreBounded, NEW e \in Drifts
       PROVE  x.next - m_tx_delay - e >= time + Gap
    <2>1. 0 \in Drifts /\ e \in Int
        BY BoundsAre
    <2>2. Gap \in Int /\ p - MaxLate + drift - e >= Gap /\ p - MaxLate + 0 - e >= Gap
        BY <1>2, <1>12, <2>1, GapIs DEF p
    <2>3. x.next - m_tx_delay - e = time + drift + wait - e
        BY <1>2, <1>3, <1>4, <1>8, <2>1
    <2>4. CASE n = loop[l].next + p /\ wait = push + p - (time + drift)
        BY <1>2, <1>3, <1>7, <2>1, <2>2, <2>3, <2>4
    <2>5. CASE push + p < time + drift /\ wait \in 1 .. p
        BY <1>2, <1>3, <1>7, <2>1, <2>2, <2>3, <2>5
    <2>. QED
        BY <1>5, <2>4, <2>5
<1>13. Due(x, m_submode, m_tx_delay, drift, time)
    BY <1>10, <1>11, <1>12 DEF Due, Apart
<1>14. ASSUME NoDriftIsAnInterval PROVE x.timer > time
    <2>1. 0 \in Drifts
        BY BoundsAre
    <2>2. p - drift \notin 0 .. MaxLate /\ p - 0 \notin 0 .. MaxLate
        BY <1>2, <1>14, <2>1 DEF NoDriftIsAnInterval, p
    <2>3. wait # 0
        BY <1>2, <1>3, <1>5, <1>6, <1>7, <2>2
    <2>. QED
        BY <1>2, <1>9, <2>3
<1>. QED
    BY <1>13, <1>14 DEF x

(* A loop that has triggered is active, and planned as it should be.       *)
LEMMA PlannedIsActive ==
    ASSUME IInv, NEW l \in Loops, NEW o \in Outcomes, OnTimer(l, o)
    PROVE  Planned(l).active /\ Planned(l).period = loop[l].period
<1>1. loop[l].active /\ loop[l] \in Loop
    BY DEF IInv, TypeOK, Running, OnTimer
<1>. QED
    BY <1>1 DEF Planned, Loop

(* onTimer with the CQ's deselection: the loop stays as planned, since no  *)
(* heartbeat is paused while a CQ loop runs, or no loop goes on.           *)
LEMMA OnTimerFits ==
    ASSUME TInv, NEW l \in Loops, NEW o \in Outcomes, OnTimer(l, o)
    PROVE  /\ TInv'
           /\ o = "ready" => loop'[l] = Planned(l)
           /\ o # "ready" => \A k \in Loops : ~loop'[k].active
<1>. DEFINE n == NextActivity(l)
            wait == n - Drifted(time, drift) - m_tx_delay
            k == TimerTo(time + wait)
            x == [State(o).loop[l] EXCEPT !.next = n, !.timer = k]
            u == Put(State(o), l, x)
            told == Cancel(u, Other(l))
            t == IF l = "cq" THEN SendCQ(told, TRUE) ELSE Transmit(told)
<1>1. /\ Good(State(o)) /\ State(o) \in Window /\ time \in Nat /\ pause \in BOOLEAN
      /\ State(o).loop = loop /\ State(o).submode = m_submode /\ State(o).delay = m_tx_delay
      /\ Rested(State(o)) /\ State(o).outcome = o
    BY StateFits DEF Fit, Now
<1>2. loop[l].active
    BY DEF TInv, IInv, Running, OnTimer
<1>3. /\ n \in Int /\ n % Period[m_submode] = 0 /\ k \in Int
      /\ loop[l].period > 0 => k >= 0
    <2>1. /\ n \in Int /\ n % Period[m_submode] = 0
          /\ loop[l].period > 0 => n - m_tx_delay >= Drifted(time, drift)
        BY <1>2, NextActivityIs DEF TInv
    <2>2. m_tx_delay \in Int /\ Drifted(time, drift) \in Int
        <3>1. m_tx_delay \in Delays /\ drift \in Drifts
            BY DEF TInv, IInv, TypeOK
        <3>2. m_tx_delay \in Nat /\ drift \in Int
            BY <3>1, BoundsAre
        <3>. QED
            BY <1>1, <3>2 DEF Drifted
    <2>. HIDE DEF n
    <2>3. time + wait \in Int /\ (loop[l].period > 0 => time + wait >= time)
        BY <1>1, <2>1, <2>2
    <2>. HIDE DEF wait
    <2>. QED
        BY <1>1, <2>1, <2>3, TimerToIs
<1>4. [State(o) EXCEPT !.loop[l].next = n, !.loop[l].timer = k] = u
    BY <1>1 DEF Put, Window
<1>5. x = Planned(l) /\ loop[l] \in Loop
    BY <1>1 DEF Planned, Window
<1>6. Becomes(t) /\ lastTrigger' = time /\ UNCHANGED <<time, drift>>
    BY <1>4 DEF OnTimer
<1>. HIDE DEF n, wait, k
<1>7. x \in Loop
    BY <1>1, <1>3, <1>5, ChangedLoop
<1>8. Good(u) /\ Same(u, State(o))
    BY <1>1, <1>2, <1>3, RescheduledIsGood
<1>9. u.loop[l] = x
    BY <1>1, <1>7, PutIs
<1>. HIDE DEF u, x
<1>10. Other(l) \in Loops /\ Other(l) # l /\ u \in Window /\ \A j \in Loops \ {l} : j = Other(l)
    BY <1>8, LoopsAre DEF Good, Pressed, Both
<1>11. /\ Stops(told, u) /\ ~told.loop[Other(l)].active /\ told.loop[l] = x
    BY <1>9, <1>10, CancelStops
<1>12. Good(told) /\ Pressed(told) /\ Both(told) /\ SameSettings(told, State(o))
       /\ told.paused = State(o).paused /\ told.selected = State(o).selected
       /\ told.outcome = o /\ told \in Window
    BY <1>1, <1>8, <1>11, StoppingIsGood DEF Good, Pressed, Both, Stops, Same, SameSettings
<1>. HIDE DEF told
<1>13. OnTime(told, drift, time)
    <2>1. loop[l].period > 0 => Due(x, m_submode, m_tx_delay, drift, time)
        BY <1>5, PlannedIsDue
    <2>2. told.submode = m_submode /\ told.delay = m_tx_delay
        BY <1>1, <1>12 DEF SameSettings
    <2>3. x.period = loop[l].period
        BY <1>5, PlannedIsActive DEF TInv
    <2>. QED
        BY <1>10, <1>11, <2>1, <2>2, <2>3 DEF OnTime
<1>14. Rested(told) /\ (l = "cq" => ~told.paused)
    <2>1. x.active
        BY <1>5, PlannedIsActive DEF TInv
    <2>. QED
        BY <1>1, <1>2, <1>10, <1>11, <1>12, <2>1, LoopsAre DEF Rested
<1>15. Now(drift, time)
    BY <1>1 DEF Now, TInv, IInv, TypeOK
<1>16. /\ OnTime(SendCQ(told, TRUE), drift, time) /\ Rested(SendCQ(told, TRUE))
       /\ ~told.paused /\ o = "ready" => SendCQ(told, TRUE).loop = told.loop
       /\ o # "ready" => \A j \in Loops : ~SendCQ(told, TRUE).loop[j].active
    BY <1>12, <1>13, <1>14, <1>15, SendCQFits DEF Rested
<1>17. /\ Stops(Transmit(told), told)
       /\ o = "ready" => Transmit(told) = told
       /\ o # "ready" => \A j \in Loops : ~Transmit(told).loop[j].active
    BY <1>12, TransmitStops
<1>18. OnTime(Transmit(told), drift, time) /\ Rested(Transmit(told))
    BY <1>12, <1>13, <1>14, <1>17, StoppedIsFit
<1>19. /\ OnTime(t, drift, time) /\ Rested(t)
       /\ o = "ready" => t.loop = told.loop
       /\ o # "ready" => \A j \in Loops : ~t.loop[j].active
    BY <1>14, <1>16, <1>17, <1>18
<1>. HIDE DEF t
<1>20. [Next]_vars
    BY DEF Next
<1>21. TInv'
    <2>1. OnTime(t, drift', lastTrigger') /\ lastTrigger' =< time /\ time' = time
        BY <1>1, <1>6, <1>19
    <2>. QED
        BY <1>6, <1>19, <1>20, <2>1, FitStep
<1>22. loop' = t.loop
    BY <1>6 DEF Becomes
<1>. QED
    BY <1>5, <1>11, <1>19, <1>21, <1>22

-----------------------------------------------------------------------------
(* Every step.                                                             *)
LEMMA SettingFits ==
    ASSUME NEW s, NEW d, NEW last, Fit(s, d, last), NEW l \in Loops, NEW i \in Settable(l)
    PROVE  Fit([s EXCEPT !.interval[l] = i], d, last)
<1>. DEFINE t == [s EXCEPT !.interval[l] = i]
<1>1. /\ Good(t) /\ t.loop = s.loop /\ t.submode = s.submode /\ t.delay = s.delay
      /\ t.selected = s.selected /\ t.paused = s.paused
    BY SettingIsGood DEF Fit
<1>. HIDE DEF t
<1>2. Fit(t, d, last)
    BY <1>1 DEF Fit, OnTime, Rested
<1>. QED
    BY <1>2 DEF t

LEMMA ToggleFits ==
    ASSUME TInv, [Next]_vars, NEW l \in Loops, NEW o \in UserOutcomes, MacroButtonToggled(l, o)
    PROVE  TInv'
<1>1. /\ Fit(State(o), drift, lastTrigger) /\ Now(drift, lastTrigger)
      /\ State(o).outcome # "idle"
    BY StateFits, OutcomesAre
<1>2. (~loop[l].checked) \in BOOLEAN
    OBVIOUS
<1>3. Fit(SetChecked(State(o), l, ~loop[l].checked), drift, lastTrigger)
    BY <1>1, <1>2, SetCheckedFits
<1>. QED
    BY <1>3, InputFits DEF MacroButtonToggled

LEMMA RepeatFits ==
    ASSUME TInv, [Next]_vars, NEW l \in Loops, NEW i \in Intervals, NEW o \in UserOutcomes,
           RepeatMenu(l, i, o)
    PROVE  TInv'
<1>. DEFINE Fits(v) == Fit(v, drift, lastTrigger)
            set == [State(o) EXCEPT !.interval[l] = i]
            t == SetChecked(Uncheck(set, l), l, i > 0)
<1>1. /\ Fits(State(o)) /\ Now(drift, lastTrigger) /\ State(o).outcome = o /\ o # "idle"
      /\ i \in Settable(l) /\ Good(State(o))
    BY StateFits, OutcomesAre DEF Settable, Fit
<1>2. Fits(set) /\ set.outcome = o
    BY <1>1, SettingFits, SettingIsGood
<1>3. Becomes(t) /\ UNCHANGED <<time, drift, lastTrigger>>
    BY DEF RepeatMenu
<1>. HIDE DEF set
<1>4. Both(set) /\ set \in Window
    BY <1>2 DEF Fit, Good, Pressed, Both
<1>5. Stops(Uncheck(set, l), set)
    BY <1>4, UncheckStops
<1>6. Fits(Uncheck(set, l)) /\ Uncheck(set, l).outcome = o
    BY <1>2, <1>4, <1>5, StoppedIsFit DEF Stops, Same, SameSettings
<1>7. (i > 0) \in BOOLEAN
    OBVIOUS
<1>8. Fits(t)
    BY <1>1, <1>6, <1>7, SetCheckedFits
<1>. HIDE DEF t
<1>. QED
    BY <1>3, <1>8, InputFits

LEMMA HbTimerFits ==
    ASSUME TInv, [Next]_vars, NEW start \in BOOLEAN, NEW o \in Outcomes, SetHbTimer(start, o)
    PROVE  TInv'
<1>1. Fit(SetChecked(State(o), "hb", start), drift, lastTrigger)
    BY StateFits, SetCheckedFits, LoopsAre
<1>. QED
    BY <1>1, InputFits DEF SetHbTimer

LEMMA HbIntervalFits ==
    ASSUME TInv, [Next]_vars, NEW i \in ApiIntervals, SetHbInterval(i)
    PROVE  TInv'
<1>. DEFINE Fits(v) == Fit(v, drift, lastTrigger)
            set == [State("ready") EXCEPT !.interval["hb"] = i]
            t == IF loop["hb"].checked /\ i > 0 THEN Start(set, "hb", i) ELSE set
<1>1. /\ Fits(State("ready")) /\ Good(State("ready")) /\ State("ready").loop = loop
      /\ Now(drift, lastTrigger) /\ time \in Nat /\ "hb" \in Loops /\ "cq" \in Loops
      /\ "hb" # "cq" /\ i \in Settable("hb")
    BY StateFits, OutcomesAre, LoopsAre DEF Fit, Settable, Now
<1>2. Fits(set) /\ set.loop = loop
    BY <1>1, SettingFits, SettingIsGood
<1>3. Becomes(t) /\ UNCHANGED <<time, drift, lastTrigger>>
    BY DEF SetHbInterval
<1>. HIDE DEF set
<1>4. ASSUME loop["hb"].checked, i > 0
      PROVE  Fits(Start(set, "hb", i))
    <2>1. i \in Chosen \ {0}
        BY <1>4 DEF Chosen
    <2>2. Both(set) /\ Good(set) /\ InStep(set.loop["cq"])
        BY <1>2 DEF Fit, Good, Pressed
    <2>3. OnTime(Start(set, "hb", i), drift, lastTrigger)
        BY <1>1, <1>2, <1>4, <2>1, <2>2, StartIsOnTime
    <2>4. /\ Good(Start(set, "hb", i)) /\ Same(Start(set, "hb", i), set)
          /\ ~Start(set, "hb", i).loop["cq"].active
        BY <1>1, <1>2, <1>4, <2>1, <2>2, StartedIsGood, StartIsGood, LoopsAre
    <2>5. Rested(Start(set, "hb", i))
        BY <1>2, <2>4 DEF Fit, Rested, Same
    <2>. QED
        BY <2>3, <2>4, <2>5 DEF Fit
<1>5. Fits(t)
    BY <1>2, <1>4
<1>. HIDE DEF t
<1>. QED
    BY <1>3, <1>5, InputFits

LEMMA SpeedFits ==
    ASSUME TInv, [Next]_vars, NEW m \in Submodes, NEW d \in Delays,
           \/ SetSubmode(m) \/ SelectSpeed(m) \/ TxDelayChange(d)
           \/ HbModeToggled \/ AutoreplyToggled
    PROVE  TInv'
<1>. DEFINE Fits(t) == Fit(t, drift, lastTrigger)
            now == State("ready")
<1>1. /\ Fits(now) /\ now \in Window /\ Good(now) /\ Both(now) /\ Rested(now)
      /\ now.loop = loop /\ now.submode = m_submode
      /\ Now(drift, lastTrigger) /\ hbMode \in BOOLEAN /\ TInv
      /\ \A l \in Loops : InStep(now.loop[l])
    BY StateFits, OutcomesAre, LoopsAre DEF Fit, Good, Pressed
<1>2. Fits(SetupJS8(now, m)) /\ SetupJS8(now, m).submode = m_submode
    BY <1>1, SetupFits, SetupIsGood
<1>3. CASE SetSubmode(m)
    <2>. DEFINE js8 == SetupJS8(now, m)
                setup == [js8 EXCEPT !.submode = m]
                t == IF m # m_submode THEN Restart(Restart(setup, "hb"), "cq") ELSE setup
    <2>1. Becomes(t)
        BY <1>3 DEF SetSubmode
    <2>2. /\ Both(js8) /\ \A l \in Loops : InStep(js8.loop[l])
        BY <1>2, LoopsAre DEF Fit, Good, Pressed
    <2>3. js8 \in Window /\ Fits(js8) /\ js8.submode = m_submode
        BY <1>2, <2>2 DEF Both
    <2>. HIDE DEF js8
    <2>4. /\ setup \in Window /\ setup.loop = js8.loop /\ setup.submode = m
          /\ setup.delay = js8.delay /\ setup.selected = js8.selected
          /\ setup.paused = js8.paused
        BY <2>3 DEF Window
    <2>. HIDE DEF setup
    <2>5. Both(setup) /\ Rested(setup) /\ \A l \in Loops : InStep(setup.loop[l])
        BY <2>2, <2>3, <2>4 DEF Both, Fit, Rested
    <2>6. m = m_submode => OnTime(setup, drift, lastTrigger)
        BY <2>3, <2>4 DEF Fit, OnTime
    <2>7. /\ OnTime(Restart(Restart(setup, "hb"), "cq"), drift, lastTrigger)
          /\ Rested(Restart(Restart(setup, "hb"), "cq"))
        BY <1>1, <2>5, RestartedFits
    <2>8. OnTime(t, drift, lastTrigger) /\ Rested(t)
        BY <2>5, <2>6, <2>7
    <2>. HIDE DEF t
    <2>9. UNCHANGED <<time, drift, lastTrigger>>
        BY <1>3 DEF SetSubmode
    <2>. QED
        BY <2>1, <2>8, <2>9, FitStep DEF TInv
<1>4. CASE SelectSpeed(m)
    BY <1>2, <1>4, InputFits DEF SelectSpeed
<1>5. CASE TxDelayChange(d)
    <2>. DEFINE set == [now EXCEPT !.delay = d]
                t == Restart(Restart(set, "hb"), "cq")
    <2>1. /\ set \in Window /\ set.loop = now.loop /\ set.selected = now.selected
          /\ set.paused = now.paused
        BY <1>1 DEF Window
    <2>2. Becomes(t) /\ UNCHANGED <<time, drift, lastTrigger>>
        BY <1>5 DEF TxDelayChange
    <2>. HIDE DEF set
    <2>3. Both(set) /\ Rested(set) /\ \A l \in Loops : InStep(set.loop[l])
        BY <1>1, <2>1 DEF Both, Rested
    <2>4. OnTime(t, drift, lastTrigger) /\ Rested(t)
        BY <1>1, <2>3, RestartedFits
    <2>. HIDE DEF t
    <2>. QED
        BY <2>2, <2>4, FitStep DEF TInv
<1>6. CASE HbModeToggled
    <2>. DEFINE enabled == m_nSubMode \in HbSubmodes /\ hbMode'
                t == PrepareHeartbeatMode(now, enabled)
    <2>1. hbMode' \in BOOLEAN
        BY <1>1, <1>6 DEF HbModeToggled
    <2>2. enabled \in BOOLEAN
        BY <2>1
    <2>3. Becomes(t) /\ UNCHANGED <<time, drift, lastTrigger>>
        BY <1>6 DEF HbModeToggled
    <2>. HIDE DEF enabled
    <2>4. Fits(t)
        BY <1>1, <2>2, PreparedIsGood, StoppedIsFit
    <2>. HIDE DEF t
    <2>. QED
        BY <2>3, <2>4, InputFits
<1>7. CASE AutoreplyToggled
    <2>. DEFINE t == Toggled(now)
    <2>1. (m_nSubMode \in HbSubmodes /\ hbMode) \in BOOLEAN
        OBVIOUS
    <2>2. Becomes(t) /\ UNCHANGED <<time, drift, lastTrigger>>
        BY <1>7 DEF AutoreplyToggled
    <2>3. Fits(t)
        BY <1>1, <2>1, PreparedIsGood, StoppedIsFit DEF Toggled
    <2>. HIDE DEF t
    <2>. QED
        BY <2>2, <2>3, InputFits
<1>. QED
    BY <1>3, <1>4, <1>5, <1>6, <1>7

LEMMA SelectionFits ==
    ASSUME TInv, [Next]_vars, NEW o \in UserOutcomes,
           \/ SendCQNow(o) \/ StopTxButton \/ MessageDisplayed \/ PauseChanged
           \/ \E call \in BOOLEAN : SelectionChanged(call, o)
    PROVE  TInv'
<1>. DEFINE Fits(t) == Fit(t, drift, lastTrigger)
<1>1. ASSUME NEW q \in Outcomes
      PROVE  /\ Fits(State(q)) /\ State(q) \in Window /\ Good(State(q)) /\ Pressed(State(q))
             /\ OnTime(State(q), drift, lastTrigger) /\ Rested(State(q))
    BY StateFits DEF Fit, Good
<1>2. /\ Now(drift, lastTrigger) /\ time \in Nat /\ pause \in BOOLEAN
      /\ "hb" \in Loops /\ "cq" \in Loops /\ o \in Outcomes /\ "ready" \in Outcomes
    BY StateFits, LoopsAre, OutcomesAre DEF Now
<1>3. CASE SendCQNow(o)
    <2>1. Fits(SendCQ(State(o), FALSE))
        BY <1>1, <1>2, SendCQIsGood, SendCQFits DEF Fit, Rested
    <2>. QED
        BY <1>3, <2>1, InputFits DEF SendCQNow
<1>4. CASE StopTxButton
    <2>1. Fits(Stop(State("ready")))
        BY <1>1, <1>2, StopStops, StoppedIsFit
    <2>. QED
        BY <1>4, <2>1, InputFits DEF StopTxButton
<1>5. CASE MessageDisplayed
    <2>1. Fits(Cancel(State("ready"), "cq"))
        BY <1>1, <1>2, CancelStops, StoppedIsFit
    <2>. QED
        BY <1>5, <2>1, InputFits DEF MessageDisplayed
<1>6. CASE PauseChanged
    BY <1>1, <1>2, <1>6, InputFits DEF PauseChanged
<1>7. ASSUME NEW call \in BOOLEAN, SelectionChanged(call, o)
      PROVE  TInv'
    <2>1. Fits(SelectCall(State(o)))
        BY <1>1, <1>2, SelectCallFits
    <2>2. Fits(Deselect(State(o)))
        BY <1>1, <1>2, DeselectIsGood, ResumesIsGood, DeselectFits DEF Fit, Rested
    <2>3. Fits(IF call THEN SelectCall(State(o)) ELSE Deselect(State(o)))
        BY <2>1, <2>2
    <2>. QED
        BY <1>7, <2>3, InputFits DEF SelectionChanged
<1>. QED
    BY <1>3, <1>4, <1>5, <1>6, <1>7

LEMMA SetDriftFits ==
    ASSUME TInv, [Next]_vars, NEW d \in Drifts, SetDrift(d)
    PROVE  TInv'
<1>. DEFINE now == State("ready")
            u == OnDriftChange(now, "cq", d)
            t == OnDriftChange(u, "hb", d)
<1>1. /\ Good(now) /\ OnTime(now, drift, lastTrigger) /\ Rested(now)
      /\ Now(drift, lastTrigger) /\ time \in Nat /\ "hb" \in Loops /\ "cq" \in Loops
    BY StateFits, OutcomesAre, LoopsAre DEF Fit, Now
<1>2. Now(d, lastTrigger)
    BY <1>1 DEF Now
<1>3. Becomes(t) /\ UNCHANGED <<time, lastTrigger>> /\ drift' = d
    BY DEF SetDrift
<1>4. Good(u)
    BY <1>1, OnDriftChangeIsGood
<1>5. /\ now.loop["cq"].active => OnTime(u, d, lastTrigger)
      /\ ~now.loop["cq"].active => u = now
      /\ Rested(u)
    BY <1>1, <1>2, OnDriftChangeFits
<1>. HIDE DEF u
<1>6. OnTime(t, d, lastTrigger) /\ Rested(t)
    <2>1. CASE now.loop["cq"].active
        <3>1. OnTime(u, d, lastTrigger)
            BY <1>5, <2>1
        <3>2. /\ u.loop["hb"].active => OnTime(t, d, lastTrigger)
              /\ ~u.loop["hb"].active => t = u
              /\ Rested(t)
            BY <1>1, <1>2, <1>4, <1>5, <3>1, OnDriftChangeFits
        <3>. QED
            BY <3>1, <3>2
    <2>2. CASE ~now.loop["cq"].active
        <3>1. u = now
            BY <1>5, <2>2
        <3>2. /\ u.loop["hb"].active => OnTime(t, d, lastTrigger)
              /\ ~u.loop["hb"].active => t = u
              /\ Rested(t)
            BY <1>1, <1>2, <1>4, <1>5, <3>1, OnDriftChangeFits
        <3>3. ~u.loop["hb"].active => OnTime(u, d, lastTrigger)
            BY <2>2, <3>1, LoopsAre DEF OnTime
        <3>. QED
            BY <3>2, <3>3
    <2>. QED
        BY <2>1, <2>2
<1>. HIDE DEF t
<1>. QED
    BY <1>3, <1>6, FitStep DEF TInv

LEMMA WatchdogFits ==
    ASSUME TInv, [Next]_vars, Watchdog
    PROVE  TInv'
<1>1. /\ Fit(State("ready"), drift, lastTrigger) /\ State("ready") \in Window
      /\ Both(State("ready"))
    BY StateFits, OutcomesAre DEF Fit, Good, Pressed
<1>2. Fit(TxWatchdog(State("ready")), drift, lastTrigger)
    BY <1>1, TxWatchdogStops, StoppedIsFit
<1>. QED
    BY <1>2, InputFits DEF Watchdog

LEMMA BoxClosedFits ==
    ASSUME TInv, [Next]_vars, NEW o \in UserOutcomes, NEW wasAuto \in BOOLEAN,
           BoxClosed(o, wasAuto)
    PROVE  TInv'
<1>. DEFINE Fits(t) == Fit(t, drift, lastTrigger)
            box == boxes[Len(boxes)]
            rest == SubSeq(boxes, 1, Len(boxes) - 1)
            closed == [State(o) EXCEPT !.boxes = rest]
            auto == IF wasAuto THEN Toggled(closed) ELSE closed
<1>1. /\ Fits(State(o)) /\ Good(State(o)) /\ State(o).outcome = o /\ o # "idle"
      /\ Now(drift, lastTrigger) /\ "hb" \in Loops /\ "cq" \in Loops
      /\ time \in Nat /\ pause \in BOOLEAN
    BY StateFits, OutcomesAre, LoopsAre DEF Fit, Now
<1>2. box \in Box /\ rest \in Seq(Box)
    BY ClosedBox DEF BoxClosed, TInv
<1>3. /\ Becomes(SetChecked(SetChecked(auto, "hb", box.hb), "cq", box.cq))
      /\ UNCHANGED <<time, drift, lastTrigger>>
    BY DEF BoxClosed
<1>. HIDE DEF box, rest
<1>4. /\ Stops(auto, closed) /\ Good(closed) /\ closed \in Window
      /\ Same(closed, State(o)) /\ closed.loop = State(o).loop
    BY <1>1, <1>2, ClosedIs
<1>. HIDE DEF closed, auto
<1>5. Fits(closed)
    BY <1>1, <1>4 DEF Fit, OnTime, Rested, Same, SameSettings
<1>6. Fits(auto) /\ auto.outcome = o
    BY <1>1, <1>4, <1>5, StoppedIsFit DEF Stops, Same, SameSettings
<1>7. box.hb \in BOOLEAN /\ box.cq \in BOOLEAN
    BY <1>2 DEF Box
<1>8. Fits(SetChecked(auto, "hb", box.hb))
    BY <1>1, <1>6, <1>7, SetCheckedFits, LoopsAre
<1>9. SetChecked(auto, "hb", box.hb).outcome = o
    BY <1>1, <1>6, <1>7, SetCheckedIsGood, LoopsAre DEF Fit, SameSettings
<1>10. Fits(SetChecked(SetChecked(auto, "hb", box.hb), "cq", box.cq))
    BY <1>1, <1>7, <1>8, <1>9, SetCheckedFits
<1>. QED
    BY <1>3, <1>10, InputFits

LEMMA StepFits ==
    ASSUME TInv, [Next]_vars
    PROVE  TInv'
<1>1. CASE UNCHANGED vars
    <2>1. State("ready")' = State("ready")
        BY <1>1 DEF vars, State
    <2>2. IInv'
        BY StepIsGood DEF TInv
    <2>. QED
        BY <1>1, <2>1, <2>2 DEF vars, TInv, OnTime, Due, Fires, Near, Apart
<1>2. CASE Tick
    BY <1>2, TickFits
<1>3. CASE \E l \in Loops, o \in Outcomes : OnTimer(l, o)
    BY <1>3, OnTimerFits
<1>4. CASE \/ \E l \in Loops, o \in UserOutcomes : MacroButtonToggled(l, o)
           \/ \E l \in Loops, i \in Intervals, o \in UserOutcomes : RepeatMenu(l, i, o)
    BY <1>4, ToggleFits, RepeatFits
<1>5. CASE \/ \E i \in ApiIntervals : SetHbInterval(i)
           \/ \E start \in BOOLEAN, o \in Outcomes : SetHbTimer(start, o)
    BY <1>5, HbTimerFits, HbIntervalFits
<1>6. CASE \/ StopTxButton \/ MessageDisplayed \/ PauseChanged
           \/ \E o \in UserOutcomes : SendCQNow(o)
           \/ \E call \in BOOLEAN, o \in UserOutcomes : SelectionChanged(call, o)
    <2>1. "ready" \in UserOutcomes
        BY DEF UserOutcomes
    <2>. QED
        BY <1>6, <2>1, SelectionFits
<1>7. CASE \/ \E m \in Submodes : SetSubmode(m) \/ SelectSpeed(m)
           \/ \E d \in Delays : TxDelayChange(d)
           \/ HbModeToggled \/ AutoreplyToggled
    <2>1. m_nSubMode \in Submodes /\ m_tx_delay \in Delays
        BY DEF TInv, IInv, TypeOK
    <2>. QED
        BY <1>7, <2>1, SpeedFits
<1>8. CASE \E d \in Drifts : SetDrift(d)
    BY <1>8, SetDriftFits
<1>9. CASE \/ Watchdog
           \/ \E o \in UserOutcomes, wasAuto \in BOOLEAN : BoxClosed(o, wasAuto)
    BY <1>9, WatchdogFits, BoxClosedFits
<1>10. CASE Done
    BY <1>1, <1>10 DEF Done
<1>. QED
    BY <1>1, <1>2, <1>3, <1>4, <1>5, <1>6, <1>7, <1>8, <1>9, <1>10 DEF Next

LEMMA InitFits ==
    ASSUME Init
    PROVE  TInv
<1>. DEFINE now == State("ready")
<1>1. IInv
    BY InitIsGood
<1>2. \A l \in Loops : loop[l].active = FALSE
    BY DEF Init
<1>3. now.loop = loop /\ now.paused = FALSE
    BY DEF Init, State
<1>4. OnTime(now, drift, lastTrigger) /\ Rested(now)
    BY <1>2, <1>3 DEF OnTime, Rested
<1>5. lastTrigger =< time
    BY DEF Init, Unset
<1>. QED
    BY <1>1, <1>4, <1>5 DEF TInv

(* The invariant holds in every reachable state.                           *)
LEMMA TimesInductive == Spec => []TInv
<1>1. Init => TInv
    BY InitFits
<1>2. TInv /\ [Next]_vars => TInv'
    BY StepFits
<1>. QED
    BY <1>1, <1>2, PTL DEF Spec

-----------------------------------------------------------------------------
(* An active loop with a period is nearer to its next transmission than    *)
(* that and the slot it waits for, while the clock is less than a slot     *)
(* behind: a clock that is further behind is a run's counterexample.       *)
THEOREM NextIsNearCorrect ==
    ASSUME DriftsAreNear
    PROVE  Spec => []NextIsNear
<1>1. TInv => NextIsNear
    <2>1. ASSUME TInv, NEW l \in Loops, loop[l].active, loop[l].period > 0
          PROVE  loop[l].timer - time < loop[l].period + Period[m_submode]
        <3>1. Due(loop[l], m_submode, m_tx_delay, drift, lastTrigger)
            BY <2>1, StateFits, OutcomesAre DEF Fit, OnTime
        <3>. QED
            BY <3>1, DriftsAreNear DEF Due, Near
    <2>. QED
        BY <2>1 DEF NextIsNear
<1>. QED
    BY <1>1, TimesInductive, PTL

(* The loop that triggers a transmission goes on unless it was refused,    *)
(* with the next one ahead: a paused heartbeat, which the CQ's deselection *)
(* would start, is never there while a CQ loop runs.  A refusal leaves no  *)
(* loop active and no button checked.                                      *)
THEOREM TriggerCorrect ==
    ASSUME NoDriftIsAnInterval
    PROVE  Spec => TriggerKeepsItsLoop
<1>1. ASSUME TInv, NEW l \in Loops, NEW outcome \in Outcomes, OnTimer(l, outcome)
      PROVE  IF outcome = "ready"
             THEN loop'[l].active /\ (loop[l].period > 0 => loop'[l].timer > time)
             ELSE \A k \in Loops : ~loop'[k].active /\ ~loop'[k].checked
    <2>1. CASE outcome = "ready"
        <3>1. loop'[l] = Planned(l)
            BY <1>1, <2>1, OnTimerFits
        <3>2. Planned(l).active
            BY <1>1, PlannedIsActive DEF TInv
        <3>3. loop[l].period > 0 => Planned(l).timer > time
            BY <1>1, PlannedIsDue, NoDriftIsAnInterval
        <3>. QED
            BY <2>1, <3>1, <3>2, <3>3
    <2>2. CASE outcome # "ready"
        <3>1. TInv' /\ \A k \in Loops : ~loop'[k].active
            BY <1>1, <2>2, OnTimerFits
        <3>. QED
            BY <2>2, <3>1 DEF TInv, IInv, Running
    <2>. QED
        BY <2>1, <2>2
<1>2. TInv /\ [Next]_vars
        => [\A l \in Loops, outcome \in Outcomes : OnTimer(l, outcome) =>
                IF outcome = "ready"
                THEN loop'[l].active /\ (loop[l].period > 0 => loop'[l].timer > time)
                ELSE \A k \in Loops : ~loop'[k].active /\ ~loop'[k].checked]_vars
    BY <1>1
<1>. QED
    BY <1>2, TimesInductive, PTL DEF Spec, TriggerKeepsItsLoop

(* Two transmissions, of either loop and whatever starts, stops and moves  *)
(* them in between, are the shortest interval apart, but for the delay, a  *)
(* late timer and what the drift has moved the clock, if the loop of the   *)
(* second has a period.                                                    *)
THEOREM SpacedCorrect ==
    ASSUME DriftsAreBounded
    PROVE  Spec => TransmissionsAreSpaced
<1>1. ASSUME TInv, NEW l \in Loops, NEW outcome \in Outcomes, OnTimer(l, outcome),
             loop[l].period > 0, lastTrigger # Unset
      PROVE  time - lastTrigger >= Gap
    <2>1. loop[l].timer =< time
        BY <1>1 DEF OnTimer
    <2>2. /\ loop[l].active /\ loop[l] \in Loop /\ drift \in Drifts /\ m_tx_delay \in Delays
          /\ m_submode \in Submodes /\ loop[l].period \in Periods
          /\ lastTrigger \in Nat /\ time \in Nat
        BY <1>1, BoundsAre DEF TInv, IInv, TypeOK, Running, OnTimer
    <2>3. /\ loop[l].next \in Int /\ loop[l].timer \in Int /\ m_tx_delay \in Nat
          /\ drift \in Int /\ 0 \in Drifts
        BY <2>2, BoundsAre DEF Loop
    <2>4. Gap \in Int
        BY <2>2, GapIs, DriftsAreBounded
    <2>5. Due(loop[l], m_submode, m_tx_delay, drift, lastTrigger)
        BY <1>1, <2>2, StateFits DEF Fit, OnTime
    <2>6. /\ loop[l].next - m_tx_delay - drift >= lastTrigger + Gap
          /\ loop[l].next - m_tx_delay - 0 >= lastTrigger + Gap
        BY <1>1, <2>2, <2>3, <2>5, DriftsAreBounded DEF Due, Apart
    <2>7. \/ loop[l].timer = loop[l].next - m_tx_delay
          \/ loop[l].timer = loop[l].next - m_tx_delay - drift
        BY <2>5 DEF Due, Fires
    <2>. QED
        BY <2>1, <2>2, <2>3, <2>4, <2>6, <2>7
<1>2. TInv /\ [Next]_vars
        => [\A l \in Loops, outcome \in Outcomes :
              loop[l].period > 0 /\ lastTrigger # Unset /\ OnTimer(l, outcome) =>
                time - lastTrigger >=
                  ShortestInterval - Spread(Delays \cup {0}) - MaxLate - Spread(Drifts)]_vars
    BY <1>1 DEF Gap
<1>. QED
    BY <1>2, TimesInductive, PTL DEF Spec, TransmissionsAreSpaced
=============================================================================
