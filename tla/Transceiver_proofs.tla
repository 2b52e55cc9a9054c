------------------------- MODULE Transceiver_proofs -------------------------
(* Proofs about the control of the radio, for all frequencies, all ways to *)
(* split and every bound: type correctness; and, for radios that can be    *)
(* released, that an object that is offline has released the PTT and that  *)
(* the PTT obeys the commands of the GUI thread, whichever access to the   *)
(* radio fails in whichever handler.                                       *)
EXTENDS Transceiver, SequenceTheorems, TLAPS

-----------------------------------------------------------------------------
(* The rig thread: the record of a handler at work.                        *)
Handlings == [rig : Rig, radio : Radio, out : Seq(Signal), left : Nat, threw : BOOLEAN]

(* The PTT that the object believes in is that of the radio.               *)
Knows(s) == s.rig.actual.ptt = s.radio.ptt

(* What an operator on s leaves alone that sets a part of the state.       *)
Continues(t, s) ==
    /\ t \in Handlings
    /\ s.threw => t.threw
    /\ t.rig.requested.online = s.rig.requested.online
    /\ t.rig.polling = s.rig.polling
    /\ t.rig.failed = s.rig.failed
    /\ t.out = s.out

(* And one that does not touch the PTT.                                    *)
PttIsKept(t, s) ==
    /\ t.radio.ptt = s.radio.ptt
    /\ t.rig.actual.ptt = s.rig.actual.ptt
    /\ t.rig.requested.ptt = s.rig.requested.ptt

(* Nor its tuning.                                                         *)
TuningIsKept(t, s) ==
    /\ t.radio.freq = s.radio.freq
    /\ t.radio.tx = s.radio.tx
    /\ t.radio.split = s.radio.split

(* The dial frequency it has asked for is the one that it believes in.     *)
Dialled(r) == r.requested.freq = r.actual.freq

(* What the radio d becomes that transmits as is wanted, if it was c.      *)
KeysOn(d, c, want) ==
    IF want.tx # 0 THEN d.split /\ d.tx = want.tx
    ELSE d.freq = want.freq /\ (d.split => c.split)

SameObject(q, r) ==
    q.requested = r.requested /\ q.polling = r.polling /\ q.failed = r.failed

(* What decides which update is emitted, and what it says beside the state. *)
SameNews(q, r) ==
    /\ q.next = r.next /\ q.retries = r.retries /\ q.signalled = r.signalled
    /\ q.newest = r.newest /\ q.wanted = r.wanted

(* A failure is among the signals.                                         *)
HasFailure(q) == \E i \in DOMAIN q : q[i].what = "failure"

(* What the object believes of the split agrees with the radio; in emulated *)
(* split it has never asked for one.                                       *)
SplitAgrees(r, d) ==
    IF splitMode = "emulate" THEN r.requested.tx = 0
    ELSE r.actual.split = SplitIs(d.split) /\ (d.split <=> r.actual.tx # 0)

(* An object that waits for nothing has what it expects, and has said so.  *)
Steady(r, d) ==
    /\ r.retries = 0 => r.actual = r.next /\ r.next = r.signalled
    /\ SplitAgrees(r, d)

Calm(s) == ~s.threw => Steady(s.rig, s.radio)

(* And one that has not been started has asked and expects nothing.        *)
Blank(r) == ~r.next.online /\ r.actual.tx = 0 /\ r.requested.tx = 0

LEMMA UnknownState == Unknown \in State
BY DEF Unknown, State

LEMMA NewRigTyped == NewRig \in Rig
BY UnknownState, ParameterAssumption DEF NewRig, Rig

-----------------------------------------------------------------------------
(* The accesses to the radio.                                              *)

(* u comes of an access in s that changes the object to r, and the radio   *)
(* to d, unless it throws.                                                 *)
Leads(u, s, r, d) ==
    /\ u \in Handlings
    /\ s.threw => u.threw
    /\ IF u.threw THEN u.rig = s.rig /\ u.radio = s.radio
                  ELSE SameObject(u.rig, r) /\ u.rig.actual = r.actual /\ u.radio = d
    /\ u.out = s.out
    /\ ~s.threw /\ s.left # 0 => ~u.threw /\ u.left = s.left - 1

LEMMA AccessIs ==
    ASSUME NEW s \in Handlings, NEW r \in Rig, NEW d \in Radio
    PROVE  LET u == Access(s, [s EXCEPT !.rig = r, !.radio = d]) IN
           Leads(u, s, r, d) /\ (~u.threw => u.rig = r)
<1>. DEFINE u == Access(s, [s EXCEPT !.rig = r, !.radio = d])
<1>1. CASE s.threw
    BY <1>1 DEF Access, Leads
<1>2. CASE ~s.threw /\ s.left = 0
    <2>1. u = [s EXCEPT !.threw = TRUE]
        BY <1>2 DEF Access
    <2>. HIDE DEF u
    <2>2. /\ u \in Handlings /\ u.threw /\ u.rig = s.rig /\ u.radio = s.radio
          /\ u.out = s.out
        BY <2>1 DEF Handlings
    <2>. QED
        BY <1>2, <2>2 DEF u, Leads
<1>3. CASE ~s.threw /\ s.left # 0
    <2>1. u = [s EXCEPT !.rig = r, !.radio = d, !.left = s.left - 1]
        BY <1>3 DEF Access, Handlings
    <2>2. s.left - 1 \in Nat /\ s.threw = FALSE
        BY <1>3 DEF Handlings
    <2>. HIDE DEF u
    <2>3. /\ u \in Handlings /\ ~u.threw /\ u.rig = r /\ u.radio = d
          /\ u.out = s.out /\ u.left = s.left - 1
        BY <2>1, <2>2 DEF Handlings
    <2>. QED
        BY <1>3, <2>3 DEF u, Leads, SameObject
<1>. QED
    BY <1>1, <1>2, <1>3

(* One that is expected to show in later polls.                            *)
LEMMA ExpectedAccessIs ==
    ASSUME NEW s \in Handlings, NEW r \in Rig, NEW d \in Radio
    PROVE  Leads(Access(s, Expect(s, [s EXCEPT !.rig = r, !.radio = d])), s, r, d)
<1>. DEFINE e == IF s.rig.next = r.next THEN r ELSE [r EXCEPT !.retries = PollsToStabilize]
            u == Access(s, Expect(s, [s EXCEPT !.rig = r, !.radio = d]))
<1>1. e \in Rig /\ SameObject(e, r) /\ e.actual = r.actual
    BY ParameterAssumption DEF Rig, SameObject
<1>2. Expect(s, [s EXCEPT !.rig = r, !.radio = d]) = [s EXCEPT !.rig = e, !.radio = d]
    BY DEF Expect, Handlings
<1>. HIDE DEF e
<1>3. Leads(Access(s, [s EXCEPT !.rig = e, !.radio = d]), s, e, d)
    BY <1>1, AccessIs
<1>4. Leads(u, s, e, d)
    BY <1>2, <1>3, Zenon
<1>. HIDE DEF u
<1>5. Leads(u, s, r, d)
    BY <1>1, <1>4 DEF Leads, SameObject
<1>. QED
    BY <1>5 DEF u

LEMMA ExpectedAccessIsCalm ==
    ASSUME NEW s \in Handlings, NEW r \in Rig, NEW d \in Radio,
           ~s.threw => SplitAgrees(r, d),
           ~s.threw /\ r.next = s.rig.next => Steady(r, d)
    PROVE  Calm(Access(s, Expect(s, [s EXCEPT !.rig = r, !.radio = d])))
<1>. DEFINE e == IF s.rig.next = r.next THEN r ELSE [r EXCEPT !.retries = PollsToStabilize]
            u == Access(s, [s EXCEPT !.rig = e, !.radio = d])
<1>1. /\ e \in Rig
      /\ s.rig.next = r.next => e = r
      /\ s.rig.next # r.next => e.retries # 0 /\ SameObject(e, r) /\ e.actual = r.actual
    BY ParameterAssumption DEF Rig, SameObject
<1>2. Expect(s, [s EXCEPT !.rig = r, !.radio = d]) = [s EXCEPT !.rig = e, !.radio = d]
    BY DEF Expect, Handlings
<1>. HIDE DEF e
<1>3. Leads(u, s, e, d) /\ (~u.threw => u.rig = e)
    BY <1>1, AccessIs
<1>. HIDE DEF u
<1>4. ~s.threw => Steady(e, d)
    BY <1>1 DEF Steady, SplitAgrees, SameObject
<1>5. Calm(u)
    BY <1>3, <1>4 DEF Leads, Calm
<1>. QED
    BY <1>2, <1>5, Zenon DEF u

(* do_ptt sets the PTT, unless it throws.                                  *)
LEMMA PttSets ==
    ASSUME NEW s \in Handlings, NEW b \in BOOLEAN
    PROVE  LET t == Ptt(s, b) IN
           /\ Continues(t, s)
           /\ t.rig.requested = s.rig.requested
           /\ IF t.threw THEN PttIsKept(t, s) ELSE t.radio.ptt = b /\ t.rig.actual.ptt = b
           /\ ~s.threw /\ s.left # 0 => ~t.threw /\ t.left = s.left - 1
           /\ Calm(s) => Calm(t)
           /\ TuningIsKept(t, s) /\ t.rig.actual.freq = s.rig.actual.freq
<1>. DEFINE t == Ptt(s, b)
            a == [s.rig.actual EXCEPT !.ptt = b]
            n == [s.rig.next EXCEPT !.ptt = b]
            r == [s.rig EXCEPT !.actual = a, !.next = n]
            d == [s.radio EXCEPT !.ptt = b]
<1>1. s.rig \in Rig /\ s.radio \in Radio
    BY DEF Handlings
<1>2. s.rig.actual \in State /\ s.rig.next \in State
    BY <1>1 DEF Rig
<1>3. /\ a \in State /\ a.ptt = b /\ n \in State
      /\ a.split = s.rig.actual.split /\ a.tx = s.rig.actual.tx
      /\ a.freq = s.rig.actual.freq
      /\ s.rig.actual = s.rig.next => a = n
    BY <1>2 DEF State
<1>4. /\ d \in Radio /\ d.ptt = b /\ d.split = s.radio.split
      /\ d.freq = s.radio.freq /\ d.tx = s.radio.tx
    BY <1>1 DEF Radio
<1>5. [s EXCEPT !.radio.ptt = b, !.rig.actual.ptt = b, !.rig.next.ptt = b]
        = [s EXCEPT !.rig = r, !.radio = d]
    BY <1>1 DEF Handlings, Rig
<1>. HIDE DEF a, n
<1>6. /\ r \in Rig /\ r.actual = a /\ SameObject(r, s.rig)
      /\ r.next = n /\ r.retries = s.rig.retries /\ r.signalled = s.rig.signalled
    BY <1>1, <1>3 DEF Rig, SameObject
<1>. HIDE DEF r, d
<1>7. t = Access(s, Expect(s, [s EXCEPT !.rig = r, !.radio = d]))
    BY <1>5, Zenon DEF Ptt
<1>. HIDE DEF t
<1>8. Leads(t, s, r, d)
    BY <1>4, <1>6, <1>7, ExpectedAccessIs
<1>9. ASSUME Calm(s) PROVE Calm(t)
    <2>1. /\ ~s.threw => SplitAgrees(r, d)
          /\ ~s.threw /\ r.next = s.rig.next => Steady(r, d)
        BY <1>3, <1>4, <1>6, <1>9 DEF Calm, Steady, SplitAgrees, SameObject
    <2>. QED
        BY <1>4, <1>6, <1>7, <2>1, ExpectedAccessIsCalm
<1>. QED
    BY <1>1, <1>3, <1>4, <1>6, <1>8, <1>9 DEF Leads, Continues, PttIsKept, TuningIsKept, SameObject, t

(* do_frequency and do_tx_frequency do not touch it.                       *)
LEMMA LeadsWithoutPtt ==
    ASSUME NEW s \in Handlings, NEW r \in Rig, NEW d \in Radio, NEW t,
           Leads(t, s, r, d), SameObject(r, s.rig),
           r.actual.ptt = s.rig.actual.ptt, d.ptt = s.radio.ptt
    PROVE  /\ Continues(t, s) /\ PttIsKept(t, s)
           /\ t.rig.requested = s.rig.requested
           /\ ~s.threw /\ s.left # 0 => ~t.threw
BY DEF Leads, Continues, PttIsKept, SameObject

LEMMA FrequencyKeepsPtt ==
    ASSUME NEW s \in Handlings, NEW f \in Int
    PROVE  LET t == Frequency(s, f) IN
           /\ Continues(t, s) /\ PttIsKept(t, s)
           /\ t.rig.requested = s.rig.requested
           /\ Calm(s) => Calm(t)
           /\ t.radio.split = s.radio.split
           /\ IF t.threw THEN t.rig = s.rig
                         ELSE t.rig.actual.freq = f /\ t.radio.freq = f
<1>. DEFINE t == Frequency(s, f)
            a == [s.rig.actual EXCEPT !.freq = f]
            n == [s.rig.next EXCEPT !.freq = f]
            r == [s.rig EXCEPT !.actual = a, !.next = n]
            d == [s.radio EXCEPT !.freq = f]
<1>1. s.rig \in Rig /\ s.radio \in Radio
    BY DEF Handlings
<1>2. s.rig.actual \in State /\ s.rig.next \in State
    BY <1>1 DEF Rig
<1>3. /\ a \in State /\ a.ptt = s.rig.actual.ptt /\ n \in State
      /\ a.split = s.rig.actual.split /\ a.tx = s.rig.actual.tx
      /\ a.freq = f
      /\ s.rig.actual = s.rig.next => a = n
    BY <1>2 DEF State
<1>4. /\ d \in Radio /\ d.ptt = s.radio.ptt /\ d.split = s.radio.split
      /\ d.freq = f
    BY <1>1 DEF Radio
<1>5. [s EXCEPT !.radio.freq = f, !.rig.actual.freq = f, !.rig.next.freq = f]
        = [s EXCEPT !.rig = r, !.radio = d]
    BY <1>1 DEF Handlings, Rig
<1>. HIDE DEF a, n
<1>6. /\ r \in Rig /\ r.actual = a /\ SameObject(r, s.rig)
      /\ r.next = n /\ r.retries = s.rig.retries /\ r.signalled = s.rig.signalled
    BY <1>1, <1>3 DEF Rig, SameObject
<1>. HIDE DEF r, d
<1>7. t = Access(s, Expect(s, [s EXCEPT !.rig = r, !.radio = d]))
    BY <1>5, Zenon DEF Frequency
<1>. HIDE DEF t
<1>8. Leads(t, s, r, d)
    BY <1>4, <1>6, <1>7, ExpectedAccessIs
<1>9. ASSUME Calm(s) PROVE Calm(t)
    <2>1. /\ ~s.threw => SplitAgrees(r, d)
          /\ ~s.threw /\ r.next = s.rig.next => Steady(r, d)
        BY <1>3, <1>4, <1>6, <1>9 DEF Calm, Steady, SplitAgrees, SameObject
    <2>. QED
        BY <1>4, <1>6, <1>7, <2>1, ExpectedAccessIsCalm
<1>. QED
    BY <1>3, <1>4, <1>6, <1>8, <1>9, LeadsWithoutPtt DEF t, Leads

LEMMA TxFrequencyKeepsPtt ==
    ASSUME NEW s \in Handlings, NEW f \in Int
    PROVE  LET t == TxFrequency(s, f) IN
           /\ Continues(t, s) /\ PttIsKept(t, s)
           /\ t.rig.requested = s.rig.requested
           /\ ~s.threw /\ s.left # 0 => ~t.threw
           /\ splitMode # "emulate" /\ Calm(s) => Calm(t)
           /\ t.rig.actual.freq = s.rig.actual.freq /\ t.radio.freq = s.radio.freq
           /\ ~t.threw => (t.radio.split <=> f # 0) /\ (f # 0 => t.radio.tx = f)
<1>. DEFINE t == TxFrequency(s, f)
            d == IF f = 0 THEN [s.radio EXCEPT !.split = FALSE]
                          ELSE [s.radio EXCEPT !.split = TRUE, !.tx = f]
            a == [s.rig.actual EXCEPT !.tx = f, !.split = SplitIs(f # 0)]
            n == [s.rig.next EXCEPT !.tx = f, !.split = SplitIs(f # 0)]
            q == [s.rig EXCEPT !.actual = a]
            r == [s.rig EXCEPT !.actual = a, !.next = n]
            v == IF f = 0 THEN [s EXCEPT !.radio.split = FALSE]
                          ELSE [s EXCEPT !.radio.split = TRUE, !.radio.tx = f]
            u == [v EXCEPT !.rig.actual.tx = f, !.rig.actual.split = SplitIs(f # 0)]
            w == [u EXCEPT !.rig.next.tx = f, !.rig.next.split = SplitIs(f # 0)]
<1>1. s.rig \in Rig /\ s.radio \in Radio
    BY DEF Handlings
<1>2. s.rig.actual \in State /\ s.rig.next \in State
    BY <1>1 DEF Rig
<1>3. /\ a \in State /\ a.ptt = s.rig.actual.ptt /\ n \in State
      /\ a.split = SplitIs(f # 0) /\ a.tx = f /\ a.freq = s.rig.actual.freq
      /\ s.rig.actual = s.rig.next => a = n
      /\ s.rig.next.tx = f /\ s.rig.next.split = SplitIs(f # 0) => n = s.rig.next
    BY <1>2 DEF State, SplitIs
<1>4. /\ d \in Radio /\ d.ptt = s.radio.ptt /\ (d.split <=> f # 0)
      /\ d.freq = s.radio.freq /\ (f # 0 => d.tx = f)
    BY <1>1 DEF Radio
<1>5. v = [s EXCEPT !.radio = d]
    BY <1>1 DEF Handlings
<1>. HIDE DEF v, d
<1>6. u = [s EXCEPT !.rig = q, !.radio = d]
    BY <1>1, <1>5 DEF Handlings, Rig
<1>. HIDE DEF u
<1>7. w = [s EXCEPT !.rig = r, !.radio = d]
    <2>1. u.rig = q /\ q.next = s.rig.next /\ [q EXCEPT !.next = n] = r
        BY <1>1, <1>6 DEF Handlings, Rig
    <2>. HIDE DEF q, r
    <2>2. w = [u EXCEPT !.rig = r]
        BY <2>1
    <2>. HIDE DEF w
    <2>. QED
        BY <1>6, <2>2 DEF Handlings
<1>. HIDE DEF a, n, w
<1>8. /\ r \in Rig /\ r.actual = a /\ SameObject(r, s.rig)
      /\ r.next = n /\ r.retries = s.rig.retries /\ r.signalled = s.rig.signalled
      /\ q \in Rig /\ q.actual = a /\ SameObject(q, s.rig)
      /\ q.next = s.rig.next /\ q.retries = s.rig.retries /\ q.signalled = s.rig.signalled
    BY <1>1, <1>3 DEF Rig, SameObject
<1>9. t = Access(s, IF s.rig.next.tx = f THEN u ELSE Expect(s, w))
    BY Zenon DEF TxFrequency, u, v, w
<1>. HIDE DEF q, r, t
<1>10. CASE s.rig.next.tx = f
    <2>1. t = Access(s, [s EXCEPT !.rig = q, !.radio = d])
        BY <1>6, <1>9, <1>10, Zenon
    <2>2. Leads(t, s, q, d) /\ (~t.threw => t.rig = q)
        BY <1>4, <1>8, <2>1, AccessIs
    <2>3. ASSUME splitMode # "emulate", Calm(s) PROVE Calm(t)
        <3>1. ~s.threw => SplitAgrees(q, d)
            BY <1>3, <1>4, <1>8, <2>3 DEF SplitAgrees, SplitIs
        <3>2. ASSUME ~s.threw, q.retries = 0
              PROVE  q.actual = q.next /\ q.next = q.signalled
            <4>1. /\ s.rig.actual = s.rig.next /\ s.rig.next = s.rig.signalled
                  /\ s.rig.actual.split = SplitIs(s.radio.split)
                  /\ s.radio.split <=> s.rig.actual.tx # 0
                BY <1>8, <2>3, <3>2 DEF Calm, Steady, SplitAgrees
            <4>2. s.rig.next.split = SplitIs(f # 0)
                BY <1>10, <4>1 DEF SplitIs
            <4>. QED
                BY <1>3, <1>8, <1>10, <4>1, <4>2
        <3>. QED
            BY <2>2, <3>1, <3>2 DEF Calm, Steady, Leads
    <2>. QED
        BY <1>3, <1>4, <1>8, <2>2, <2>3, LeadsWithoutPtt DEF t, Leads
<1>11. CASE s.rig.next.tx # f
    <2>1. t = Access(s, Expect(s, [s EXCEPT !.rig = r, !.radio = d]))
        BY <1>7, <1>9, <1>11, Zenon
    <2>2. Leads(t, s, r, d)
        BY <1>4, <1>8, <2>1, ExpectedAccessIs
    <2>3. ASSUME splitMode # "emulate", Calm(s) PROVE Calm(t)
        <3>1. /\ ~s.threw => SplitAgrees(r, d)
              /\ ~s.threw /\ r.next = s.rig.next => Steady(r, d)
            BY <1>3, <1>4, <1>8, <2>3 DEF Calm, Steady, SplitAgrees, SplitIs
        <3>. QED
            BY <1>4, <1>8, <2>1, <3>1, ExpectedAccessIsCalm
    <2>. QED
        BY <1>3, <1>4, <1>8, <2>2, <2>3, LeadsWithoutPtt DEF t, Leads
<1>. QED
    BY <1>10, <1>11

LEMMA BandaidKeepsPtt ==
    ASSUME NEW s \in Handlings, NEW want \in State
    PROVE  LET t == Bandaid(s, want) IN
           /\ Continues(t, s) /\ PttIsKept(t, s)
           /\ t.rig.requested = s.rig.requested
           /\ Calm(s) => Calm(t)
           /\ t.rig.actual = s.rig.actual
           /\ t.radio.split = s.radio.split
           /\ want.tx = 0 /\ want.freq # 0 => t.radio = s.radio
<1>. DEFINE d == [s.radio EXCEPT !.freq = want.freq + 1]
            t == Access(s, [s EXCEPT !.rig = s.rig, !.radio = d])
<1>1. s.rig \in Rig /\ s.radio \in Radio /\ want.freq + 1 \in Int
    BY DEF Handlings, State
<1>2. d \in Radio /\ d.ptt = s.radio.ptt /\ d.split = s.radio.split
    BY <1>1 DEF Radio
<1>3. [s EXCEPT !.radio.freq = want.freq + 1] = [s EXCEPT !.rig = s.rig, !.radio = d]
    BY DEF Handlings
<1>. HIDE DEF d
<1>4. \/ Bandaid(s, want) = s
      \/ Bandaid(s, want) = t /\ want.freq = want.tx
    BY <1>3 DEF Bandaid
<1>5. Leads(t, s, s.rig, d) /\ (~t.threw => t.rig = s.rig)
    BY <1>1, <1>2, AccessIs
<1>8. t.rig.actual = s.rig.actual /\ t.radio.split = s.radio.split
    BY <1>2, <1>5 DEF Leads
<1>. HIDE DEF t
<1>6. /\ Continues(t, s) /\ PttIsKept(t, s)
      /\ t.rig.requested = s.rig.requested
    BY <1>1, <1>2, <1>5, LeadsWithoutPtt DEF SameObject
<1>7. Calm(s) => Calm(t)
    BY <1>2, <1>5 DEF Leads, Calm, Steady, SplitAgrees
<1>. QED
    BY <1>4, <1>6, <1>7, <1>8 DEF Continues, PttIsKept

(* A poll reads the radio's PTT, unless it throws.                         *)
(* and what the object knows of the split then agrees with it.             *)
LEMMA ReadKnows ==
    ASSUME NEW s \in Handlings
    PROVE  LET t == Read(s) IN
           /\ ~t.threw => SameNews(t.rig, s.rig) /\ t.rig.last = s.rig.last
           /\ ~t.threw /\ (SplitAgrees(s.rig, s.radio) \/ Blank(s.rig)) =>
                SplitAgrees(t.rig, t.radio)
           /\ Continues(t, s)
           /\ t.radio = s.radio
           /\ t.rig.requested.ptt = s.rig.requested.ptt
           /\ IF t.threw THEN t.rig = s.rig ELSE Knows(t)
           /\ Dialled(s.rig) => Dialled(t.rig)
           /\ ~t.threw /\ ~s.rig.actual.ptt => t.rig.requested.freq = s.radio.freq
<1>. DEFINE t == Read(s)
            split == s.rig.actual.ptt /\ s.radio.split
            f == IF split THEN s.rig.actual.freq ELSE s.radio.freq
            a == [s.rig.actual EXCEPT !.freq = f, !.split = SplitIs(s.radio.split),
                                      !.ptt = s.radio.ptt,
                                      !.tx = IF s.radio.split THEN s.radio.tx ELSE @]
            q == [s.rig.requested EXCEPT !.freq = IF split THEN @ ELSE s.radio.freq]
            r == [s.rig EXCEPT !.actual = a, !.requested = q]
<1>1. s.rig \in Rig /\ s.radio \in Radio
    BY DEF Handlings
<1>2. s.rig.actual \in State /\ s.rig.requested \in State
    BY <1>1 DEF Rig
<1>3. /\ a \in State /\ a.ptt = s.radio.ptt
      /\ q \in State /\ q.ptt = s.rig.requested.ptt /\ q.online = s.rig.requested.online
      /\ q.tx = s.rig.requested.tx
      /\ a.freq = IF split THEN s.rig.actual.freq ELSE s.radio.freq
      /\ q.freq = IF split THEN s.rig.requested.freq ELSE s.radio.freq
      /\ a.split = SplitIs(s.radio.split)
      /\ a.tx = IF s.radio.split THEN s.radio.tx ELSE s.rig.actual.tx
    BY <1>1, <1>2 DEF State, Radio, SplitIs
<1>4. [s EXCEPT
            !.rig.actual = [s.rig.actual EXCEPT !.freq = f, !.split = SplitIs(s.radio.split),
                                !.ptt = s.radio.ptt, !.tx = IF s.radio.split THEN s.radio.tx ELSE @],
            !.rig.requested.freq = IF split THEN @ ELSE s.radio.freq]
        = [s EXCEPT !.rig = r, !.radio = s.radio]
    BY <1>1 DEF Handlings, Rig
<1>5. t = Access(s, [s EXCEPT !.rig = r, !.radio = s.radio])
    BY <1>4, Zenon DEF Read
<1>. HIDE DEF a, q, t
<1>6. /\ r \in Rig /\ r.actual = a /\ r.requested = q
      /\ r.polling = s.rig.polling /\ r.failed = s.rig.failed
      /\ r.next = s.rig.next /\ r.retries = s.rig.retries
      /\ r.signalled = s.rig.signalled /\ r.last = s.rig.last
      /\ r.newest = s.rig.newest /\ r.wanted = s.rig.wanted
    BY <1>1, <1>3 DEF Rig
<1>. HIDE DEF r
<1>7. Leads(t, s, r, s.radio) /\ (~t.threw => t.rig = r)
    BY <1>1, <1>5, <1>6, AccessIs
<1>8. ASSUME ~t.threw PROVE SameNews(t.rig, s.rig) /\ t.rig.last = s.rig.last
    BY <1>6, <1>7, <1>8 DEF SameNews
<1>9. ASSUME ~t.threw, SplitAgrees(s.rig, s.radio) \/ Blank(s.rig)
      PROVE  SplitAgrees(t.rig, t.radio)
    <2>1. t.rig.actual = a /\ t.rig.requested = q /\ t.radio = s.radio
        BY <1>6, <1>7, <1>9 DEF Leads
    <2>2. s.radio.tx # 0
        BY <1>1 DEF Radio
    <2>. QED
        BY <1>3, <1>9, <2>1, <2>2 DEF SplitAgrees, Blank
<1>10. /\ Dialled(s.rig) => Dialled(t.rig)
       /\ ~t.threw /\ ~s.rig.actual.ptt => t.rig.requested.freq = s.radio.freq
    BY <1>3, <1>6, <1>7 DEF Leads, Dialled
<1>. QED
    BY <1>3, <1>6, <1>7, <1>8, <1>9, <1>10 DEF Leads, Continues, Knows, SameObject, t

-----------------------------------------------------------------------------
(* What is emitted, and the ends of the handlers.                          *)

LEMMA EmittedIsSignal ==
    ASSUME NEW r \in Rig
    PROVE  Emitted(r) \in Signal
<1>1. r.actual \in State /\ r.wanted \in State /\ r.newest \in BOOLEAN
    BY DEF Rig
<1>. QED
    BY <1>1, UnknownState DEF Emitted, Signal, State, SplitIs

(* update_complete only emits.                                             *)
LEMMA UpdateCompleteEmits ==
    ASSUME NEW s \in Handlings, NEW force \in BOOLEAN
    PROVE  LET t == UpdateComplete(s, force) IN
           /\ t \in Handlings /\ t.radio = s.radio /\ t.threw = s.threw
           /\ SameObject(t.rig, s.rig) /\ t.rig.actual = s.rig.actual
           /\ SameNews(t.rig, s.rig)
           /\ t.out \in {s.out, Append(s.out, Emitted(s.rig))}
           /\ force => /\ t.rig.last = t.rig.actual
                       /\ t.out = Append(s.out, Emitted(t.rig))
<1>. DEFINE r == [s.rig EXCEPT !.last = s.rig.actual]
            o == Append(s.out, Emitted(s.rig))
            t == [s EXCEPT !.out = o, !.rig = r]
<1>1. s.rig \in Rig /\ s.out \in Seq(Signal)
    BY DEF Handlings
<1>2. /\ r \in Rig /\ SameObject(r, s.rig) /\ r.actual = s.rig.actual
      /\ SameNews(r, s.rig) /\ r.last = s.rig.actual
    BY <1>1 DEF Rig, SameObject, SameNews
<1>3. o \in Seq(Signal)
    BY <1>1, EmittedIsSignal, AppendProperties
<1>4. /\ UpdateComplete(s, force) = s \/ UpdateComplete(s, force) = t
      /\ force => UpdateComplete(s, force) = t
    BY DEF UpdateComplete, Handlings
<1>6. Emitted(r) = Emitted(s.rig)
    BY <1>2 DEF Emitted, SameNews
<1>. HIDE DEF r, o
<1>5. /\ t \in Handlings /\ t.radio = s.radio /\ t.threw = s.threw
      /\ t.rig = r /\ t.out = o
    BY <1>2, <1>3 DEF Handlings
<1>. HIDE DEF t
<1>7. /\ t.out = Append(s.out, Emitted(s.rig)) /\ t.out = Append(s.out, Emitted(t.rig))
      /\ t.rig.last = t.rig.actual
    BY <1>2, <1>5, <1>6 DEF o
<1>8. SameObject(s.rig, s.rig) /\ SameNews(s.rig, s.rig)
    BY DEF SameObject, SameNews
<1>. QED
    BY <1>2, <1>4, <1>5, <1>7, <1>8

LEMMA AppendKeepsFailure ==
    ASSUME NEW q \in Seq(Signal), NEW e \in Signal
    PROVE  /\ HasFailure(q) => HasFailure(Append(q, e))
           /\ e.what = "failure" => HasFailure(Append(q, e))
<1>. DEFINE a == Append(q, e)
<1>1. /\ a \in Seq(Signal) /\ Len(a) = Len(q) + 1
      /\ \A i \in 1 .. Len(q) : a[i] = q[i]
      /\ a[Len(q) + 1] = e
    BY AppendProperties
<1>. HIDE DEF a
<1>2. DOMAIN q = 1 .. Len(q) /\ DOMAIN a = 1 .. Len(q) + 1 /\ Len(q) \in Nat
    BY <1>1
<1>3. HasFailure(q) => HasFailure(a)
    BY <1>1, <1>2 DEF HasFailure
<1>4. e.what = "failure" => HasFailure(a)
    <2>1. Len(q) + 1 \in DOMAIN a
        BY <1>2
    <2>. QED
        BY <1>1, <2>1 DEF HasFailure
<1>. QED
    BY <1>3, <1>4 DEF a

(* shutdown puts the object offline, and releases the PTT of one that was  *)
(* online if the two accesses that it needs do not throw.                  *)
LEMMA ShutdownReleases ==
    ASSUME NEW s \in Handlings, NEW n \in Nat
    PROVE  LET t == Shutdown(s, n) IN
           /\ t \in Handlings /\ ~t.threw
           /\ ~t.rig.requested.online /\ ~t.rig.polling
           /\ t.rig.requested.ptt = s.rig.requested.ptt
           /\ Knows(s) => Knows(t)
           /\ s.rig.failed => t.rig.failed
           /\ ~s.rig.requested.online =>
                 t.radio = s.radio /\ t.rig.failed = s.rig.failed
           /\ s.rig.requested.online /\ n > 1 =>
                 ~t.radio.ptt /\ ~t.rig.actual.ptt /\ t.rig.failed = s.rig.failed
           /\ HasFailure(s.out) => HasFailure(t.out)
           /\ ~s.rig.requested.online /\ Blank(s.rig) => Blank(t.rig)
           /\ Dialled(s.rig) => Dialled(t.rig)
           /\ ~s.rig.requested.online => t.rig.actual.ptt = s.rig.actual.ptt
<1>. DEFINE v == [s EXCEPT !.left = n, !.threw = FALSE]
            w == Ptt(v, FALSE)
            x == TxFrequency(w, 0)
            u == IF ~s.rig.requested.online THEN v
                 ELSE IF s.rig.requested.split = "on" THEN x ELSE w
            a == [u.rig.actual EXCEPT !.online = FALSE]
            q == [u.rig.requested EXCEPT !.online = FALSE]
            r == [u.rig EXCEPT !.failed = @ \/ u.threw, !.polling = FALSE,
                               !.actual = a, !.requested = q]
            y == [u EXCEPT !.threw = FALSE, !.rig = r]
            t == Shutdown(s, n)
<1>1. /\ v \in Handlings /\ v.rig = s.rig /\ v.radio = s.radio /\ v.left = n /\ ~v.threw
      /\ v.out = s.out
    BY DEF Handlings
<1>. HIDE DEF v
<1>2. /\ Continues(w, v) /\ w.rig.requested = v.rig.requested
      /\ IF w.threw THEN PttIsKept(w, v) ELSE w.radio.ptt = FALSE /\ w.rig.actual.ptt = FALSE
      /\ n > 1 => ~w.threw /\ w.left # 0
      /\ w.rig.actual.freq = v.rig.actual.freq
    <2>1. /\ Continues(w, v) /\ w.rig.requested = v.rig.requested
          /\ w.rig.actual.freq = v.rig.actual.freq
          /\ IF w.threw THEN PttIsKept(w, v)
                        ELSE w.radio.ptt = FALSE /\ w.rig.actual.ptt = FALSE
          /\ ~v.threw /\ v.left # 0 => ~w.threw /\ w.left = v.left - 1
        BY <1>1, PttSets
    <2>. HIDE DEF w
    <2>. QED
        BY <1>1, <2>1
<1>3. w \in Handlings
    BY <1>2 DEF Continues
<1>. HIDE DEF w
<1>4. /\ Continues(x, w) /\ PttIsKept(x, w) /\ x.rig.requested = w.rig.requested
      /\ n > 1 => ~x.threw
      /\ x.rig.actual.freq = w.rig.actual.freq
    BY <1>2, <1>3, TxFrequencyKeepsPtt
<1>. HIDE DEF x
<1>5. /\ u \in Handlings
      /\ u.rig.requested = s.rig.requested /\ u.rig.failed = s.rig.failed
      /\ Knows(s) => Knows(u)
      /\ ~s.rig.requested.online => u.radio = s.radio /\ ~u.threw /\ u.rig = s.rig
      /\ u.out = s.out
      /\ u.rig.actual.freq = s.rig.actual.freq
      /\ s.rig.requested.online /\ n > 1 =>
            ~u.radio.ptt /\ ~u.rig.actual.ptt /\ ~u.threw
    BY <1>1, <1>2, <1>3, <1>4 DEF Continues, PttIsKept, Knows
<1>6. t = UpdateComplete([u EXCEPT !.threw = FALSE, !.rig.failed = @ \/ u.threw,
                                   !.rig.polling = FALSE, !.rig.actual.online = FALSE,
                                   !.rig.requested.online = FALSE], FALSE)
    BY Zenon DEF Shutdown, v, w, x
<1>. HIDE DEF u, t
<1>7. [u EXCEPT !.threw = FALSE, !.rig.failed = @ \/ u.threw, !.rig.polling = FALSE,
                !.rig.actual.online = FALSE, !.rig.requested.online = FALSE] = y
    BY <1>5 DEF Handlings, Rig
<1>8. u.rig \in Rig /\ u.rig.actual \in State /\ u.rig.requested \in State /\ u.threw \in BOOLEAN
    BY <1>5 DEF Handlings, Rig
<1>9. /\ a \in State /\ a.ptt = u.rig.actual.ptt /\ a.tx = u.rig.actual.tx
      /\ q \in State /\ q.ptt = u.rig.requested.ptt /\ ~q.online
      /\ q.tx = u.rig.requested.tx
      /\ a.freq = u.rig.actual.freq /\ q.freq = u.rig.requested.freq
    BY <1>8 DEF State
<1>. HIDE DEF a, q
<1>10. /\ r \in Rig /\ r.actual = a /\ r.requested = q /\ ~r.polling
       /\ r.failed = (u.rig.failed \/ u.threw) /\ r.next = u.rig.next
    BY <1>8, <1>9 DEF Rig
<1>. HIDE DEF r
<1>11. y \in Handlings /\ y.rig = r /\ y.radio = u.radio /\ ~y.threw /\ y.out = u.out
    BY <1>5, <1>10 DEF Handlings
<1>. HIDE DEF y
<1>12. t = UpdateComplete(y, FALSE)
    BY <1>6, <1>7, Zenon
<1>13. /\ t \in Handlings /\ t.radio = u.radio /\ ~t.threw
       /\ SameObject(t.rig, r) /\ t.rig.actual = a
       /\ SameNews(t.rig, r)
       /\ t.out \in {y.out, Append(y.out, Emitted(y.rig))}
    BY <1>10, <1>11, <1>12, UpdateCompleteEmits
<1>14. /\ t.rig.requested = q /\ ~t.rig.polling
       /\ t.rig.failed = (u.rig.failed \/ u.threw)
       /\ t.rig.actual.ptt = u.rig.actual.ptt
    BY <1>9, <1>10, <1>13 DEF SameObject
<1>15. s.rig.failed \in BOOLEAN
    BY DEF Handlings, Rig
<1>16. /\ Knows(s) => Knows(t)
       /\ s.rig.failed => t.rig.failed
       /\ ~s.rig.requested.online =>
             t.radio = s.radio /\ t.rig.failed = s.rig.failed
       /\ s.rig.requested.online /\ n > 1 =>
             ~t.radio.ptt /\ ~t.rig.actual.ptt /\ t.rig.failed = s.rig.failed
    BY <1>5, <1>8, <1>13, <1>14, <1>15 DEF Knows
<1>17. HasFailure(s.out) => HasFailure(t.out)
    <2>1. y.out \in Seq(Signal) /\ Emitted(y.rig) \in Signal
        BY <1>10, <1>11, EmittedIsSignal DEF Handlings
    <2>2. HasFailure(y.out) => HasFailure(Append(y.out, Emitted(y.rig)))
        BY <2>1, AppendKeepsFailure
    <2>. QED
        BY <1>5, <1>11, <1>13, <2>2
<1>18. ~s.rig.requested.online /\ Blank(s.rig) => Blank(t.rig)
    BY <1>5, <1>9, <1>10, <1>13, <1>14 DEF Blank, SameNews
<1>19. /\ Dialled(s.rig) => Dialled(t.rig)
       /\ ~s.rig.requested.online => t.rig.actual.ptt = s.rig.actual.ptt
    BY <1>5, <1>9, <1>13, <1>14 DEF Dialled
<1>. QED
    BY <1>5, <1>9, <1>13, <1>14, <1>16, <1>17, <1>18, <1>19 DEF t

(* startup reads the radio and puts the object online, unless it throws.   *)
LEMMA StartupReads ==
    ASSUME NEW s \in Handlings
    PROVE  LET t == Startup(s) IN
           /\ t \in Handlings /\ t.radio = s.radio
           /\ s.threw => t.threw
           /\ t.rig.failed = s.rig.failed
           /\ t.rig.requested.ptt = s.rig.requested.ptt
           /\ IF t.threw THEN t.rig = s.rig ELSE Knows(t) /\ t.rig.requested.online
           /\ Blank(s.rig) => Calm(t)
           /\ Dialled(s.rig) => Dialled(t.rig)
           /\ ~t.threw /\ ~s.rig.actual.ptt => t.rig.requested.freq = t.radio.freq
<1>. DEFINE u == Read(s)
            a == [u.rig.actual EXCEPT !.online = TRUE]
            n == [u.rig.next EXCEPT !.online = TRUE]
            q == [u.rig.requested EXCEPT !.online = TRUE]
            e == IF u.rig.next.online THEN u.rig.retries ELSE PollsToStabilize
            r == [u.rig EXCEPT !.polling = TRUE, !.retries = e, !.next = n,
                               !.actual = a, !.requested = q]
            t == [u EXCEPT !.rig = r]
<1>1. /\ u \in Handlings /\ u.radio = s.radio
      /\ s.threw => u.threw
      /\ u.rig.failed = s.rig.failed
      /\ u.rig.requested.ptt = s.rig.requested.ptt
      /\ IF u.threw THEN u.rig = s.rig ELSE Knows(u)
      /\ ~u.threw => u.rig.next = s.rig.next
      /\ ~u.threw /\ Blank(s.rig) => SplitAgrees(u.rig, u.radio)
      /\ Dialled(s.rig) => Dialled(u.rig)
      /\ ~u.threw /\ ~s.rig.actual.ptt => u.rig.requested.freq = s.radio.freq
    BY ReadKnows DEF Continues, SameNews
<1>2. Startup(s) = IF u.threw THEN u
        ELSE [u EXCEPT !.rig.polling = TRUE,
                       !.rig.retries = IF u.rig.next.online THEN @ ELSE PollsToStabilize,
                       !.rig.next.online = TRUE,
                       !.rig.actual.online = TRUE,
                       !.rig.requested.online = TRUE]
    BY Zenon DEF Startup
<1>. HIDE DEF u
<1>3. /\ u.rig \in Rig /\ u.rig.actual \in State /\ u.rig.requested \in State
      /\ u.rig.next \in State /\ e \in 0 .. PollsToStabilize
    BY <1>1, ParameterAssumption DEF Handlings, Rig
<1>4. /\ a \in State /\ a.ptt = u.rig.actual.ptt /\ n \in State
      /\ a.split = u.rig.actual.split /\ a.tx = u.rig.actual.tx
      /\ q \in State /\ q.ptt = u.rig.requested.ptt /\ q.online
      /\ q.tx = u.rig.requested.tx
      /\ a.freq = u.rig.actual.freq /\ q.freq = u.rig.requested.freq
    BY <1>3 DEF State
<1>9. ~u.rig.next.online => e # 0
    BY ParameterAssumption
<1>5. [u EXCEPT !.rig.polling = TRUE,
                !.rig.retries = IF u.rig.next.online THEN @ ELSE PollsToStabilize,
                !.rig.next.online = TRUE,
                !.rig.actual.online = TRUE,
                !.rig.requested.online = TRUE] = t
    BY <1>1 DEF Handlings, Rig
<1>. HIDE DEF a, n, q, e
<1>6. /\ r \in Rig /\ r.actual = a /\ r.requested = q /\ r.failed = u.rig.failed
      /\ r.retries = e
    BY <1>3, <1>4 DEF Rig
<1>. HIDE DEF r
<1>7. t \in Handlings /\ t.radio = u.radio /\ t.threw = u.threw /\ t.rig = r
    BY <1>1, <1>6 DEF Handlings
<1>8. Startup(s) = IF u.threw THEN u ELSE t
    BY <1>2, <1>5, Zenon
<1>. HIDE DEF t
<1>10. ASSUME Blank(s.rig) PROVE ~u.threw => Steady(t.rig, t.radio)
    BY <1>1, <1>4, <1>6, <1>7, <1>9, <1>10 DEF Steady, SplitAgrees, Blank
<1>11. Dialled(u.rig) => Dialled(t.rig)
    BY <1>4, <1>6, <1>7 DEF Dialled
<1>. QED
    BY <1>1, <1>4, <1>6, <1>7, <1>8, <1>10, <1>11 DEF Knows, Calm

(* A handler in which an access failed ends with the object offline.       *)
Released(t, s, n) ==
    /\ t \in Handlings
    /\ ~t.rig.requested.online /\ ~t.rig.polling /\ t.rig.failed
    /\ Knows(s) => Knows(t)
    /\ ~s.rig.requested.online => t.radio = s.radio
    /\ s.rig.requested.online /\ n > 1 => ~t.radio.ptt
    /\ HasFailure(t.out)
    /\ Dialled(s.rig) => Dialled(t.rig)

LEMMA OfflineReleases ==
    ASSUME NEW s \in Handlings, NEW n \in Nat
    PROVE  Released(Offline(s, n), s, n)
<1>. DEFINE f == [what |-> "failure", state |-> Unknown, newest |-> FALSE]
            o == Append(s.out, f)
            r == [s.rig EXCEPT !.failed = TRUE]
            u == [s EXCEPT !.out = o, !.rig = r]
            t == Shutdown(u, n)
<1>1. s.rig \in Rig /\ s.out \in Seq(Signal) /\ f \in Signal
    BY UnknownState DEF Handlings, Signal
<1>2. o \in Seq(Signal) /\ HasFailure(o)
    BY <1>1, AppendProperties, AppendKeepsFailure
<1>3. /\ r \in Rig /\ r.failed /\ r.requested = s.rig.requested
      /\ r.actual = s.rig.actual
    BY <1>1 DEF Rig
<1>4. Offline(s, n) = t
    BY <1>1 DEF Offline, Handlings, Rig
<1>. HIDE DEF o, r
<1>5. u \in Handlings /\ u.rig = r /\ u.radio = s.radio /\ u.out = o
    BY <1>2, <1>3 DEF Handlings
<1>. HIDE DEF u
<1>6. /\ t \in Handlings
      /\ ~t.rig.requested.online /\ ~t.rig.polling /\ t.rig.failed
      /\ Knows(u) => Knows(t)
      /\ ~u.rig.requested.online => t.radio = u.radio
      /\ u.rig.requested.online /\ n > 1 => ~t.radio.ptt
      /\ HasFailure(t.out)
      /\ Dialled(u.rig) => Dialled(t.rig)
    BY <1>2, <1>3, <1>5, ShutdownReleases
<1>. HIDE DEF t
<1>7. Released(t, s, n)
    BY <1>3, <1>5, <1>6 DEF Released, Knows, Dialled
<1>. QED
    BY <1>4, <1>7, Zenon

LEMMA FinishReleases ==
    ASSUME NEW s \in Handlings, NEW newest \in BOOLEAN, NEW n \in Nat
    PROVE  LET t == Finish(s, newest, n) IN
           IF s.threw THEN Released(t, s, n)
           ELSE /\ t \in Handlings /\ t.radio = s.radio /\ ~t.threw
                /\ SameObject(t.rig, s.rig) /\ t.rig.actual = s.rig.actual
                /\ t.rig.newest = newest /\ t.rig.last = t.rig.actual
                /\ t.out = Append(s.out, Emitted(t.rig))
                /\ Steady(s.rig, s.radio) => Steady(t.rig, t.radio)
<1>1. CASE s.threw
    <2>. DEFINE u == UpdateComplete(s, TRUE)
    <2>1. /\ u \in Handlings /\ u.radio = s.radio
          /\ SameObject(u.rig, s.rig) /\ u.rig.actual = s.rig.actual
        BY UpdateCompleteEmits
    <2>2. Finish(s, newest, n) = Offline(u, n)
        BY <1>1 DEF Finish
    <2>. HIDE DEF u
    <2>3. Released(Offline(u, n), u, n)
        BY <2>1, OfflineReleases
    <2>4. Released(Offline(u, n), s, n)
        BY <2>1, <2>3 DEF Released, SameObject, Knows, Dialled
    <2>. QED
        BY <1>1, <2>2, <2>4, Zenon
<1>2. CASE ~s.threw
    <2>. DEFINE r == [s.rig EXCEPT !.newest = newest]
                u == [s EXCEPT !.rig = r]
    <2>1. s.rig \in Rig
        BY DEF Handlings
    <2>2. /\ r \in Rig /\ SameObject(r, s.rig) /\ r.actual = s.rig.actual
          /\ r.next = s.rig.next /\ r.retries = s.rig.retries
          /\ r.signalled = s.rig.signalled /\ r.newest = newest
        BY <2>1 DEF Rig, SameObject
    <2>3. Finish(s, newest, n) = UpdateComplete(u, TRUE)
        BY <1>2 DEF Finish, Handlings
    <2>. HIDE DEF r
    <2>4. /\ u \in Handlings /\ u.radio = s.radio /\ u.rig = r /\ u.threw = s.threw
          /\ u.out = s.out
        BY <2>2 DEF Handlings
    <2>. HIDE DEF u
    <2>5. LET t == UpdateComplete(u, TRUE) IN
          /\ t \in Handlings /\ t.radio = s.radio /\ ~t.threw
          /\ SameObject(t.rig, s.rig) /\ t.rig.actual = s.rig.actual
          /\ SameNews(t.rig, r) /\ t.rig.last = t.rig.actual
          /\ t.out = Append(s.out, Emitted(t.rig))
        BY <1>2, <2>2, <2>4, UpdateCompleteEmits DEF SameObject
    <2>6. LET t == UpdateComplete(u, TRUE) IN
          /\ t.rig.newest = newest
          /\ Steady(s.rig, s.radio) => Steady(t.rig, t.radio)
        BY <2>2, <2>5 DEF SameNews, SameObject, Steady, SplitAgrees
    <2>. QED
        BY <1>2, <2>3, <2>5, <2>6
<1>. QED
    BY <1>1, <1>2

-----------------------------------------------------------------------------
(* TransceiverBase::set.                                                   *)

LEMMA SetFrequencyKeepsPtt ==
    ASSUME NEW s \in Handlings, NEW want \in State, NEW released \in BOOLEAN
    PROVE  LET t == SetFrequency(s, want, released) IN
           /\ Continues(t, s) /\ PttIsKept(t, s)
           /\ Calm(s) => Calm(t)
           /\ Dialled(s.rig) => Dialled(t.rig)
           /\ t.radio.split = s.radio.split
           /\ ~t.threw /\ want.freq # 0 /\ s.rig.requested.freq = s.radio.freq =>
                t.radio.freq = want.freq
<1>. DEFINE u == Frequency(s, want.freq)
            q == [u.rig.requested EXCEPT !.freq = u.rig.actual.freq]
            r == [u.rig EXCEPT !.requested = q]
            t == [u EXCEPT !.rig = r]
<1>1. /\ Continues(u, s) /\ PttIsKept(u, s) /\ (Calm(s) => Calm(u))
      /\ u.radio.split = s.radio.split
      /\ IF u.threw THEN u.rig = s.rig
         ELSE u.rig.actual.freq = want.freq /\ u.radio.freq = want.freq
    BY FrequencyKeepsPtt DEF State
<1>2. IF want.freq # 0 /\ (want.freq # s.rig.requested.freq \/ released)
      THEN SetFrequency(s, want, released) =
             IF u.threw THEN u ELSE [u EXCEPT !.rig.requested.freq = u.rig.actual.freq]
      ELSE SetFrequency(s, want, released) = s
    BY Zenon DEF SetFrequency
<1>. HIDE DEF u
<1>3. u \in Handlings /\ u.rig \in Rig /\ u.rig.actual \in State /\ u.rig.requested \in State
    BY <1>1 DEF Continues, Handlings, Rig
<1>4. /\ q \in State /\ q.ptt = u.rig.requested.ptt /\ q.online = u.rig.requested.online
      /\ q.tx = u.rig.requested.tx /\ q.freq = u.rig.actual.freq
    BY <1>3 DEF State
<1>5. [u EXCEPT !.rig.requested.freq = u.rig.actual.freq] = t
    BY <1>3 DEF Handlings, Rig
<1>. HIDE DEF q
<1>6. /\ r \in Rig /\ r.requested = q /\ r.actual = u.rig.actual
      /\ r.polling = u.rig.polling /\ r.failed = u.rig.failed
      /\ r.next = u.rig.next /\ r.retries = u.rig.retries /\ r.signalled = u.rig.signalled
    BY <1>3, <1>4 DEF Rig
<1>. HIDE DEF r
<1>7. /\ t \in Handlings /\ t.radio = u.radio /\ t.threw = u.threw /\ t.rig = r
      /\ t.out = u.out
    BY <1>3, <1>6 DEF Handlings
<1>. HIDE DEF t
<1>8. Continues(t, s) /\ PttIsKept(t, s)
    BY <1>1, <1>4, <1>6, <1>7 DEF Continues, PttIsKept
<1>9. Continues(s, s) /\ PttIsKept(s, s)
    BY DEF Continues, PttIsKept
<1>10. Calm(u) => Calm(t)
    BY <1>4, <1>6, <1>7 DEF Calm, Steady, SplitAgrees
<1>11. Dialled(t.rig)
    BY <1>4, <1>6, <1>7 DEF Dialled
<1>. HIDE DEF Dialled
<1>. QED
    BY <1>1, <1>2, <1>5, <1>7, <1>8, <1>9, <1>10, <1>11

LEMMA SetTxFrequencyKeepsPtt ==
    ASSUME NEW s \in Handlings, NEW want \in State
    PROVE  LET t == SetTxFrequency(s, want) IN
           /\ Continues(t, s) /\ PttIsKept(t, s)
           /\ Calm(s) /\ (splitMode = "emulate" => want.tx = 0) => Calm(t)
           /\ Dialled(s.rig) => Dialled(t.rig)
           /\ ~t.threw /\ PttOn(s, want) =>
                 /\ want.tx # 0 => t.radio.split /\ t.radio.tx = want.tx
                 /\ want.tx = 0 /\ want.freq # 0 =>
                        t.radio.freq = s.radio.freq /\ (t.radio.split => s.radio.split)
<1>. DEFINE b == Bandaid(s, want)
            u == TxFrequency(b, want.tx)
            q == [u.rig.requested EXCEPT !.tx = u.rig.actual.tx, !.split = u.rig.actual.split]
            r == [u.rig EXCEPT !.requested = q]
            t == [u EXCEPT !.rig = r]
<1>1. /\ Continues(b, s) /\ PttIsKept(b, s) /\ (Calm(s) => Calm(b))
      /\ b.rig.requested = s.rig.requested /\ b.rig.actual = s.rig.actual
      /\ want.tx = 0 /\ want.freq # 0 => b.radio = s.radio
    BY BandaidKeepsPtt
<1>16. IF want.tx # s.rig.requested.tx \/ (want.tx # 0 /\ PttOn(s, want))
       THEN SetTxFrequency(s, want) =
              IF u.threw THEN u
              ELSE [u EXCEPT !.rig.requested.tx = u.rig.actual.tx,
                             !.rig.requested.split = u.rig.actual.split]
       ELSE SetTxFrequency(s, want) = s
    BY Zenon DEF SetTxFrequency
<1>2. SetTxFrequency(s, want) \in
          {s, u, [u EXCEPT !.rig.requested.tx = u.rig.actual.tx,
                           !.rig.requested.split = u.rig.actual.split]}
    BY <1>16, Zenon
<1>12. want.tx = s.rig.requested.tx /\ want.tx = 0 => SetTxFrequency(s, want) = s
    BY DEF SetTxFrequency
<1>. HIDE DEF b
<1>3. /\ Continues(u, b) /\ PttIsKept(u, b)
      /\ splitMode # "emulate" /\ Calm(b) => Calm(u)
      /\ u.rig.requested = b.rig.requested
      /\ u.rig.actual.freq = b.rig.actual.freq /\ u.radio.freq = b.radio.freq
      /\ ~u.threw => /\ u.radio.split <=> want.tx # 0
                     /\ want.tx # 0 => u.radio.tx = want.tx
    BY <1>1, TxFrequencyKeepsPtt DEF Continues, State
<1>. HIDE DEF u
<1>4. Continues(u, s) /\ PttIsKept(u, s)
    BY <1>1, <1>3 DEF Continues, PttIsKept
<1>5. u \in Handlings /\ u.rig \in Rig /\ u.rig.actual \in State /\ u.rig.requested \in State
    BY <1>4 DEF Continues, Handlings, Rig
<1>6. /\ q \in State /\ q.ptt = u.rig.requested.ptt /\ q.online = u.rig.requested.online
      /\ q.freq = u.rig.requested.freq
    BY <1>5 DEF State
<1>7. [u EXCEPT !.rig.requested.tx = u.rig.actual.tx,
                !.rig.requested.split = u.rig.actual.split] = t
    BY <1>5 DEF Handlings, Rig
<1>. HIDE DEF q
<1>8. /\ r \in Rig /\ r.requested = q /\ r.actual = u.rig.actual
      /\ r.polling = u.rig.polling /\ r.failed = u.rig.failed
      /\ r.next = u.rig.next /\ r.retries = u.rig.retries /\ r.signalled = u.rig.signalled
    BY <1>5, <1>6 DEF Rig
<1>. HIDE DEF r
<1>9. /\ t \in Handlings /\ t.radio = u.radio /\ t.threw = u.threw /\ t.rig = r
      /\ t.out = u.out
    BY <1>5, <1>8 DEF Handlings
<1>. HIDE DEF t
<1>10. Continues(t, s) /\ PttIsKept(t, s)
    BY <1>4, <1>6, <1>8, <1>9 DEF Continues, PttIsKept
<1>11. Continues(s, s) /\ PttIsKept(s, s)
    BY DEF Continues, PttIsKept
<1>13. splitMode # "emulate" /\ Calm(u) => Calm(t)
    BY <1>8, <1>9 DEF Calm, Steady, SplitAgrees
<1>14. ASSUME Calm(s), splitMode = "emulate", want.tx = 0
       PROVE  Calm(SetTxFrequency(s, want))
    <2>1. CASE s.threw
        <3>1. s.threw /\ u.threw /\ t.threw
            BY <1>4, <1>10, <2>1 DEF Continues
        <3>. QED
            BY <1>2, <1>7, <3>1 DEF Calm
    <2>2. CASE ~s.threw
        BY <1>12, <1>14, <2>2 DEF Calm, Steady, SplitAgrees
    <2>. QED
        BY <2>1, <2>2
<1>15. ASSUME Calm(s), splitMode # "emulate"
       PROVE  Calm(SetTxFrequency(s, want))
    BY <1>1, <1>2, <1>3, <1>7, <1>13, <1>15
<1>17. Dialled(s.rig) => Dialled(u.rig) /\ Dialled(t.rig)
    BY <1>1, <1>3, <1>6, <1>8, <1>9 DEF Dialled
<1>18. LET v == SetTxFrequency(s, want) IN
       /\ Dialled(s.rig) => Dialled(v.rig)
       /\ ~v.threw /\ PttOn(s, want) =>
             /\ want.tx # 0 => v.radio.split /\ v.radio.tx = want.tx
             /\ want.tx = 0 /\ want.freq # 0 =>
                    v.radio.freq = s.radio.freq /\ (v.radio.split => s.radio.split)
    <2>. DEFINE v == SetTxFrequency(s, want)
    <2>1. \/ v = u /\ u.threw
          \/ v = t /\ ~u.threw
          \/ v = s /\ ~(want.tx # 0 /\ PttOn(s, want))
        BY <1>7, <1>16
    <2>. HIDE DEF v
    <2>. QED
        BY <1>1, <1>3, <1>9, <1>17, <2>1 DEF v
<1>. QED
    BY <1>2, <1>4, <1>7, <1>10, <1>11, <1>14, <1>15, <1>18

(* The PTT is switched on last, and its state taken for what was asked.    *)
LEMMA SetPttSets ==
    ASSUME NEW s \in Handlings, NEW want \in State
    PROVE  LET t == SetPtt(s, want) IN
           /\ Continues(t, s)
           /\ Knows(s) => Knows(t)
           /\ ~t.threw => t.rig.requested.ptt = t.rig.actual.ptt
           /\ IF ~t.threw /\ PttOn(s, want) THEN t.radio.ptt = TRUE
                                            ELSE t.radio.ptt = s.radio.ptt
           /\ Calm(s) => Calm(t)
           /\ TuningIsKept(t, s) /\ (Dialled(s.rig) => Dialled(t.rig))
<1>. DEFINE u == IF PttOn(s, want) THEN Ptt(s, TRUE) ELSE s
            q == [u.rig.requested EXCEPT !.ptt = u.rig.actual.ptt]
            r == [u.rig EXCEPT !.requested = q]
            t == [u EXCEPT !.rig = r]
<1>1. /\ Continues(u, s)
      /\ Knows(s) => Knows(u)
      /\ IF ~u.threw /\ PttOn(s, want) THEN u.radio.ptt = TRUE
                                       ELSE u.radio.ptt = s.radio.ptt
      /\ Calm(s) => Calm(u)
      /\ TuningIsKept(u, s) /\ (Dialled(s.rig) => Dialled(u.rig))
    <2>1. CASE PttOn(s, want)
        <3>. DEFINE p == Ptt(s, TRUE)
        <3>1. /\ Continues(p, s)
              /\ IF p.threw THEN PttIsKept(p, s)
                            ELSE p.radio.ptt = TRUE /\ p.rig.actual.ptt = TRUE
              /\ Calm(s) => Calm(p)
              /\ TuningIsKept(p, s)
              /\ p.rig.requested = s.rig.requested
              /\ p.rig.actual.freq = s.rig.actual.freq
            BY PttSets
        <3>2. u = p
            BY <2>1
        <3>. HIDE DEF p, u
        <3>. QED
            BY <2>1, <3>1, <3>2 DEF PttIsKept, Knows, Dialled
    <2>2. CASE ~PttOn(s, want)
        <3>1. u = s
            BY <2>2
        <3>. HIDE DEF u
        <3>. QED
            BY <2>2, <3>1 DEF Continues, TuningIsKept
    <2>. QED
        BY <2>1, <2>2
<1>2. SetPtt(s, want) = IF u.threw THEN u
                        ELSE [u EXCEPT !.rig.requested.ptt = u.rig.actual.ptt]
    BY Zenon DEF SetPtt
<1>. HIDE DEF u
<1>3. u \in Handlings /\ u.rig \in Rig /\ u.rig.actual \in State /\ u.rig.requested \in State
    BY <1>1 DEF Continues, Handlings, Rig
<1>4. /\ q \in State /\ q.ptt = u.rig.actual.ptt /\ q.online = u.rig.requested.online
      /\ q.tx = u.rig.requested.tx /\ q.freq = u.rig.requested.freq
    BY <1>3 DEF State
<1>5. [u EXCEPT !.rig.requested.ptt = u.rig.actual.ptt] = t
    BY <1>3 DEF Handlings, Rig
<1>. HIDE DEF q
<1>6. /\ r \in Rig /\ r.requested = q /\ r.actual = u.rig.actual
      /\ r.polling = u.rig.polling /\ r.failed = u.rig.failed
      /\ r.next = u.rig.next /\ r.retries = u.rig.retries /\ r.signalled = u.rig.signalled
    BY <1>3, <1>4 DEF Rig
<1>. HIDE DEF r
<1>7. /\ t \in Handlings /\ t.radio = u.radio /\ t.threw = u.threw /\ t.rig = r
      /\ t.out = u.out
    BY <1>3, <1>6 DEF Handlings
<1>8. SetPtt(s, want) = IF u.threw THEN u ELSE t
    BY <1>2, <1>5, Zenon
<1>. HIDE DEF t
<1>9. Calm(u) => Calm(t)
    BY <1>4, <1>6, <1>7 DEF Calm, Steady, SplitAgrees
<1>10. TuningIsKept(t, s) /\ (Dialled(s.rig) => Dialled(t.rig))
    BY <1>1, <1>4, <1>6, <1>7 DEF TuningIsKept, Dialled
<1>. QED
    BY <1>1, <1>4, <1>6, <1>7, <1>8, <1>9, <1>10 DEF Continues, Knows

(* The PTT becomes what is wanted, or stays what it is; it stays otherwise *)
(* only if the object was mistaken about it or an access throws.           *)
LEMMA ApplySets ==
    ASSUME NEW s \in Handlings, NEW want \in State
    PROVE  LET t == Apply(s, want) IN
           /\ Continues(t, s)
           /\ Knows(s) => Knows(t)
           /\ ~t.threw => t.rig.requested.ptt = t.rig.actual.ptt
           /\ t.radio.ptt \in {want.ptt, s.radio.ptt}
           /\ ~t.threw /\ s.rig.requested.ptt = s.radio.ptt => t.radio.ptt = want.ptt
           /\ Calm(s) /\ (splitMode = "emulate" => want.tx = 0) => Calm(t)
           /\ Dialled(s.rig) => Dialled(t.rig)
           /\ ~t.threw /\ PttOn(s, want) /\ want.freq # 0
              /\ s.rig.requested.freq = s.radio.freq => KeysOn(t.radio, s.radio, want)
<1>. DEFINE u == IF PttOff(s, want) THEN Ptt(s, FALSE) ELSE s
            v == SetFrequency(u, want, PttOff(s, want))
            w == SetTxFrequency(v, want)
            t == SetPtt(w, want)
<1>1. /\ Continues(u, s)
      /\ Knows(s) => Knows(u)
      /\ u.rig.requested.ptt = s.rig.requested.ptt
      /\ IF ~u.threw /\ PttOff(s, want) THEN u.radio.ptt = FALSE
                                        ELSE u.radio.ptt = s.radio.ptt
      /\ Calm(s) => Calm(u)
      /\ Dialled(s.rig) => Dialled(u.rig)
      /\ PttOn(s, want) => u = s
    <2>1. CASE PttOff(s, want)
        <3>. DEFINE p == Ptt(s, FALSE)
        <3>1. /\ Continues(p, s)
              /\ p.rig.requested = s.rig.requested
              /\ IF p.threw THEN PttIsKept(p, s)
                            ELSE p.radio.ptt = FALSE /\ p.rig.actual.ptt = FALSE
              /\ Calm(s) => Calm(p)
              /\ p.rig.actual.freq = s.rig.actual.freq
            BY PttSets
        <3>2. u = p
            BY <2>1
        <3>3. ~PttOn(s, want)
            BY <2>1 DEF PttOn, PttOff
        <3>. HIDE DEF p, u
        <3>. QED
            BY <2>1, <3>1, <3>2, <3>3 DEF PttIsKept, Knows, Dialled
    <2>2. CASE ~PttOff(s, want)
        <3>1. u = s
            BY <2>2
        <3>. HIDE DEF u
        <3>. QED
            BY <2>2, <3>1 DEF Continues
    <2>. QED
        BY <2>1, <2>2
<1>2. Apply(s, want) = t
    BY Zenon DEF Apply
<1>3. PttOff(s, want) \in BOOLEAN
    BY DEF PttOff, Handlings, Rig, State
<1>. HIDE DEF u
<1>4. /\ Continues(v, u) /\ PttIsKept(v, u) /\ (Calm(u) => Calm(v))
      /\ Dialled(u.rig) => Dialled(v.rig)
      /\ v.radio.split = u.radio.split
      /\ ~v.threw /\ want.freq # 0 /\ u.rig.requested.freq = u.radio.freq =>
            v.radio.freq = want.freq
    BY <1>1, <1>3, SetFrequencyKeepsPtt DEF Continues
<1>. HIDE DEF v
<1>5. /\ Continues(w, v) /\ PttIsKept(w, v)
      /\ Calm(v) /\ (splitMode = "emulate" => want.tx = 0) => Calm(w)
      /\ Dialled(v.rig) => Dialled(w.rig)
      /\ ~w.threw /\ PttOn(v, want) =>
            /\ want.tx # 0 => w.radio.split /\ w.radio.tx = want.tx
            /\ want.tx = 0 /\ want.freq # 0 =>
                   w.radio.freq = v.radio.freq /\ (w.radio.split => v.radio.split)
    BY <1>4, SetTxFrequencyKeepsPtt DEF Continues
<1>. HIDE DEF w
<1>6. /\ Continues(t, w)
      /\ Knows(w) => Knows(t)
      /\ ~t.threw => t.rig.requested.ptt = t.rig.actual.ptt
      /\ IF ~t.threw /\ PttOn(w, want) THEN t.radio.ptt = TRUE
                                       ELSE t.radio.ptt = w.radio.ptt
      /\ Calm(w) => Calm(t)
      /\ TuningIsKept(t, w) /\ (Dialled(w.rig) => Dialled(t.rig))
    BY <1>5, SetPttSets DEF Continues
<1>. HIDE DEF t
<1>7. /\ Continues(w, s)
      /\ Knows(s) => Knows(w)
      /\ w.rig.requested.ptt = s.rig.requested.ptt
      /\ IF ~u.threw /\ PttOff(s, want) THEN w.radio.ptt = FALSE
                                        ELSE w.radio.ptt = s.radio.ptt
      /\ u.threw => w.threw
    BY <1>1, <1>4, <1>5 DEF Continues, PttIsKept, Knows
<1>8. /\ s.rig.requested.ptt \in BOOLEAN /\ s.radio.ptt \in BOOLEAN /\ want.ptt \in BOOLEAN
      /\ w.threw \in BOOLEAN /\ w.radio.ptt \in BOOLEAN
    BY <1>7 DEF Continues, Handlings, Rig, Radio, State
<1>9. Continues(t, s)
    BY <1>6, <1>7 DEF Continues
<1>10. w.threw => t.threw
    BY <1>6 DEF Continues
<1>11. t.radio.ptt \in {want.ptt, s.radio.ptt}
    BY <1>6, <1>7, <1>8 DEF PttOn, PttOff
<1>12. ~t.threw /\ s.rig.requested.ptt = s.radio.ptt => t.radio.ptt = want.ptt
    BY <1>6, <1>7, <1>8, <1>10 DEF PttOn, PttOff
<1>14. Dialled(s.rig) => Dialled(t.rig)
    BY <1>1, <1>4, <1>5, <1>6
<1>15. ASSUME ~t.threw, PttOn(s, want), want.freq # 0, s.rig.requested.freq = s.radio.freq
       PROVE  KeysOn(t.radio, s.radio, want)
    <2>1. ~w.threw /\ ~v.threw /\ u = s
        BY <1>1, <1>5, <1>6, <1>15 DEF Continues
    <2>2. PttOn(v, want)
        BY <1>4, <1>15, <2>1 DEF PttOn, PttIsKept
    <2>. QED
        BY <1>4, <1>5, <1>6, <1>15, <2>1, <2>2 DEF KeysOn, TuningIsKept
<1>13. /\ Continues(t, s)
       /\ Knows(s) => Knows(t)
       /\ ~t.threw => t.rig.requested.ptt = t.rig.actual.ptt
       /\ t.radio.ptt \in {want.ptt, s.radio.ptt}
       /\ ~t.threw /\ s.rig.requested.ptt = s.radio.ptt => t.radio.ptt = want.ptt
       /\ Calm(s) /\ (splitMode = "emulate" => want.tx = 0) => Calm(t)
       /\ Dialled(s.rig) => Dialled(t.rig)
       /\ ~t.threw /\ PttOn(s, want) /\ want.freq # 0
          /\ s.rig.requested.freq = s.radio.freq => KeysOn(t.radio, s.radio, want)
    BY <1>1, <1>4, <1>5, <1>6, <1>7, <1>9, <1>11, <1>12, <1>14, <1>15
<1>. QED
    BY <1>2, <1>13, Zenon

-----------------------------------------------------------------------------
(* Between two handlers the object is at rest: it knows the PTT, and has   *)
(* asked for it unless it has failed; offline it neither transmits nor     *)
(* polls.                                                                  *)
AtRest(s) ==
    /\ s \in Handlings /\ Knows(s)
    /\ ~s.rig.failed => s.rig.requested.ptt = s.radio.ptt
    /\ ~s.rig.requested.online => ~s.radio.ptt /\ ~s.rig.polling
    /\ Dialled(s.rig)

(* A command is obeyed, or met by a rig that has failed.                   *)
Obeys(t, s, want) ==
    \/ t.radio.ptt = want.ptt /\ t.rig.failed = s.rig.failed
    \/ t.radio.ptt \in {s.radio.ptt, FALSE} /\ t.rig.failed

(* What an object that has not failed makes of the radio d: online it waits *)
(* for a change to show, or has said what it is; offline it is blank.      *)
Sound(r, d) ==
    ~r.failed =>
        IF r.requested.online
        THEN Steady(r, d) /\ (r.retries = 0 => r.last = r.actual)
        ELSE Blank(r)

(* It has asked for what transmits.                                        *)
Asked(s) == s.radio.ptt => s.rig.requested.ptt

(* A command is answered by the state that the object is in, under its     *)
(* number, or by a failure.                                                *)
Answers(t, newest) ==
    IF t.rig.requested.online
    THEN /\ t.rig.newest = newest /\ t.rig.last = t.rig.actual
         /\ t.out # << >> /\ t.out[Len(t.out)] = Emitted(t.rig)
    ELSE t.rig.failed /\ HasFailure(t.out)

(* The last of the signals.                                                *)
LEMMA AppendIsLast ==
    ASSUME NEW q \in Seq(Signal), NEW e \in Signal
    PROVE  Append(q, e) # << >> /\ Append(q, e)[Len(Append(q, e))] = e
BY AppendProperties

(* What is wanted of the radio is well typed, also in emulated split.      *)
LEMMA EmulatedIsState ==
    ASSUME NEW want \in State
    PROVE  Emulated(want) \in State /\ Emulated(want).ptt = want.ptt /\ Emulated(want).tx = 0
<1>. DEFINE f == IF want.ptt /\ want.split = "on" THEN want.tx ELSE want.freq
            p == [want EXCEPT !.freq = f]
            q == [p EXCEPT !.split = "off"]
            e == [q EXCEPT !.tx = 0]
<1>1. f \in Int
    BY DEF State
<1>2. Emulated(want) = e
    BY DEF Emulated, State
<1>. HIDE DEF f
<1>3. p \in State /\ p.ptt = want.ptt
    BY <1>1 DEF State
<1>. HIDE DEF p
<1>4. q \in State /\ q.ptt = want.ptt
    BY <1>3 DEF State
<1>. HIDE DEF q
<1>5. e \in State /\ e.ptt = want.ptt /\ e.tx = 0
    BY <1>4 DEF State
<1>. HIDE DEF e
<1>. QED
    BY <1>2, <1>5

(* What is wanted of the radio itself.                                     *)
Wanted(want) == IF splitMode = "emulate" THEN Emulated(want) ELSE want

LEMMA SetIsAtRest ==
    ASSUME NEW s \in Handlings, ~s.threw, NEW want \in State,
           NEW newest \in BOOLEAN, NEW n \in Nat
    PROVE  LET t == Set(s, want, newest, n) IN
           /\ t \in Handlings
           /\ AtRest(s) /\ n > 1 => AtRest(t) /\ Obeys(t, s, want)
           /\ Sound(s.rig, s.radio) => Sound(t.rig, t.radio)
           /\ AtRest(s) /\ n > 1 /\ Asked(s) => Asked(t) /\ (t.radio.ptt => want.ptt)
           /\ t.rig.requested.online => t.rig.failed = s.rig.failed
           /\ Answers(t, newest)
           /\ AtRest(s) /\ n > 1 /\ t.radio.ptt /\ ~s.radio.ptt /\ ~s.rig.failed
              /\ s.rig.actual.freq = s.radio.freq /\ Wanted(want).freq # 0 =>
                want.ptt /\ KeysOn(t.radio, s.radio, Wanted(want))
<1>. DEFINE z == [want EXCEPT !.online = FALSE, !.ptt = FALSE]
            r == [s.rig EXCEPT !.wanted = z]
            y == [s EXCEPT !.rig = r]
            x == IF splitMode # "emulate" THEN s ELSE [s EXCEPT !.rig.wanted = z]
            w == Shutdown(x, x.left)
            u == IF x.rig.requested.online THEN x ELSE Startup(w)
            e == Wanted(want)
            v == IF u.threw THEN u ELSE Apply(u, e)
            t == Finish(v, newest, n)
<1>1. Set(s, want, newest, n) = t
    BY Zenon DEF Set, Wanted
<1>2. e \in State /\ e.ptt = want.ptt /\ (splitMode = "emulate" => e.tx = 0)
    BY EmulatedIsState DEF Wanted
<1>. HIDE DEF e
<1>3. /\ x \in Handlings /\ x.radio = s.radio /\ ~x.threw
      /\ SameObject(x.rig, s.rig) /\ x.rig.actual = s.rig.actual
      /\ x.rig.next = s.rig.next /\ x.rig.retries = s.rig.retries
      /\ x.rig.signalled = s.rig.signalled
    <2>1. s.rig \in Rig /\ z \in State
        BY DEF Handlings, State
    <2>2. [s EXCEPT !.rig.wanted = z] = y
        BY DEF Handlings
    <2>. HIDE DEF z
    <2>3. /\ r \in Rig /\ SameObject(r, s.rig) /\ r.actual = s.rig.actual
          /\ r.next = s.rig.next /\ r.retries = s.rig.retries
          /\ r.signalled = s.rig.signalled
        BY <2>1 DEF Rig, SameObject
    <2>. HIDE DEF r
    <2>4. y \in Handlings /\ y.radio = s.radio /\ y.threw = s.threw /\ y.rig = r
        BY <2>3 DEF Handlings
    <2>5. x = s \/ x = y
        BY <2>2
    <2>. HIDE DEF x, y
    <2>. QED
        BY <2>3, <2>4, <2>5 DEF SameObject
<1>. HIDE DEF x
<1>4. x.left \in Nat
    BY <1>3 DEF Handlings
<1>5. /\ w \in Handlings
      /\ ~w.rig.requested.online /\ ~w.rig.polling
      /\ w.rig.requested.ptt = x.rig.requested.ptt
      /\ Knows(x) => Knows(w)
      /\ ~x.rig.requested.online => w.radio = x.radio /\ w.rig.failed = x.rig.failed
      /\ ~x.rig.requested.online /\ Blank(x.rig) => Blank(w.rig)
      /\ Dialled(x.rig) => Dialled(w.rig)
      /\ ~x.rig.requested.online => w.rig.actual.ptt = x.rig.actual.ptt
    BY <1>3, <1>4, ShutdownReleases
<1>. HIDE DEF w
<1>6. /\ u \in Handlings /\ u.radio = s.radio
      /\ u.rig.failed = s.rig.failed
      /\ u.rig.requested.ptt = s.rig.requested.ptt
      /\ Knows(s) => Knows(u)
      /\ u.threw => ~s.rig.requested.online /\ ~u.rig.requested.online
      /\ ~u.threw => u.rig.requested.online
      /\ Sound(s.rig, s.radio) /\ ~s.rig.failed => Calm(u)
      /\ Dialled(s.rig) => Dialled(u.rig)
      /\ Dialled(s.rig) /\ ~s.rig.actual.ptt /\ ~u.threw
         /\ s.rig.actual.freq = s.radio.freq => u.rig.requested.freq = u.radio.freq
    <2>1. CASE x.rig.requested.online
        <3>1. u = x
            BY <2>1
        <3>. HIDE DEF u
        <3>. QED
            BY <1>3, <2>1, <3>1 DEF SameObject, Knows, Sound, Calm, Steady, SplitAgrees, Dialled
    <2>2. CASE ~x.rig.requested.online
        <3>. DEFINE b == Startup(w)
        <3>1. /\ b \in Handlings /\ b.radio = w.radio
              /\ b.rig.failed = w.rig.failed
              /\ b.rig.requested.ptt = w.rig.requested.ptt
              /\ IF b.threw THEN b.rig = w.rig ELSE Knows(b) /\ b.rig.requested.online
              /\ Blank(w.rig) => Calm(b)
              /\ Dialled(w.rig) => Dialled(b.rig)
              /\ ~b.threw /\ ~w.rig.actual.ptt => b.rig.requested.freq = b.radio.freq
            BY <1>5, StartupReads
        <3>2. u = b
            BY <2>2
        <3>. HIDE DEF u, b
        <3>3. Sound(s.rig, s.radio) /\ ~s.rig.failed => Blank(x.rig)
            BY <1>3, <2>2 DEF Sound, Blank, SameObject
        <3>4. Dialled(s.rig) => Dialled(x.rig)
            BY <1>3 DEF Dialled, SameObject
        <3>. QED
            BY <1>3, <1>5, <2>2, <3>1, <3>2, <3>3, <3>4 DEF SameObject, Knows
    <2>. QED
        BY <2>1, <2>2
<1>. HIDE DEF u
<1>7. /\ v \in Handlings /\ v.rig.failed = s.rig.failed
      /\ Knows(s) => Knows(v)
      /\ v.rig.requested.online = u.rig.requested.online
      /\ ~v.threw => /\ v.rig.requested.ptt = v.rig.actual.ptt
                     /\ v.rig.requested.online
                     /\ v.radio.ptt \in {want.ptt, s.radio.ptt}
                     /\ s.rig.requested.ptt = s.radio.ptt => v.radio.ptt = want.ptt
      /\ v.threw /\ ~v.rig.requested.online => v.radio = s.radio
      /\ Sound(s.rig, s.radio) /\ ~s.rig.failed => Calm(v)
      /\ Dialled(s.rig) => Dialled(v.rig)
      /\ ~v.threw => ~u.threw
      /\ ~v.threw /\ PttOn(u, e) /\ e.freq # 0
         /\ u.rig.requested.freq = u.radio.freq => KeysOn(v.radio, u.radio, e)
    <2>1. CASE u.threw
        <3>1. v = u
            BY <2>1
        <3>. HIDE DEF v
        <3>. QED
            BY <1>6, <2>1, <3>1
    <2>2. CASE ~u.threw
        <3>. DEFINE b == Apply(u, e)
        <3>1. /\ Continues(b, u)
              /\ Knows(u) => Knows(b)
              /\ ~b.threw => b.rig.requested.ptt = b.rig.actual.ptt
              /\ b.radio.ptt \in {e.ptt, u.radio.ptt}
              /\ ~b.threw /\ u.rig.requested.ptt = u.radio.ptt => b.radio.ptt = e.ptt
              /\ Calm(u) => Calm(b)
              /\ Dialled(u.rig) => Dialled(b.rig)
              /\ ~b.threw /\ PttOn(u, e) /\ e.freq # 0
                 /\ u.rig.requested.freq = u.radio.freq => KeysOn(b.radio, u.radio, e)
            BY <1>2, <1>6, ApplySets
        <3>2. v = b
            BY <2>2
        <3>. HIDE DEF v, b
        <3>. QED
            BY <1>2, <1>6, <2>2, <3>1, <3>2 DEF Continues
    <2>. QED
        BY <2>1, <2>2
<1>. HIDE DEF v
<1>8. CASE v.threw
    <2>1. Released(t, v, n)
        BY <1>7, <1>8, FinishReleases
    <2>. HIDE DEF t
    <2>2. t \in Handlings
        BY <2>1 DEF Released
    <2>3. v.radio.ptt \in BOOLEAN /\ t.radio.ptt \in BOOLEAN /\ s.radio.ptt \in BOOLEAN
        BY <1>7, <2>2 DEF Handlings, Radio
    <2>4. ASSUME AtRest(s), n > 1
          PROVE  AtRest(t) /\ Obeys(t, s, want) /\ ~t.radio.ptt
        <3>1. ~t.radio.ptt
            <4>1. CASE v.rig.requested.online
                BY <2>1, <2>4, <4>1 DEF Released
            <4>2. CASE ~v.rig.requested.online
                BY <1>6, <1>7, <1>8, <2>1, <2>4, <4>2 DEF Released, AtRest
            <4>. QED
                BY <4>1, <4>2
        <3>. QED
            BY <1>7, <2>1, <2>2, <2>3, <2>4, <3>1 DEF Released, AtRest, Obeys
    <2>5. /\ Sound(s.rig, s.radio) => Sound(t.rig, t.radio)
          /\ Answers(t, newest)
          /\ t.rig.requested.online => t.rig.failed = s.rig.failed
        BY <2>1 DEF Released, Sound, Answers
    <2>6. AtRest(s) /\ n > 1 /\ Asked(s) => Asked(t) /\ (t.radio.ptt => want.ptt)
        BY <2>4 DEF Asked
    <2>7. AtRest(s) /\ n > 1 => ~t.radio.ptt
        BY <2>4
    <2>. QED
        BY <1>1, <2>2, <2>4, <2>5, <2>6, <2>7, Zenon DEF t
<1>9. CASE ~v.threw
    <2>1. /\ t \in Handlings /\ t.radio = v.radio
          /\ SameObject(t.rig, v.rig) /\ t.rig.actual = v.rig.actual
          /\ t.rig.newest = newest /\ t.rig.last = t.rig.actual
          /\ t.out = Append(v.out, Emitted(t.rig))
          /\ Steady(v.rig, v.radio) => Steady(t.rig, t.radio)
        BY <1>7, <1>9, FinishReleases
    <2>. HIDE DEF t
    <2>2. ASSUME AtRest(s), n > 1
          PROVE  AtRest(t) /\ Obeys(t, s, want)
        <3>1. s.rig.failed \in BOOLEAN
            BY DEF Handlings, Rig
        <3>. QED
            BY <1>7, <1>9, <2>1, <2>2, <3>1 DEF AtRest, Obeys, SameObject, Knows, Dialled
    <2>3. t.rig.requested.online /\ t.rig.failed = s.rig.failed
        BY <1>7, <1>9, <2>1 DEF SameObject
    <2>4. Sound(s.rig, s.radio) => Sound(t.rig, t.radio)
        BY <1>7, <1>9, <2>1, <2>3 DEF Sound, Calm
    <2>5. Answers(t, newest)
        <3>1. v.out \in Seq(Signal) /\ Emitted(t.rig) \in Signal
            BY <1>7, <2>1, EmittedIsSignal DEF Handlings
        <3>. QED
            BY <2>1, <2>3, <3>1, AppendIsLast DEF Answers
    <2>6. ASSUME AtRest(s), n > 1, Asked(s)
          PROVE  Asked(t) /\ (t.radio.ptt => want.ptt)
        <3>1. t.radio = v.radio /\ t.rig.requested.ptt = t.radio.ptt
            BY <1>7, <1>9, <2>1, <2>6 DEF AtRest, Knows, SameObject
        <3>2. /\ s.radio.ptt \in BOOLEAN /\ s.rig.requested.ptt \in BOOLEAN
              /\ want.ptt \in BOOLEAN /\ v.radio.ptt \in BOOLEAN
            BY <1>7 DEF Handlings, Rig, Radio, State
        <3>. QED
            BY <1>7, <1>9, <2>6, <3>1, <3>2 DEF Asked
    <2>7. ASSUME AtRest(s), n > 1, t.radio.ptt, ~s.radio.ptt, ~s.rig.failed,
                 s.rig.actual.freq = s.radio.freq, Wanted(want).freq # 0
          PROVE  want.ptt /\ KeysOn(t.radio, s.radio, Wanted(want))
        <3>1. /\ s.radio.ptt = FALSE /\ s.rig.actual.ptt = FALSE
              /\ s.rig.requested.ptt = FALSE /\ want.ptt \in BOOLEAN
            BY <2>7 DEF AtRest, Knows, Handlings, Radio, State
        <3>2. want.ptt
            BY <1>7, <1>9, <2>1, <2>7, <3>1
        <3>3. PttOn(u, e)
            BY <1>2, <1>6, <3>1, <3>2 DEF PttOn
        <3>4. u.rig.requested.freq = u.radio.freq /\ Dialled(s.rig)
            BY <1>6, <1>7, <1>9, <2>7, <3>1 DEF AtRest
        <3>5. KeysOn(v.radio, u.radio, e)
            BY <1>7, <1>9, <2>7, <3>3, <3>4 DEF e
        <3>. QED
            BY <1>6, <2>1, <3>2, <3>5 DEF e
    <2>8. AtRest(s) /\ n > 1 /\ t.radio.ptt /\ ~s.radio.ptt /\ ~s.rig.failed
          /\ s.rig.actual.freq = s.radio.freq /\ Wanted(want).freq # 0 =>
            want.ptt /\ KeysOn(t.radio, s.radio, Wanted(want))
        BY <2>7
    <2>. QED
        BY <1>1, <2>1, <2>2, <2>3, <2>4, <2>5, <2>6, <2>8, Zenon DEF t
<1>. QED
    BY <1>8, <1>9

(* start leaves the object at rest if the radio does not transmit.         *)
LEMMA StartIsAtRest ==
    ASSUME NEW s \in Handlings, NEW newest \in BOOLEAN, NEW n \in Nat
    PROVE  LET t == Start(s, newest, n) IN
           /\ t \in Handlings
           /\ ~s.radio.ptt => AtRest(t) /\ ~t.radio.ptt
           /\ Sound(t.rig, t.radio)
           /\ Answers(t, newest)
           /\ t.rig.requested.online => ~t.rig.failed
<1>. DEFINE y == [s EXCEPT !.rig = NewRig]
            u == Startup(y)
            t == Finish(u, newest, n)
<1>1. y \in Handlings /\ y.rig = NewRig /\ y.radio = s.radio
    BY NewRigTyped DEF Handlings
<1>2. /\ NewRig.requested.ptt = FALSE /\ NewRig.requested.online = FALSE
      /\ NewRig.actual.ptt = FALSE /\ NewRig.failed = FALSE
      /\ Blank(NewRig) /\ Dialled(NewRig)
    BY DEF NewRig, Unknown, Blank, Dialled
<1>. HIDE DEF y
<1>3. /\ u \in Handlings /\ u.radio = s.radio
      /\ u.rig.requested.ptt = FALSE
      /\ IF u.threw THEN u.rig = NewRig ELSE Knows(u) /\ u.rig.requested.online
      /\ Calm(u) /\ u.rig.failed = FALSE
      /\ Dialled(u.rig)
    BY <1>1, <1>2, StartupReads
<1>4. Start(s, newest, n) = t
    BY Zenon DEF Start, y
<1>. HIDE DEF u
<1>5. IF u.threw THEN Released(t, u, n)
      ELSE /\ t \in Handlings /\ t.radio = u.radio
           /\ SameObject(t.rig, u.rig) /\ t.rig.actual = u.rig.actual
           /\ t.rig.newest = newest /\ t.rig.last = t.rig.actual
           /\ t.out = Append(u.out, Emitted(t.rig))
           /\ Steady(u.rig, u.radio) => Steady(t.rig, t.radio)
    BY <1>3, FinishReleases
<1>. HIDE DEF t
<1>6. t \in Handlings
    BY <1>5 DEF Released
<1>7. t.radio = s.radio
    BY <1>2, <1>3, <1>5 DEF Released
<1>8. ASSUME ~s.radio.ptt
      PROVE  AtRest(t) /\ ~t.radio.ptt
    <2>1. s.radio.ptt = FALSE
        BY <1>8 DEF Handlings, Radio
    <2>2. CASE u.threw
        BY <1>2, <1>3, <1>5, <1>6, <1>7, <2>1, <2>2 DEF Released, AtRest, Knows
    <2>3. CASE ~u.threw
        BY <1>3, <1>5, <1>6, <1>7, <2>1, <2>3 DEF SameObject, AtRest, Knows, Dialled
    <2>. QED
        BY <2>2, <2>3
<1>9. /\ Sound(t.rig, t.radio) /\ Answers(t, newest)
      /\ t.rig.requested.online => ~t.rig.failed
    <2>1. CASE u.threw
        BY <1>5, <2>1 DEF Released, Sound, Answers
    <2>2. CASE ~u.threw
        <3>1. u.out \in Seq(Signal) /\ Emitted(t.rig) \in Signal
            BY <1>3, <1>6, EmittedIsSignal DEF Handlings
        <3>2. t.rig.requested.online
            BY <1>3, <1>5, <2>2 DEF SameObject
        <3>. QED
            BY <1>3, <1>5, <2>2, <3>1, <3>2, AppendIsLast
            DEF Sound, Answers, Calm, SameObject
    <2>. QED
        BY <2>1, <2>2
<1>. QED
    BY <1>4, <1>6, <1>8, <1>9, Zenon

(* A poll emits nothing, or the state that the object is in.               *)
Polled(t, s) ==
    /\ t.rig.newest = s.rig.newest
    /\ \/ t.out = s.out /\ t.rig.last = s.rig.last /\ t.rig.wanted = s.rig.wanted
       \/ /\ t.out # << >> /\ t.out[Len(t.out)] = Emitted(t.rig)
          /\ t.rig.last = t.rig.actual

(* do_sync only reports: what it no longer waits for, or what has changed. *)
LEMMA SyncReports ==
    ASSUME NEW s \in Handlings
    PROVE  LET t == Sync(s) IN
           /\ t \in Handlings /\ t.radio = s.radio
           /\ SameObject(t.rig, s.rig) /\ t.rig.actual = s.rig.actual
           /\ Polled(t, s)
           /\ t.rig.retries = 0 =>
                \/ /\ t.rig.last = t.rig.actual /\ t.rig.next = t.rig.actual
                   /\ t.rig.signalled = t.rig.actual
                \/ /\ s.rig.retries = 0 /\ s.rig.actual = s.rig.signalled
                   /\ t.rig.next = s.rig.next /\ t.rig.signalled = s.rig.signalled
                   /\ t.rig.last = s.rig.last
<1>. DEFINE left == IF s.rig.retries = 0 THEN 0 ELSE s.rig.retries - 1
            q == [s.rig EXCEPT !.retries = left]
            r == [s.rig EXCEPT !.retries = 0, !.next = s.rig.actual,
                               !.signalled = s.rig.actual]
            u == [s EXCEPT !.rig = q]
            v == [s EXCEPT !.rig = r]
            w == UpdateComplete(v, TRUE)
<1>1. s.rig \in Rig /\ s.out \in Seq(Signal)
    BY DEF Handlings
<1>2. left \in 0 .. PollsToStabilize
    BY <1>1, ParameterAssumption DEF Rig
<1>. DEFINE signals == IF s.rig.retries > 0 THEN s.rig.actual = s.rig.next \/ left = 0
                                            ELSE s.rig.actual # s.rig.signalled
<1>13. Sync(s) = IF ~signals THEN u ELSE w
    BY <1>1 DEF Sync, Handlings
<1>14. left = 0 /\ ~(s.rig.retries = 0 /\ s.rig.actual = s.rig.signalled) => signals
    BY <1>1 DEF Rig
<1>3. /\ Sync(s) = u \/ Sync(s) = w
      /\ left = 0 /\ ~(s.rig.retries = 0 /\ s.rig.actual = s.rig.signalled) => Sync(s) = w
    <2>. HIDE DEF u, w, signals
    <2>. QED
        BY <1>13, <1>14
<1>. HIDE DEF signals
<1>. HIDE DEF left
<1>4. /\ q \in Rig /\ SameObject(q, s.rig) /\ q.actual = s.rig.actual
      /\ q.retries = left /\ q.next = s.rig.next /\ q.signalled = s.rig.signalled
      /\ q.last = s.rig.last /\ q.newest = s.rig.newest /\ q.wanted = s.rig.wanted
    BY <1>1, <1>2 DEF Rig, SameObject
<1>. HIDE DEF q
<1>5. s.rig.actual \in State /\ 0 \in 0 .. PollsToStabilize
    BY <1>1, ParameterAssumption DEF Rig
<1>6. /\ r \in Rig /\ SameObject(r, s.rig) /\ r.actual = s.rig.actual
      /\ r.next = s.rig.actual /\ r.signalled = s.rig.actual
      /\ r.newest = s.rig.newest
    BY <1>1, <1>5 DEF Rig, SameObject
<1>. HIDE DEF r
<1>7. /\ u \in Handlings /\ u.radio = s.radio /\ u.rig = q /\ u.out = s.out
      /\ v \in Handlings /\ v.radio = s.radio /\ v.rig = r /\ v.out = s.out
    BY <1>4, <1>6 DEF Handlings
<1>. HIDE DEF u, v
<1>8. /\ w \in Handlings /\ w.radio = v.radio
      /\ SameObject(w.rig, v.rig) /\ w.rig.actual = v.rig.actual
      /\ SameNews(w.rig, v.rig) /\ w.rig.last = w.rig.actual
      /\ w.out = Append(v.out, Emitted(w.rig))
    BY <1>7, UpdateCompleteEmits
<1>. HIDE DEF w
<1>9. Emitted(w.rig) \in Signal
    BY <1>8, EmittedIsSignal DEF Handlings
<1>10. w.out # << >> /\ w.out[Len(w.out)] = Emitted(w.rig)
    BY <1>1, <1>7, <1>8, <1>9, AppendIsLast
<1>11. CASE Sync(s) = w
    <2>1. Polled(w, s)
        BY <1>6, <1>7, <1>8, <1>10 DEF Polled, SameNews
    <2>2. w.rig.next = w.rig.actual /\ w.rig.signalled = w.rig.actual
        BY <1>6, <1>7, <1>8 DEF SameNews
    <2>. QED
        BY <1>6, <1>7, <1>8, <1>11, <2>1, <2>2 DEF SameObject
<1>12. CASE Sync(s) = u /\ ~(Sync(s) = w)
    <2>1. left = 0 => s.rig.retries = 0 /\ s.rig.actual = s.rig.signalled
        BY <1>3, <1>12
    <2>2. Polled(u, s)
        BY <1>4, <1>7 DEF Polled
    <2>. QED
        BY <1>4, <1>7, <1>12, <2>1, <2>2
<1>. QED
    BY <1>3, <1>11, <1>12

(* A poll finds the radio as it is, or dead.                               *)
LEMMA PollIsAtRest ==
    ASSUME NEW s \in Handlings, NEW n \in Nat
    PROVE  LET t == Poll(s, n) IN
           /\ t \in Handlings
           /\ ~s.rig.requested.online => ~t.rig.requested.online
           /\ AtRest(s) /\ s.rig.polling /\ n > 1 =>
                /\ AtRest(t)
                /\ \/ t.radio = s.radio /\ t.rig.failed = s.rig.failed
                   \/ ~t.radio.ptt /\ t.rig.failed
           /\ AtRest(s) /\ s.rig.polling /\ n > 1 /\ Asked(s) => Asked(t)
           /\ s.rig.requested.online /\ Sound(s.rig, s.radio) => Sound(t.rig, t.radio)
           /\ IF t.rig.requested.online
              THEN Polled(t, s) /\ t.rig.failed = s.rig.failed
              ELSE s.rig.requested.online => t.rig.failed /\ HasFailure(t.out)
<1>. DEFINE u == Read(s)
            t == Poll(s, n)
<1>1. /\ Continues(u, s) /\ u.radio = s.radio
      /\ u.rig.requested.ptt = s.rig.requested.ptt
      /\ IF u.threw THEN u.rig = s.rig ELSE Knows(u)
      /\ ~u.threw => SameNews(u.rig, s.rig) /\ u.rig.last = s.rig.last
      /\ ~u.threw /\ SplitAgrees(s.rig, s.radio) => SplitAgrees(u.rig, u.radio)
      /\ Dialled(s.rig) => Dialled(u.rig)
    BY ReadKnows
<1>2. t = IF u.threw THEN Offline(u, n) ELSE Sync(u)
    BY Zenon DEF Poll
<1>3. u \in Handlings
    BY <1>1 DEF Continues
<1>. HIDE DEF u, t
<1>4. CASE u.threw
    <2>1. Released(t, u, n)
        BY <1>2, <1>3, <1>4, OfflineReleases
    <2>2. t \in Handlings /\ t.radio.ptt \in BOOLEAN
        BY <2>1 DEF Released, Handlings, Radio
    <2>3. ASSUME AtRest(s), s.rig.polling, n > 1
          PROVE  AtRest(t) /\ ~t.radio.ptt /\ t.rig.failed
        BY <1>1, <1>4, <2>1, <2>2, <2>3 DEF Released, AtRest, Knows
    <2>4. /\ Sound(t.rig, t.radio)
          /\ ~t.rig.requested.online /\ t.rig.failed /\ HasFailure(t.out)
        BY <2>1 DEF Released, Sound
    <2>. QED
        BY <2>1, <2>2, <2>3, <2>4 DEF t, Released, Asked
<1>5. CASE ~u.threw
    <2>1. /\ t \in Handlings /\ t.radio = u.radio
          /\ SameObject(t.rig, u.rig) /\ t.rig.actual = u.rig.actual
          /\ Polled(t, u)
          /\ t.rig.retries = 0 =>
                \/ /\ t.rig.last = t.rig.actual /\ t.rig.next = t.rig.actual
                   /\ t.rig.signalled = t.rig.actual
                \/ /\ u.rig.retries = 0 /\ u.rig.actual = u.rig.signalled
                   /\ t.rig.next = u.rig.next /\ t.rig.signalled = u.rig.signalled
                   /\ t.rig.last = u.rig.last
        BY <1>2, <1>3, <1>5, SyncReports
    <2>2. ASSUME AtRest(s)
          PROVE  AtRest(t) /\ t.rig.failed = s.rig.failed
        BY <1>1, <1>5, <2>1, <2>2 DEF AtRest, Continues, SameObject, Knows, Dialled
    <2>3. Polled(t, s)
        BY <1>1, <1>5, <2>1 DEF Polled, SameNews, Continues
    <2>4. /\ t.rig.failed = s.rig.failed
          /\ t.rig.requested.online = s.rig.requested.online
        BY <1>1, <1>5, <2>1 DEF SameObject, Continues
    <2>5. ASSUME s.rig.requested.online, Sound(s.rig, s.radio)
          PROVE  Sound(t.rig, t.radio)
        <3>. SUFFICES ASSUME ~t.rig.failed
                      PROVE  /\ Steady(t.rig, t.radio)
                             /\ t.rig.retries = 0 => t.rig.last = t.rig.actual
            BY <2>4, <2>5 DEF Sound
        <3>1. Steady(s.rig, s.radio) /\ (s.rig.retries = 0 => s.rig.last = s.rig.actual)
            BY <2>4, <2>5 DEF Sound
        <3>2. SplitAgrees(t.rig, t.radio)
            BY <1>1, <1>5, <2>1, <3>1 DEF Steady, SplitAgrees, SameObject
        <3>3. ASSUME t.rig.retries = 0
              PROVE  /\ t.rig.actual = t.rig.next /\ t.rig.next = t.rig.signalled
                     /\ t.rig.last = t.rig.actual
            BY <1>1, <1>5, <2>1, <3>1, <3>3 DEF Steady, SameNews
        <3>. QED
            BY <3>2, <3>3 DEF Steady
    <2>6. Asked(s) => Asked(t)
        BY <1>1, <1>5, <2>1 DEF Asked, SameObject
    <2>. QED
        BY <1>1, <2>1, <2>2, <2>3, <2>4, <2>5, <2>6 DEF t, SameObject, Continues
<1>. QED
    BY <1>4, <1>5

-----------------------------------------------------------------------------
(* The commands on their way.  fresh: the object is offline before them.   *)

(* An object is started only when it is offline: at first, or after a stop. *)
Reset(q, fresh) ==
    \A i \in DOMAIN q :
        q[i].do = "start" => IF i = 1 THEN fresh ELSE q[i - 1].do = "stop"

(* And offline after them.                                                 *)
Closed(q, fresh) == IF q = << >> THEN fresh ELSE q[Len(q)].do = "stop"

Orderly(g, fresh) == Reset(g.sent, fresh) /\ (~g.active => Closed(g.sent, fresh))

(* Numbers are not all there is to a command.                              *)
LEMMA OutdatedKeeps ==
    ASSUME NEW q \in Seq(Command)
    PROVE  /\ Outdated(q) \in Seq(Command) /\ Len(Outdated(q)) = Len(q)
           /\ \A i \in 1 .. Len(q) : /\ Outdated(q)[i].do = q[i].do
                                     /\ Outdated(q)[i].state = q[i].state
<1>1. \A i \in 1 .. Len(q) : /\ [q[i] EXCEPT !.newest = FALSE] \in Command
                             /\ [q[i] EXCEPT !.newest = FALSE].do = q[i].do
                             /\ [q[i] EXCEPT !.newest = FALSE].state = q[i].state
    <2>. SUFFICES ASSUME NEW i \in 1 .. Len(q)
                  PROVE  /\ [q[i] EXCEPT !.newest = FALSE] \in Command
                         /\ [q[i] EXCEPT !.newest = FALSE].do = q[i].do
                         /\ [q[i] EXCEPT !.newest = FALSE].state = q[i].state
        OBVIOUS
    <2>1. q[i] \in Command
        BY ElementOfSeq
    <2>. QED
        BY <2>1 DEF Command
<1>. DEFINE e(i) == [q[i] EXCEPT !.newest = FALSE]
<1>2. Outdated(q) = [i \in 1 .. Len(q) |-> e(i)]
    BY DEF Outdated
<1>3. \A i \in 1 .. Len(q) : e(i) \in Command /\ e(i).do = q[i].do /\ e(i).state = q[i].state
    BY <1>1
<1>. HIDE DEF e
<1>. QED
    BY <1>2, <1>3

LEMMA OutdatedSignals ==
    ASSUME NEW q \in Seq(Signal)
    PROVE  Outdated(q) \in Seq(Signal)
<1>1. \A i \in 1 .. Len(q) : [q[i] EXCEPT !.newest = FALSE] \in Signal
    <2>. SUFFICES ASSUME NEW i \in 1 .. Len(q)
                  PROVE  [q[i] EXCEPT !.newest = FALSE] \in Signal
        OBVIOUS
    <2>1. q[i] \in Signal
        BY ElementOfSeq
    <2>. QED
        BY <2>1 DEF Signal
<1>. DEFINE e(i) == [q[i] EXCEPT !.newest = FALSE]
<1>2. Outdated(q) = [i \in 1 .. Len(q) |-> e(i)]
    BY DEF Outdated
<1>3. \A i \in 1 .. Len(q) : e(i) \in Signal
    BY <1>1
<1>. HIDE DEF e
<1>. QED
    BY <1>2, <1>3

LEMMA OutdatedOrders ==
    ASSUME NEW q \in Seq(Command), NEW fresh \in BOOLEAN
    PROVE  /\ Reset(q, fresh) => Reset(Outdated(q), fresh)
           /\ Closed(q, fresh) => Closed(Outdated(q), fresh)
<1>1. /\ Outdated(q) \in Seq(Command) /\ Len(Outdated(q)) = Len(q)
      /\ \A i \in 1 .. Len(q) : Outdated(q)[i].do = q[i].do
    BY OutdatedKeeps
<1>2. Reset(q, fresh) => Reset(Outdated(q), fresh)
    BY <1>1 DEF Reset
<1>3. CASE q = << >>
    BY <1>1, <1>2, <1>3, EmptySeq DEF Closed
<1>4. CASE q # << >>
    <2>1. Len(q) \in 1 .. Len(q) /\ Outdated(q) # << >>
        BY <1>1, <1>4
    <2>. QED
        BY <1>1, <1>2, <1>4, <2>1 DEF Closed
<1>. QED
    BY <1>3, <1>4

LEMMA AppendOrders ==
    ASSUME NEW q \in Seq(Command), NEW c \in Command, NEW fresh \in BOOLEAN,
           Reset(q, fresh), c.do = "start" => Closed(q, fresh)
    PROVE  /\ Append(q, c) \in Seq(Command)
           /\ Reset(Append(q, c), fresh)
           /\ c.do = "stop" => Closed(Append(q, c), fresh)
<1>. DEFINE a == Append(q, c)
<1>1. /\ a \in Seq(Command) /\ Len(a) = Len(q) + 1 /\ a # << >>
      /\ \A i \in 1 .. Len(q) : a[i] = q[i]
      /\ a[Len(q) + 1] = c
    BY AppendProperties
<1>. HIDE DEF a
<1>2. Reset(a, fresh)
    <2>. SUFFICES ASSUME NEW i \in 1 .. Len(a), a[i].do = "start"
                  PROVE  IF i = 1 THEN fresh ELSE a[i - 1].do = "stop"
        BY <1>1 DEF Reset
    <2>1. CASE i \in 1 .. Len(q)
        <3>1. IF i = 1 THEN fresh ELSE q[i - 1].do = "stop"
            BY <1>1, <2>1 DEF Reset
        <3>2. i # 1 => i - 1 \in 1 .. Len(q)
            BY <2>1
        <3>. QED
            BY <1>1, <3>1, <3>2
    <2>2. CASE i = Len(q) + 1
        <3>1. Closed(q, fresh)
            BY <1>1, <2>2
        <3>2. CASE q = << >>
            BY <2>2, <3>1, <3>2 DEF Closed
        <3>3. CASE q # << >>
            <4>1. Len(q) \in 1 .. Len(q)
                BY <3>3
            <4>. QED
                BY <1>1, <2>2, <3>1, <3>3, <4>1 DEF Closed
        <3>. QED
            BY <3>2, <3>3
    <2>. QED
        BY <1>1, <2>1, <2>2
<1>. QED
    BY <1>1, <1>2 DEF a, Closed

LEMMA ConcatOrders ==
    ASSUME NEW p \in Seq(Command), NEW q \in Seq(Command), NEW fresh \in BOOLEAN,
           Reset(p, fresh), Reset(q, Closed(p, fresh))
    PROVE  /\ Reset(p \o q, fresh)
           /\ Closed(q, Closed(p, fresh)) => Closed(p \o q, fresh)
<1>. DEFINE a == p \o q
<1>1. /\ a \in Seq(Command) /\ Len(a) = Len(p) + Len(q)
      /\ \A i \in 1 .. Len(a) : a[i] = IF i =< Len(p) THEN p[i] ELSE q[i - Len(p)]
    BY ConcatProperties
<1>2. p = << >> => a = q
    BY ConcatEmptySeq
<1>3. q = << >> => a = p
    BY ConcatEmptySeq
<1>. HIDE DEF a
<1>4. ASSUME NEW i \in 1 .. Len(a), a[i].do = "start"
      PROVE  IF i = 1 THEN fresh ELSE a[i - 1].do = "stop"
    <2>1. CASE i =< Len(p)
        <3>1. i \in DOMAIN p /\ p[i].do = "start"
            BY <1>1, <1>4, <2>1
        <3>2. IF i = 1 THEN fresh ELSE p[i - 1].do = "stop"
            BY <3>1, Zenon DEF Reset
        <3>3. i # 1 => i - 1 \in 1 .. Len(a) /\ i - 1 =< Len(p)
            BY <1>1, <2>1
        <3>. QED
            BY <1>1, <3>2, <3>3
    <2>2. CASE i = Len(p) + 1
        <3>1. Closed(p, fresh)
            <4>1. 1 \in 1 .. Len(q) /\ q[1].do = "start"
                BY <1>1, <1>4, <2>2
            <4>. QED
                BY <4>1 DEF Reset
        <3>2. CASE p = << >>
            BY <2>2, <3>1, <3>2 DEF Closed
        <3>3. CASE p # << >>
            <4>1. i # 1 /\ i - 1 = Len(p) /\ Len(p) \in 1 .. Len(a)
                BY <1>1, <2>2, <3>3
            <4>. QED
                BY <1>1, <3>1, <3>3, <4>1 DEF Closed
        <3>. QED
            BY <3>2, <3>3
    <2>3. CASE i > Len(p) + 1
        <3>. DEFINE j == i - Len(p)
        <3>1. j \in DOMAIN q /\ j # 1 /\ q[j].do = "start"
            BY <1>1, <1>4, <2>3
        <3>2. q[j - 1].do = "stop"
            BY <3>1, Zenon DEF Reset
        <3>3. i # 1 /\ i - 1 \in 1 .. Len(a) /\ ~(i - 1 =< Len(p)) /\ (i - 1) - Len(p) = j - 1
            BY <2>3
        <3>. QED
            BY <1>1, <3>2, <3>3
    <2>. QED
        BY <2>1, <2>2, <2>3
<1>5. Reset(a, fresh)
    BY <1>1, <1>4 DEF Reset
<1>6. Closed(q, Closed(p, fresh)) => Closed(a, fresh)
    <2>1. CASE q = << >>
        BY <1>3, <2>1 DEF Closed
    <2>2. CASE q # << >>
        <3>1. Len(a) \in 1 .. Len(a) /\ ~(Len(a) =< Len(p)) /\ Len(a) - Len(p) = Len(q)
            BY <1>1, <2>2
        <3>. QED
            BY <1>1, <2>2, <3>1 DEF Closed
    <2>. QED
        BY <2>1, <2>2
<1>. QED
    BY <1>5, <1>6 DEF a

LEMMA TailOrders ==
    ASSUME NEW q \in Seq(Command), q # << >>, NEW fresh \in BOOLEAN, NEW fresher \in BOOLEAN,
           Head(q).do = "stop" => fresher
    PROVE  /\ Tail(q) \in Seq(Command)
           /\ Reset(q, fresh) => Reset(Tail(q), fresher)
           /\ Closed(q, fresh) => Closed(Tail(q), fresher)
<1>. DEFINE t == Tail(q)
<1>1. /\ t \in Seq(Command) /\ Len(t) = Len(q) - 1 /\ Len(q) > 0
      /\ \A i \in 1 .. Len(t) : t[i] = q[i + 1]
      /\ Head(q) = q[1]
    BY HeadTailProperties
<1>. HIDE DEF t
<1>2. ASSUME Reset(q, fresh) PROVE Reset(t, fresher)
    <2>. SUFFICES ASSUME NEW i \in 1 .. Len(t), t[i].do = "start"
                  PROVE  IF i = 1 THEN fresher ELSE t[i - 1].do = "stop"
        BY <1>1 DEF Reset
    <2>1. q[(i + 1) - 1].do = "stop"
        BY <1>1, <1>2 DEF Reset
    <2>2. (i + 1) - 1 = i /\ (i # 1 => i - 1 \in 1 .. Len(t) /\ (i - 1) + 1 = i)
        OBVIOUS
    <2>. QED
        BY <1>1, <2>1, <2>2
<1>3. ASSUME Closed(q, fresh) PROVE Closed(t, fresher)
    <2>1. q[Len(q)].do = "stop"
        BY <1>3 DEF Closed
    <2>2. CASE t = << >>
        <3>1. Len(q) = 1
            BY <1>1, <2>2
        <3>. QED
            BY <1>1, <2>1, <2>2, <3>1 DEF Closed
    <2>3. CASE t # << >>
        <3>1. Len(t) \in 1 .. Len(t) /\ Len(t) + 1 = Len(q)
            BY <1>1, <2>3
        <3>. QED
            BY <1>1, <2>1, <2>3, <3>1 DEF Closed
    <2>. QED
        BY <2>2, <2>3
<1>. QED
    BY <1>1, <1>2, <1>3 DEF t

-----------------------------------------------------------------------------
(* The GUI thread.                                                         *)

(* A handler at work, whose commands are in order.                         *)
Sending(g, fresh) == g \in GUI /\ Orderly(g, fresh)

LEMMA SameCommands ==
    ASSUME NEW g, NEW fresh, Sending(g, fresh),
           NEW h \in GUI, h.sent = g.sent, h.active = g.active
    PROVE  Sending(h, fresh)
BY DEF Sending, Orderly

(* A command that is sent is in order if a start follows a stop.           *)
LEMMA SendOrders ==
    ASSUME NEW g \in GUI, NEW do \in {"start", "set"}, NEW fresh \in BOOLEAN,
           Orderly(g, fresh), g.active /\ do = "start" => Closed(g.sent, fresh)
    PROVE  Sending(Send(g, do), fresh)
<1>. DEFINE c == [do |-> do, state |-> g.cached, newest |-> TRUE]
            o == Outdated(g.sent)
            q == IF g.active THEN Append(o, c) ELSE o
            h == [g EXCEPT !.issued = TRUE, !.sent = q]
<1>1. c \in Command /\ c.do = do /\ g.sent \in Seq(Command)
    BY DEF GUI, Command
<1>2. Send(g, do) = h
    BY DEF Send, GUI
<1>. HIDE DEF c
<1>3. o \in Seq(Command) /\ Reset(o, fresh) /\ (Closed(g.sent, fresh) => Closed(o, fresh))
    BY <1>1, OutdatedKeeps, OutdatedOrders DEF Orderly
<1>. HIDE DEF o
<1>4. g.active => Append(o, c) \in Seq(Command) /\ Reset(Append(o, c), fresh)
    BY <1>1, <1>3, AppendOrders
<1>5. q \in Seq(Command) /\ Reset(q, fresh) /\ (~g.active => q = o)
    BY <1>3, <1>4
<1>. HIDE DEF q
<1>6. h \in GUI /\ h.sent = q /\ h.active = g.active
    BY <1>5 DEF GUI
<1>. HIDE DEF h
<1>. QED
    BY <1>2, <1>3, <1>5, <1>6 DEF Sending, Orderly

LEMMA CloseRigOrders ==
    ASSUME NEW g, NEW fresh \in BOOLEAN, Sending(g, fresh)
    PROVE  /\ Sending(CloseRig(g), fresh)
           /\ ~CloseRig(g).active /\ Closed(CloseRig(g).sent, fresh)
<1>1. CASE ~g.active
    BY <1>1 DEF CloseRig, Sending, Orderly
<1>2. CASE g.active
    <2>. DEFINE c == [do |-> "stop", state |-> Unknown, newest |-> FALSE]
                q == Append(g.sent, c)
                h == [g EXCEPT !.active = FALSE, !.sent = q]
    <2>1. c \in Command /\ c.do = "stop" /\ g.sent \in Seq(Command)
        BY UnknownState DEF GUI, Command, Sending
    <2>2. CloseRig(g) = h
        BY <1>2 DEF CloseRig, Sending, GUI
    <2>. HIDE DEF c
    <2>3. q \in Seq(Command) /\ Reset(q, fresh) /\ Closed(q, fresh)
        BY <2>1, AppendOrders DEF Sending, Orderly
    <2>. HIDE DEF q
    <2>4. h \in GUI /\ h.sent = q /\ h.active = FALSE
        BY <2>3 DEF GUI, Sending
    <2>. HIDE DEF h
    <2>. QED
        BY <2>2, <2>3, <2>4 DEF Sending, Orderly
<1>. QED
    BY <1>1, <1>2

LEMMA OpenRigOrders ==
    ASSUME NEW g, NEW fresh \in BOOLEAN, Sending(g, fresh), NEW force \in BOOLEAN
    PROVE  Sending(OpenRig(g, force), fresh)
<1>. DEFINE h == CloseRig(g)
            i == [h EXCEPT !.active = TRUE, !.cached = Unknown]
<1>1. OpenRig(g, force) = g \/ OpenRig(g, force) = Send(i, "start")
    BY DEF OpenRig
<1>2. Sending(h, fresh) /\ Closed(h.sent, fresh)
    BY CloseRigOrders
<1>. HIDE DEF h
<1>3. i \in GUI /\ i.sent = h.sent /\ i.active
    BY <1>2, UnknownState DEF Sending, GUI
<1>. HIDE DEF i
<1>4. Sending(Send(i, "start"), fresh)
    BY <1>2, <1>3, SendOrders DEF Sending, Orderly
<1>. QED
    BY <1>1, <1>4

(* A command to set the radio, after a change of the cache.                *)
LEMMA CachedOrders ==
    ASSUME NEW g, NEW fresh \in BOOLEAN, Sending(g, fresh), NEW c \in State
    PROVE  Sending(Send([g EXCEPT !.cached = c], "set"), fresh)
<1>. DEFINE h == [g EXCEPT !.cached = c]
<1>1. h \in GUI /\ h.sent = g.sent /\ h.active = g.active
    BY DEF Sending, GUI
<1>. HIDE DEF h
<1>2. Sending(h, fresh)
    BY <1>1, SameCommands
<1>. QED
    BY <1>2, SendOrders DEF Sending, h

LEMMA TransceiverFrequencyOrders ==
    ASSUME NEW g, NEW fresh \in BOOLEAN, Sending(g, fresh), NEW f \in Int
    PROVE  Sending(TransceiverFrequency(g, f), fresh)
<1>. DEFINE c == [g.cached EXCEPT !.online = TRUE, !.freq = f]
<1>1. c \in State
    BY DEF Sending, GUI, State
<1>2. [g EXCEPT !.cached.online = TRUE, !.cached.freq = f] = [g EXCEPT !.cached = c]
    BY DEF Sending, GUI
<1>. HIDE DEF c
<1>. QED
    BY <1>1, <1>2, CachedOrders DEF TransceiverFrequency

LEMMA TransceiverTxFrequencyOrders ==
    ASSUME NEW g, NEW fresh \in BOOLEAN, Sending(g, fresh), NEW f \in Int
    PROVE  Sending(TransceiverTxFrequency(g, f), fresh)
<1>. DEFINE c == [g.cached EXCEPT !.online = TRUE, !.tx = f, !.split = SplitIs(f # 0)]
<1>1. c \in State
    BY DEF Sending, GUI, State, SplitIs
<1>2. [g EXCEPT !.cached.online = TRUE, !.cached.tx = f, !.cached.split = SplitIs(f # 0)]
        = [g EXCEPT !.cached = c]
    BY DEF Sending, GUI
<1>. HIDE DEF c
<1>. QED
    BY <1>1, <1>2, CachedOrders DEF TransceiverTxFrequency

LEMMA TransceiverPttOrders ==
    ASSUME NEW g, NEW fresh \in BOOLEAN, Sending(g, fresh), NEW b \in BOOLEAN
    PROVE  Sending(TransceiverPtt(g, b), fresh)
<1>. DEFINE c == [g.cached EXCEPT !.online = TRUE, !.ptt = b]
<1>1. c \in State
    BY DEF Sending, GUI, State
<1>2. [g EXCEPT !.cached.online = TRUE, !.cached.ptt = b] = [g EXCEPT !.cached = c]
    BY DEF Sending, GUI
<1>. HIDE DEF c
<1>. QED
    BY <1>1, <1>2, CachedOrders DEF TransceiverPtt

LEMMA SetRigOrders ==
    ASSUME NEW g, NEW fresh \in BOOLEAN, Sending(g, fresh)
    PROVE  Sending(SetRig(g), fresh)
<1>. DEFINE h == OpenRig(g, FALSE)
            i == TransceiverTxFrequency(h, h.txNominal)
<1>1. Sending(h, fresh)
    BY OpenRigOrders
<1>2. SetRig(g) = g \/ SetRig(g) = TransceiverFrequency(i, h.nominal)
    BY DEF SetRig
<1>. HIDE DEF h
<1>3. h.txNominal \in Int /\ h.nominal \in Int
    BY <1>1 DEF Sending, GUI
<1>4. Sending(i, fresh)
    BY <1>1, <1>3, TransceiverTxFrequencyOrders
<1>. HIDE DEF i
<1>. QED
    BY <1>2, <1>3, <1>4, TransceiverFrequencyOrders

LEMMA TxOfType ==
    ASSUME NEW f \in Int
    PROVE  TxOf(f) \in Int
BY FrequencyAssumption DEF TxOf

LEMMA NominalOrders ==
    ASSUME NEW g, NEW fresh \in BOOLEAN, Sending(g, fresh), NEW f \in Int
    PROVE  Sending(Nominal(g, f), fresh)
<1>. DEFINE n == IF splitMode = "none" THEN f ELSE TxOf(f)
            h == [g EXCEPT !.nominal = f, !.txNominal = n]
<1>1. n \in Int
    BY TxOfType
<1>2. Nominal(g, f) = h
    BY DEF Nominal
<1>. HIDE DEF n
<1>3. h \in GUI /\ h.sent = g.sent /\ h.active = g.active
    BY <1>1 DEF Sending, GUI
<1>. HIDE DEF h
<1>. QED
    BY <1>2, <1>3, SameCommands

LEMMA SetXitOrders ==
    ASSUME NEW g, NEW fresh \in BOOLEAN, Sending(g, fresh)
    PROVE  Sending(SetXit(g), fresh)
<1>. DEFINE n == TxOf(g.nominal)
            h == [g EXCEPT !.txNominal = n]
<1>1. n \in Int
    BY TxOfType DEF Sending, GUI
<1>2. SetXit(g) = g \/ SetXit(g) = TransceiverTxFrequency(h, h.txNominal)
    BY DEF SetXit
<1>. HIDE DEF n
<1>3. h \in GUI /\ h.sent = g.sent /\ h.active = g.active /\ h.txNominal = n
    BY <1>1 DEF Sending, GUI
<1>. HIDE DEF h
<1>4. Sending(h, fresh)
    BY <1>3, SameCommands
<1>. QED
    BY <1>1, <1>2, <1>3, <1>4, TransceiverTxFrequencyOrders

LEMMA FollowRigKeeps ==
    ASSUME NEW g \in GUI, NEW s \in State
    PROVE  LET h == FollowRig(g, s) IN
           /\ h \in GUI /\ h.sent = g.sent /\ h.active = g.active
           /\ h.issued = g.issued /\ h.cached = g.cached
           /\ h.tx = g.tx /\ h.reported = s
<1>. DEFINE t(n, x) == [g EXCEPT !.reported = s, !.nominal = n, !.txNominal = x]
<1>1. g.nominal \in Int /\ g.txNominal \in Int /\ s.freq \in Int /\ s.tx \in Int
    BY DEF GUI, State
<1>2. \E n \in Int, x \in Int : FollowRig(g, s) = t(n, x)
    <2>1. FollowRig(g, s) \in
            {[g EXCEPT !.reported = s, !.nominal = IF g.nominal = 0 THEN s.freq ELSE g.nominal],
             [g EXCEPT !.reported = s, !.nominal = IF g.nominal = 0 THEN s.freq ELSE g.nominal,
                       !.txNominal = IF s.split = "on" THEN s.tx ELSE s.freq],
             [g EXCEPT !.reported = s, !.nominal = s.freq,
                       !.txNominal = IF g.nominal = s.freq THEN @ ELSE s.freq]}
        BY Zenon DEF FollowRig
    <2>2. [g EXCEPT !.reported = s, !.nominal = IF g.nominal = 0 THEN s.freq ELSE g.nominal]
            = t(IF g.nominal = 0 THEN s.freq ELSE g.nominal, g.txNominal)
        BY DEF GUI
    <2>3. [g EXCEPT !.reported = s, !.nominal = s.freq,
                    !.txNominal = IF g.nominal = s.freq THEN @ ELSE s.freq]
            = t(s.freq, IF g.nominal = s.freq THEN g.txNominal ELSE s.freq)
        BY DEF GUI
    <2>. QED
        BY <1>1, <2>1, <2>2, <2>3
<1>3. ASSUME NEW n \in Int, NEW x \in Int
      PROVE  /\ t(n, x) \in GUI /\ t(n, x).sent = g.sent /\ t(n, x).active = g.active
             /\ t(n, x).issued = g.issued /\ t(n, x).cached = g.cached
             /\ t(n, x).tx = g.tx /\ t(n, x).reported = s
    BY <1>1 DEF GUI
<1>. HIDE DEF t
<1>. QED
    BY <1>2, <1>3

LEMMA FollowRigOrders ==
    ASSUME NEW g, NEW fresh \in BOOLEAN, Sending(g, fresh), NEW s \in State
    PROVE  Sending(FollowRig(g, s), fresh)
BY FollowRigKeeps, SameCommands DEF Sending

LEMMA FollowUpdateOrders ==
    ASSUME NEW g, NEW fresh \in BOOLEAN, Sending(g, fresh), NEW u \in Signal
    PROVE  Sending(FollowUpdate(g, u), fresh)
<1>. DEFINE s == u.state
            c == [s EXCEPT !.split = SplitIs(@ = "on"), !.tx = g.cached.tx, !.ptt = g.cached.ptt]
            h == [g EXCEPT !.cached = c]
            i == IF s.online THEN h ELSE CloseRig(h)
<1>1. s \in State
    BY DEF Signal
<1>2. FollowUpdate(g, u) = IF u.newest THEN FollowRig(i, s) ELSE i
    BY Zenon DEF FollowUpdate, Follow
<1>3. c \in State
    BY <1>1 DEF Sending, GUI, State, SplitIs
<1>. HIDE DEF c, s
<1>4. h \in GUI /\ h.sent = g.sent /\ h.active = g.active
    BY <1>3 DEF Sending, GUI
<1>. HIDE DEF h
<1>5. Sending(i, fresh)
    BY <1>4, SameCommands, CloseRigOrders
<1>. HIDE DEF i
<1>. QED
    BY <1>1, <1>2, <1>5, FollowRigOrders

LEMMA RigFailureOrders ==
    ASSUME NEW g, NEW fresh \in BOOLEAN, Sending(g, fresh)
    PROVE  \A visible \in BOOLEAN : Sending(RigFailure(g, visible), fresh)
<1>. DEFINE c == CloseRig(g)
            h == [c EXCEPT !.tx = IF @ = "transmit" THEN "release" ELSE @]
            i == [h EXCEPT !.reopen = TRUE, !.first = FALSE]
            j == [h EXCEPT !.box = TRUE]
<1>1. Sending(c, fresh)
    BY CloseRigOrders
<1>2. \A visible \in BOOLEAN : RigFailure(g, visible) \in {c, i, j}
    BY Zenon DEF RigFailure, TellFailure
<1>. HIDE DEF c
<1>3. h \in GUI /\ h.sent = c.sent /\ h.active = c.active
    BY <1>1 DEF Sending, GUI
<1>. HIDE DEF h
<1>4. /\ i \in GUI /\ i.sent = c.sent /\ i.active = c.active
      /\ j \in GUI /\ j.sent = c.sent /\ j.active = c.active
    BY <1>3 DEF GUI
<1>. HIDE DEF i, j
<1>. QED
    BY <1>1, <1>2, <1>4, SameCommands

-----------------------------------------------------------------------------
(* The inductive invariant.                                                *)

RigIsAtRest ==
    /\ rig.actual.ptt = radio.ptt
    /\ ~rig.failed => rig.requested.ptt = radio.ptt
    /\ ~rig.requested.online => ~radio.ptt /\ ~rig.polling
    /\ rig.requested.freq = rig.actual.freq

Fresh == Closed(toRig, ~rig.requested.online)

CommandsInOrder ==
    /\ gui.sent = << >>
    /\ Reset(toRig, ~rig.requested.online)
    /\ ~gui.active => Fresh

IInv ==
    /\ TypeOK
    /\ CommandsInOrder
    /\ ~ReleaseFails => RigIsAtRest

(* Each step keeps it, and does to the PTT what the switch allows.         *)
Allowed ==
    /\ IInv'
    /\ ~ReleaseFails => [Switch!PttSwitchNext]_(Switch!switch)

(* The commands to the switch.                                             *)
Commands(q) == [i \in DOMAIN q |-> PttCommand(q[i])]

LEMMA CommandsAre ==
    ASSUME NEW q \in Seq(Command)
    PROVE  /\ Commands(q) \in Seq({"on", "off", "open", "close"})
           /\ Len(Commands(q)) = Len(q)
           /\ \A i \in 1 .. Len(q) : Commands(q)[i] = PttCommand(q[i])
<1>1. \A i \in 1 .. Len(q) : PttCommand(q[i]) \in {"on", "off", "open", "close"}
    <2>. SUFFICES ASSUME NEW i \in 1 .. Len(q)
                  PROVE  PttCommand(q[i]) \in {"on", "off", "open", "close"}
        OBVIOUS
    <2>1. q[i] \in Command
        BY ElementOfSeq
    <2>2. q[i].do \in {"start", "set", "stop"}
        BY <2>1 DEF Command
    <2>. QED
        BY <2>2 DEF PttCommand
<1>. QED
    BY <1>1 DEF Commands

LEMMA CommandTaken ==
    ASSUME NEW q \in Seq(Command), q # << >>
    PROVE  /\ Commands(q) # << >>
           /\ Head(Commands(q)) = PttCommand(Head(q))
           /\ Commands(Tail(q)) = Tail(Commands(q))
<1>. DEFINE t == Tail(q)
            c == Commands(q)
            d == Commands(t)
            S == {"on", "off", "open", "close"}
<1>1. /\ c \in Seq(S) /\ Len(c) = Len(q)
      /\ \A i \in 1 .. Len(q) : c[i] = PttCommand(q[i])
    BY CommandsAre
<1>2. /\ t \in Seq(Command) /\ Len(t) = Len(q) - 1 /\ Len(q) > 0
      /\ \A i \in 1 .. Len(t) : t[i] = q[i + 1]
      /\ Head(q) = q[1]
    BY HeadTailProperties
<1>. HIDE DEF t
<1>3. /\ d \in Seq(S) /\ Len(d) = Len(q) - 1
      /\ \A i \in 1 .. Len(q) - 1 : d[i] = PttCommand(q[i + 1])
    BY <1>2, CommandsAre
<1>. HIDE DEF c, d, S
<1>4. c # << >> /\ Head(c) = PttCommand(Head(q))
    BY <1>1, <1>2
<1>5. /\ Tail(c) \in Seq(S) /\ Len(Tail(c)) = Len(c) - 1
      /\ \A i \in 1 .. Len(Tail(c)) : Tail(c)[i] = c[i + 1]
    BY <1>1, <1>4, HeadTailProperties
<1>6. \A i \in 1 .. Len(d) : d[i] = Tail(c)[i]
    BY <1>1, <1>3, <1>5
<1>7. d = Tail(c)
    BY <1>1, <1>3, <1>5, <1>6, SeqEqual
<1>. QED
    BY <1>4, <1>7 DEF c, d, t

(* Commands s join the queue q, whose numbers may become outdated.         *)
LEMMA CommandsIssued ==
    ASSUME NEW q \in Seq(Command), NEW o \in {q, Outdated(q)}, NEW s \in Seq(Command)
    PROVE  \/ Commands(o \o s) = Commands(q)
           \/ /\ Len(Commands(o \o s)) > Len(Commands(q))
              /\ SubSeq(Commands(o \o s), 1, Len(Commands(q))) = Commands(q)
<1>. DEFINE a == o \o s
            c == Commands(q)
            d == Commands(a)
            S == {"on", "off", "open", "close"}
<1>1. /\ o \in Seq(Command) /\ Len(o) = Len(q)
      /\ \A i \in 1 .. Len(q) : o[i].do = q[i].do /\ o[i].state = q[i].state
    BY OutdatedKeeps
<1>2. \A i \in 1 .. Len(q) : PttCommand(o[i]) = PttCommand(q[i])
    BY <1>1 DEF PttCommand
<1>3. /\ a \in Seq(Command) /\ Len(a) = Len(q) + Len(s)
      /\ \A i \in 1 .. Len(q) : a[i] = o[i]
    <2>1. \A x \in Seq(Command) :
              /\ x \o s \in Seq(Command) /\ Len(x \o s) = Len(x) + Len(s)
              /\ \A i \in 1 .. Len(x) + Len(s) :
                    (x \o s)[i] = IF i =< Len(x) THEN x[i] ELSE s[i - Len(x)]
        BY ConcatProperties
    <2>2. /\ a \in Seq(Command) /\ Len(a) = Len(o) + Len(s)
          /\ \A i \in 1 .. Len(o) + Len(s) :
                a[i] = IF i =< Len(o) THEN o[i] ELSE s[i - Len(o)]
        BY <1>1, <2>1, Zenon
    <2>3. Len(q) \in Nat /\ Len(s) \in Nat
        OBVIOUS
    <2>. HIDE DEF a
    <2>. QED
        BY <1>1, <2>2, <2>3
<1>4. /\ c \in Seq(S) /\ Len(c) = Len(q)
      /\ \A i \in 1 .. Len(q) : c[i] = PttCommand(q[i])
    BY CommandsAre
<1>. HIDE DEF a
<1>5. /\ d \in Seq(S) /\ Len(d) = Len(q) + Len(s)
      /\ \A i \in 1 .. Len(a) : d[i] = PttCommand(a[i])
    BY <1>3, CommandsAre
<1>. HIDE DEF c, d, S
<1>6. \A i \in 1 .. Len(q) : d[i] = c[i]
    BY <1>2, <1>3, <1>4, <1>5
<1>7. CASE Len(s) = 0
    <2>1. d = c
        BY <1>4, <1>5, <1>6, <1>7, SeqEqual
    <2>. QED
        BY <2>1 DEF a, c, d
<1>8. CASE Len(s) # 0
    <2>. DEFINE e == SubSeq(d, 1, Len(c))
    <2>1. /\ e \in Seq(S) /\ Len(e) = Len(c)
          /\ \A i \in 1 .. Len(c) : e[i] = d[i]
        BY <1>4, <1>5
    <2>. HIDE DEF e
    <2>2. e = c
        BY <1>4, <1>6, <2>1, SeqEqual
    <2>3. Len(d) > Len(c)
        BY <1>4, <1>5, <1>8
    <2>. QED
        BY <2>2, <2>3 DEF a, c, d, e
<1>. QED
    BY <1>7, <1>8

LEMMA InitIsOrderly == Init => IInv
<1>. SUFFICES ASSUME Init PROVE IInv
    OBVIOUS
<1>. DEFINE c == [do |-> "start", state |-> Unknown, newest |-> TRUE]
<1>1. c \in Command /\ toRig = <<c>>
    BY UnknownState DEF Init, Command
<1>. HIDE DEF c
<1>2. toRig \in Seq(Command)
    BY <1>1
<1>3. gui \in GUI
    <2>1. << >> \in Seq(Command)
        BY EmptySeq
    <2>. QED
        BY <2>1, UnknownState DEF Init, GUI
<1>4. radio \in Radio /\ rig \in Rig
    BY NewRigTyped, FrequencyAssumption DEF Init, Radio
<1>5. TypeOK
    BY <1>2, <1>3, <1>4, ParameterAssumption DEF Init, TypeOK
<1>6. rig.requested.online = FALSE
    BY DEF Init, NewRig, Unknown
<1>7. Reset(toRig, ~rig.requested.online)
    BY <1>1, <1>6 DEF Reset
<1>8. gui.sent = << >> /\ gui.active
    BY DEF Init
<1>9. RigIsAtRest
    BY DEF Init, NewRig, Unknown, RigIsAtRest
<1>. QED
    BY <1>5, <1>7, <1>8, <1>9 DEF IInv, CommandsInOrder

LEMMA InitIsSwitch == Init => Switch!PttSwitchInit
<1>. SUFFICES ASSUME Init PROVE Switch!PttSwitchInit
    OBVIOUS
<1>1. PttCommands = <<"open">>
    BY DEF Init, PttCommands, PttCommand
<1>2. radio.ptt = FALSE /\ rig.failed = FALSE
    BY DEF Init, NewRig
<1>. QED
    BY <1>1, <1>2 DEF Switch!PttSwitchInit

(* A handler of the GUI thread.                                            *)
LEMMA ReturnAllowed ==
    ASSUME IInv, NEW g, Sending(g, Fresh), NEW events \in Seq(Signal), Return(g, events),
           qsys' \in 0 .. MaxQsys, troubles' \in 0 .. MaxTroubles
    PROVE  Allowed
<1>. DEFINE o == IF g.issued THEN Outdated(toRig) ELSE toRig
<1>1. /\ toRig \in Seq(Command) /\ out \in Seq(Signal) /\ rig \in Rig
      /\ radio \in Radio /\ splitMode \in SplitModes
      /\ g \in GUI /\ g.sent \in Seq(Command)
    BY DEF IInv, TypeOK, Sending, GUI
<1>2. /\ gui' = [g EXCEPT !.issued = FALSE, !.sent = << >>]
      /\ toRig' = o \o g.sent
      /\ toGui' = IF g.issued THEN Outdated(events) ELSE events
      /\ out' = IF g.issued THEN Outdated(out) ELSE out
      /\ rig' = IF g.issued THEN [rig EXCEPT !.newest = FALSE] ELSE rig
      /\ splitMode' = splitMode /\ radio' = radio
    BY DEF Return
<1>3. o \in {toRig, Outdated(toRig)}
    OBVIOUS
<1>. HIDE DEF o
<1>4. gui' \in GUI /\ gui'.sent = << >> /\ gui'.active = g.active
    <2>1. << >> \in Seq(Command)
        BY EmptySeq
    <2>. QED
        BY <1>1, <1>2, <2>1 DEF GUI
<1>5. toGui' \in Seq(Signal) /\ out' \in Seq(Signal)
    BY <1>1, <1>2, OutdatedSignals
<1>6. rig' \in Rig /\ SameObject(rig', rig) /\ rig'.actual = rig.actual
    BY <1>1, <1>2 DEF Rig, SameObject
<1>. DEFINE fresh == ~rig.requested.online
<1>7. o \in Seq(Command) /\ Reset(o, fresh) /\ Closed(o, fresh) = Fresh
    <2>1. Reset(toRig, fresh) /\ toRig \in Seq(Command)
        BY <1>1 DEF IInv, CommandsInOrder
    <2>2. Outdated(toRig) \in Seq(Command) /\ Reset(Outdated(toRig), fresh)
        BY <2>1, OutdatedKeeps, OutdatedOrders
    <2>3. Closed(Outdated(toRig), fresh) = Closed(toRig, fresh)
        <3>1. /\ Len(Outdated(toRig)) = Len(toRig)
              /\ \A i \in 1 .. Len(toRig) : Outdated(toRig)[i].do = toRig[i].do
            BY <1>1, OutdatedKeeps
        <3>2. CASE toRig = << >>
            BY <2>2, <3>1, <3>2, EmptySeq DEF Closed
        <3>3. CASE toRig # << >>
            <4>1. Len(toRig) \in 1 .. Len(toRig) /\ Outdated(toRig) # << >>
                BY <1>1, <3>1, <3>3
            <4>. QED
                BY <3>1, <3>3, <4>1 DEF Closed
        <3>. QED
            BY <3>2, <3>3
    <2>. QED
        BY <1>3, <2>1, <2>2, <2>3 DEF Fresh
<1>8. fresh \in BOOLEAN /\ Fresh \in BOOLEAN
    BY DEF Fresh, Closed
<1>. HIDE DEF fresh
<1>9. /\ toRig' \in Seq(Command) /\ Reset(toRig', fresh)
      /\ ~g.active => Closed(toRig', fresh)
    BY <1>1, <1>2, <1>7, <1>8, ConcatOrders DEF Sending, Orderly
<1>10. TypeOK'
    BY <1>1, <1>2, <1>4, <1>5, <1>6, <1>9 DEF TypeOK
<1>11. CommandsInOrder'
    BY <1>4, <1>6, <1>9 DEF CommandsInOrder, Fresh, SameObject, fresh
<1>12. RigIsAtRest => RigIsAtRest'
    BY <1>2, <1>6 DEF RigIsAtRest, SameObject
<1>13. [Switch!PttSwitchNext]_(Switch!switch)
    <2>1. PttCommands = Commands(toRig) /\ PttCommands' = Commands(o \o g.sent)
        BY <1>2 DEF PttCommands, Commands
    <2>2. radio'.ptt = radio.ptt /\ rig'.failed = rig.failed
        BY <1>2, <1>6 DEF SameObject
    <2>3. \/ PttCommands' = PttCommands
          \/ /\ Len(PttCommands') > Len(PttCommands)
             /\ SubSeq(PttCommands', 1, Len(PttCommands)) = PttCommands
        BY <1>1, <1>3, <2>1, CommandsIssued
    <2>. QED
        BY <2>2, <2>3 DEF Switch!PttSwitchNext, Switch!Issue, Switch!switch
<1>. QED
    BY <1>10, <1>11, <1>12, <1>13 DEF Allowed, IInv

-----------------------------------------------------------------------------
(* The rig thread.                                                         *)

LEMMA HandlingIsTyped ==
    ASSUME IInv, NEW n \in Nat
    PROVE  LET s == Handling(n) IN
           /\ s \in Handlings /\ ~s.threw /\ s.left = n
           /\ s.rig = rig /\ s.radio = radio /\ s.out = << >>
           /\ ~ReleaseFails => AtRest(s)
<1>. DEFINE s == Handling(n)
<1>1. << >> \in Seq(Signal) /\ rig \in Rig /\ radio \in Radio
    BY EmptySeq DEF IInv, TypeOK
<1>2. /\ s \in Handlings /\ ~s.threw /\ s.left = n
      /\ s.rig = rig /\ s.radio = radio /\ s.out = << >>
    BY <1>1 DEF Handling, Handlings
<1>. HIDE DEF s
<1>3. ~ReleaseFails => AtRest(s)
    BY <1>2 DEF AtRest, Knows, Dialled, IInv, RigIsAtRest
<1>. QED
    BY <1>2, <1>3 DEF s

LEMMA MayFailType ==
    ASSUME IInv, NEW n \in Nat, NEW m \in Nat, MayFail(n, m)
    PROVE  troubles' \in 0 .. MaxTroubles /\ (~ReleaseFails => m = NeverFails)
BY ParameterAssumption DEF MayFail, IInv, TypeOK, NeverFails

(* What a handler leaves behind, with the commands that are left.          *)
LEMMA WorkedKeeps ==
    ASSUME IInv, NEW t \in Handlings, Worked(t),
           troubles' \in 0 .. MaxTroubles,
           toRig' \in Seq(Command), Reset(toRig', ~t.rig.requested.online),
           Fresh => Closed(toRig', ~t.rig.requested.online),
           ~ReleaseFails => AtRest(t)
    PROVE  IInv'
<1>1. /\ rig' = t.rig /\ radio' = t.radio /\ out' = t.out
      /\ splitMode' = splitMode /\ gui' = gui /\ toGui' = toGui /\ qsys' = qsys
    BY DEF Worked
<1>2. TypeOK'
    BY <1>1 DEF TypeOK, IInv, Handlings
<1>3. CommandsInOrder'
    BY <1>1 DEF CommandsInOrder, IInv, Fresh
<1>4. ~ReleaseFails => RigIsAtRest'
    BY <1>1 DEF AtRest, Knows, Dialled, RigIsAtRest
<1>. QED
    BY <1>2, <1>3, <1>4 DEF IInv

(* A handler takes a command from the queue.                               *)
LEMMA ServedKeeps ==
    ASSUME IInv, NEW do, Serve(do), NEW t \in Handlings, Worked(t),
           troubles' \in 0 .. MaxTroubles,
           do = "stop" => ~t.rig.requested.online,
           ~ReleaseFails => AtRest(t)
    PROVE  /\ IInv'
           /\ PttCommands # << >>
           /\ Head(PttCommands) = PttCommand(Head(toRig))
           /\ PttCommands' = Tail(PttCommands)
<1>. DEFINE fresh == ~rig.requested.online
            fresher == ~t.rig.requested.online
<1>1. toRig # << >> /\ Head(toRig).do = do /\ toRig' = Tail(toRig) /\ toRig \in Seq(Command)
    BY DEF Serve, IInv, TypeOK
<1>2. fresh \in BOOLEAN /\ fresher \in BOOLEAN
    OBVIOUS
<1>3. Reset(toRig, fresh) /\ (Fresh => Closed(toRig, fresh))
    BY DEF IInv, CommandsInOrder, Fresh
<1>4. /\ toRig' \in Seq(Command) /\ Reset(toRig', fresher)
      /\ Fresh => Closed(toRig', fresher)
    <2>. HIDE DEF fresh, fresher
    <2>1. do = "stop" => fresher
        BY DEF fresher
    <2>. QED
        BY <1>1, <1>2, <1>3, <2>1, TailOrders
<1>5. IInv'
    BY <1>4, WorkedKeeps
<1>6. PttCommands = Commands(toRig) /\ PttCommands' = Commands(Tail(toRig))
    BY <1>1 DEF PttCommands, Commands
<1>. QED
    BY <1>1, <1>5, <1>6, CommandTaken

LEMMA HeadIsCommand ==
    ASSUME IInv, toRig # << >>
    PROVE  Head(toRig) \in Command
BY HeadTailProperties DEF IInv, TypeOK

LEMMA ServeStartAllowed ==
    ASSUME IInv, ServeStart
    PROVE  Allowed
<1>. PICK n \in {0, NeverFails} :
            MayFail(n, NeverFails)
         /\ Worked(Start(Handling(n), Head(toRig).newest, NeverFails))
    BY DEF ServeStart
<1>. DEFINE s == Handling(n)
            t == Start(s, Head(toRig).newest, NeverFails)
<1>1. Serve("start") /\ toRig # << >> /\ Head(toRig).do = "start"
    BY DEF ServeStart, Serve
<1>2. n \in Nat /\ NeverFails \in Nat
    BY DEF NeverFails
<1>3. troubles' \in 0 .. MaxTroubles
    BY <1>2, MayFailType
<1>4. s \in Handlings /\ s.radio = radio /\ s.rig = rig
    BY <1>2, HandlingIsTyped
<1>5. Head(toRig).newest \in BOOLEAN
    BY <1>1, HeadIsCommand DEF Command
<1>6. Worked(t)
    OBVIOUS
<1>. HIDE DEF s
<1>7. t \in Handlings /\ (~s.radio.ptt => AtRest(t) /\ ~t.radio.ptt)
    BY <1>2, <1>4, <1>5, StartIsAtRest
<1>. HIDE DEF t
<1>8. ~rig.requested.online
    <2>1. toRig \in Seq(Command) /\ Reset(toRig, ~rig.requested.online)
        BY DEF IInv, TypeOK, CommandsInOrder
    <2>2. 1 \in DOMAIN toRig /\ toRig[1].do = "start"
        BY <1>1, <2>1
    <2>. QED
        BY <2>1, <2>2 DEF Reset
<1>9. ~ReleaseFails => ~radio.ptt
    BY <1>8 DEF IInv, RigIsAtRest
<1>10. /\ IInv'
       /\ PttCommands # << >>
       /\ Head(PttCommands) = PttCommand(Head(toRig))
       /\ PttCommands' = Tail(PttCommands)
    BY <1>1, <1>3, <1>4, <1>6, <1>7, <1>9, ServedKeeps
<1>11. rig' = t.rig /\ radio' = t.radio
    BY <1>6 DEF Worked
<1>12. ASSUME ~ReleaseFails PROVE Switch!Open
    <2>1. rig'.failed \in BOOLEAN
        BY <1>7, <1>11 DEF Handlings, Rig
    <2>2. ~radio.ptt /\ ~radio'.ptt
        BY <1>4, <1>7, <1>9, <1>11, <1>12
    <2>3. Head(PttCommands) = "open"
        BY <1>1, <1>10 DEF PttCommand
    <2>. QED
        BY <1>10, <2>1, <2>2, <2>3 DEF Switch!Open, Switch!Take
<1>. QED
    BY <1>10, <1>12 DEF Allowed, Switch!PttSwitchNext

LEMMA ServeSetAllowed ==
    ASSUME IInv, ServeSet
    PROVE  Allowed
<1>. PICK n \in Accesses, m \in {0, NeverFails} :
            MayFail(n, m)
         /\ Worked(Set(Handling(n), Head(toRig).state, Head(toRig).newest, m))
    BY DEF ServeSet
<1>. DEFINE s == Handling(n)
            want == Head(toRig).state
            t == Set(s, want, Head(toRig).newest, m)
<1>1. Serve("set") /\ toRig # << >> /\ Head(toRig).do = "set"
    BY DEF ServeSet, Serve
<1>2. n \in Nat /\ m \in Nat
    BY DEF Accesses, NeverFails
<1>3. troubles' \in 0 .. MaxTroubles /\ (~ReleaseFails => m > 1)
    BY <1>2, MayFailType DEF NeverFails
<1>4. /\ s \in Handlings /\ ~s.threw /\ s.radio = radio /\ s.rig = rig
      /\ ~ReleaseFails => AtRest(s)
    BY <1>2, HandlingIsTyped
<1>5. Head(toRig).newest \in BOOLEAN /\ want \in State
    BY <1>1, HeadIsCommand DEF Command
<1>6. Worked(t)
    OBVIOUS
<1>. HIDE DEF s
<1>7. t \in Handlings /\ (~ReleaseFails => AtRest(t) /\ Obeys(t, s, want))
    BY <1>2, <1>3, <1>4, <1>5, SetIsAtRest
<1>. HIDE DEF t
<1>8. /\ IInv'
      /\ PttCommands # << >>
      /\ Head(PttCommands) = PttCommand(Head(toRig))
      /\ PttCommands' = Tail(PttCommands)
    BY <1>1, <1>3, <1>6, <1>7, ServedKeeps
<1>9. rig' = t.rig /\ radio' = t.radio
    BY <1>6 DEF Worked
<1>10. ASSUME ~ReleaseFails PROVE Switch!Obey \/ Switch!Ignore
    <2>1. Head(PttCommands) = IF want.ptt THEN "on" ELSE "off"
        BY <1>1, <1>8 DEF PttCommand
    <2>2. want.ptt \in BOOLEAN
        BY <1>5 DEF State
    <2>3. Head(PttCommands) \in {"on", "off"} /\ (Head(PttCommands) = "on") = want.ptt
        BY <2>1, <2>2
    <2>4. \/ radio'.ptt = want.ptt /\ rig'.failed = rig.failed
          \/ radio'.ptt \in {radio.ptt, FALSE} /\ rig'.failed
        BY <1>4, <1>7, <1>9, <1>10 DEF Obeys
    <2>. QED
        BY <1>8, <2>3, <2>4 DEF Switch!Obey, Switch!Ignore, Switch!Take
<1>. QED
    BY <1>8, <1>10 DEF Allowed, Switch!PttSwitchNext

LEMMA ServeStopAllowed ==
    ASSUME IInv, ServeStop
    PROVE  Allowed
<1>. PICK m \in {0, NeverFails} :
            MayFail(NeverFails, m)
         /\ Worked([Shutdown(Handling(m), m) EXCEPT
                        !.out = << >>,
                        !.rig = [NewRig EXCEPT !.failed = Shutdown(Handling(m), m).rig.failed]])
    BY DEF ServeStop
<1>. DEFINE s == Handling(m)
            u == Shutdown(s, m)
            r == [NewRig EXCEPT !.failed = u.rig.failed]
            t == [u EXCEPT !.out = << >>, !.rig = r]
<1>1. Serve("stop") /\ toRig # << >> /\ Head(toRig).do = "stop"
    BY DEF ServeStop, Serve
<1>2. m \in Nat /\ NeverFails \in Nat
    BY DEF NeverFails
<1>3. troubles' \in 0 .. MaxTroubles /\ (~ReleaseFails => m > 1)
    BY <1>2, MayFailType DEF NeverFails
<1>4. /\ s \in Handlings /\ s.radio = radio /\ s.rig = rig
      /\ ~ReleaseFails => AtRest(s)
    BY <1>2, HandlingIsTyped
<1>5. Worked(t)
    OBVIOUS
<1>. HIDE DEF s
<1>6. /\ u \in Handlings
      /\ ~s.rig.requested.online => u.radio = s.radio /\ u.rig.failed = s.rig.failed
      /\ s.rig.requested.online /\ m > 1 =>
            ~u.radio.ptt /\ u.rig.failed = s.rig.failed
    BY <1>2, <1>4, ShutdownReleases
<1>. HIDE DEF u
<1>7. /\ r \in Rig /\ r.failed = u.rig.failed /\ ~r.requested.online /\ ~r.polling
      /\ r.requested.ptt = FALSE /\ r.actual.ptt = FALSE /\ Dialled(r)
    <2>1. u.rig.failed \in BOOLEAN
        BY <1>6 DEF Handlings, Rig
    <2>2. r \in Rig
        BY <2>1, NewRigTyped DEF Rig
    <2>. QED
        BY <2>2 DEF NewRig, Unknown, Dialled
<1>. HIDE DEF r
<1>8. t \in Handlings /\ t.rig = r /\ t.radio = u.radio
    BY <1>6, <1>7, EmptySeq DEF Handlings
<1>. HIDE DEF t
<1>9. ~ReleaseFails => AtRest(t) /\ ~t.radio.ptt /\ t.rig.failed = rig.failed
    <2>. SUFFICES ASSUME ~ReleaseFails
                  PROVE  AtRest(t) /\ ~t.radio.ptt /\ t.rig.failed = rig.failed
        OBVIOUS
    <2>1. t.radio.ptt \in BOOLEAN
        BY <1>8 DEF Handlings, Radio
    <2>2. ~u.radio.ptt /\ u.rig.failed = s.rig.failed
        BY <1>3, <1>4, <1>6 DEF AtRest
    <2>. QED
        BY <1>4, <1>7, <1>8, <2>1, <2>2 DEF AtRest, Knows
<1>10. /\ IInv'
       /\ PttCommands # << >>
       /\ Head(PttCommands) = PttCommand(Head(toRig))
       /\ PttCommands' = Tail(PttCommands)
    BY <1>1, <1>3, <1>5, <1>7, <1>8, <1>9, ServedKeeps
<1>11. rig' = t.rig /\ radio' = t.radio
    BY <1>5 DEF Worked
<1>12. ASSUME ~ReleaseFails PROVE Switch!Close
    <2>1. Head(PttCommands) = "close"
        BY <1>1, <1>10 DEF PttCommand
    <2>. QED
        BY <1>9, <1>10, <1>11, <1>12, <2>1 DEF Switch!Close, Switch!Take
<1>. QED
    BY <1>10, <1>12 DEF Allowed, Switch!PttSwitchNext

LEMMA HandleTimeoutAllowed ==
    ASSUME IInv, HandleTimeout
    PROVE  Allowed
<1>. PICK n \in {0, NeverFails}, m \in {0, NeverFails} :
            MayFail(n, m) /\ Worked(Poll(Handling(n), m))
    BY DEF HandleTimeout
<1>. DEFINE s == Handling(n)
            t == Poll(s, m)
<1>1. rig.polling /\ toRig' = toRig
    BY DEF HandleTimeout
<1>2. n \in Nat /\ m \in Nat
    BY DEF NeverFails
<1>3. troubles' \in 0 .. MaxTroubles /\ (~ReleaseFails => m > 1)
    BY <1>2, MayFailType DEF NeverFails
<1>4. /\ s \in Handlings /\ s.radio = radio /\ s.rig = rig
      /\ ~ReleaseFails => AtRest(s)
    BY <1>2, HandlingIsTyped
<1>5. Worked(t)
    OBVIOUS
<1>. HIDE DEF s
<1>6. /\ t \in Handlings
      /\ ~rig.requested.online => ~t.rig.requested.online
      /\ ~ReleaseFails =>
            /\ AtRest(t)
            /\ \/ t.radio = radio /\ t.rig.failed = rig.failed
               \/ ~t.radio.ptt /\ t.rig.failed
    BY <1>1, <1>2, <1>3, <1>4, PollIsAtRest
<1>. HIDE DEF t
<1>7. /\ toRig' \in Seq(Command) /\ Reset(toRig', ~t.rig.requested.online)
      /\ Fresh => Closed(toRig', ~t.rig.requested.online)
    BY <1>1, <1>6 DEF IInv, TypeOK, CommandsInOrder, Fresh, Reset, Closed
<1>8. IInv'
    BY <1>3, <1>5, <1>6, <1>7, WorkedKeeps
<1>9. rig' = t.rig /\ radio' = t.radio /\ PttCommands' = PttCommands
    BY <1>1, <1>5 DEF Worked, PttCommands
<1>10. ~ReleaseFails => Switch!Fail \/ UNCHANGED Switch!switch
    BY <1>6, <1>9 DEF Switch!Fail, Switch!switch
<1>. QED
    BY <1>8, <1>10 DEF Allowed, Switch!PttSwitchNext

LEMMA EmitAllowed ==
    ASSUME IInv, Emit
    PROVE  Allowed
<1>1. out # << >> /\ out \in Seq(Signal) /\ toGui \in Seq(Signal)
    BY DEF IInv, TypeOK, Emit
<1>2. Head(out) \in Signal /\ Tail(out) \in Seq(Signal)
    BY <1>1, HeadTailProperties
<1>3. Append(toGui, Head(out)) \in Seq(Signal)
    BY <1>1, <1>2, AppendProperties
<1>4. /\ out' = Tail(out) /\ toGui' \in {toGui, Append(toGui, Head(out))}
      /\ UNCHANGED <<splitMode, gui, toRig, rig, radio, qsys, troubles>>
    BY DEF Emit
<1>5. TypeOK'
    BY <1>1, <1>2, <1>3, <1>4 DEF IInv, TypeOK
<1>6. IInv'
    BY <1>4, <1>5 DEF IInv, CommandsInOrder, Fresh, RigIsAtRest
<1>7. UNCHANGED Switch!switch
    BY <1>4 DEF Switch!switch, PttCommands
<1>. QED
    BY <1>6, <1>7 DEF Allowed

LEMMA TurnKnobAllowed ==
    ASSUME IInv, TurnKnob
    PROVE  Allowed
<1>1. /\ UNCHANGED <<splitMode, gui, toRig, rig, out, toGui, qsys>>
      /\ troubles' \in 0 .. MaxTroubles
    BY ParameterAssumption DEF TurnKnob, IInv, TypeOK
<1>2. radio' \in Radio /\ radio'.ptt = radio.ptt
    <2>1. CASE \E f \in Freq \ {radio.freq} : radio' = [radio EXCEPT !.freq = f]
        <3>1. PICK f \in Freq : radio' = [radio EXCEPT !.freq = f]
            BY <2>1
        <3>2. f \in Int /\ radio \in Radio
            BY FrequencyAssumption DEF IInv, TypeOK
        <3>. QED
            BY <3>1, <3>2 DEF Radio
    <2>2. CASE radio' = [radio EXCEPT !.split = ~@]
        BY <2>2 DEF IInv, TypeOK, Radio
    <2>. QED
        BY <2>1, <2>2 DEF TurnKnob
<1>3. TypeOK'
    BY <1>1, <1>2 DEF IInv, TypeOK
<1>4. IInv'
    BY <1>1, <1>2, <1>3 DEF IInv, CommandsInOrder, Fresh, RigIsAtRest
<1>5. UNCHANGED Switch!switch
    BY <1>1, <1>2 DEF Switch!switch, PttCommands
<1>. QED
    BY <1>4, <1>5 DEF Allowed

-----------------------------------------------------------------------------
(* The steps of the GUI thread and of the users.                           *)

LEMMA GuiIsSending ==
    ASSUME IInv
    PROVE  Sending(gui, Fresh) /\ Fresh \in BOOLEAN
<1>1. Fresh \in BOOLEAN
    BY DEF Fresh, Closed
<1>2. Closed(<< >>, Fresh) = Fresh /\ Reset(<< >>, Fresh)
    BY DEF Closed, Reset
<1>. QED
    BY <1>1, <1>2 DEF Sending, Orderly, IInv, TypeOK, CommandsInOrder

LEMMA HandlerAllowed ==
    ASSUME IInv, NEW g, Sending(g, Fresh), Handler(g)
    PROVE  Allowed
<1>1. qsys' \in 0 .. MaxQsys /\ troubles' \in 0 .. MaxTroubles /\ toGui \in Seq(Signal)
    BY DEF Handler, IInv, TypeOK
<1>. QED
    BY <1>1, ReturnAllowed DEF Handler

(* A change of a flag, as it happens before or after the commands.         *)
LEMMA FlagsChange ==
    ASSUME NEW g, NEW fresh \in BOOLEAN, Sending(g, fresh),
           NEW a \in BOOLEAN, NEW b \in BOOLEAN, NEW t \in {"receive", "transmit", "release"}
    PROVE  /\ Sending([g EXCEPT !.tx = t], fresh)
           /\ Sending([g EXCEPT !.reopen = a], fresh)
           /\ Sending([g EXCEPT !.box = FALSE, !.first = TRUE, !.reopen = b], fresh)
<1>. DEFINE h == [g EXCEPT !.tx = t]
            i == [g EXCEPT !.reopen = a]
            j == [g EXCEPT !.box = FALSE, !.first = TRUE, !.reopen = b]
<1>1. /\ h \in GUI /\ h.sent = g.sent /\ h.active = g.active
      /\ i \in GUI /\ i.sent = g.sent /\ i.active = g.active
      /\ j \in GUI /\ j.sent = g.sent /\ j.active = g.active
    BY DEF Sending, GUI
<1>. HIDE DEF h, i, j
<1>2. Sending(h, fresh) /\ Sending(i, fresh) /\ Sending(j, fresh)
    BY <1>1, SameCommands
<1>. QED
    BY <1>2 DEF h, i, j

LEMMA UserAllowed ==
    ASSUME IInv, \/ \E f \in Freq : Qsy(f)
                 \/ Key \/ StopTx \/ StopTx2
                 \/ ReadFreq \/ TestCat \/ RigOpen
                 \/ \E changed \in BOOLEAN : AcceptSettings(changed)
                 \/ \E retry \in BOOLEAN : AnswerBox(retry)
    PROVE  Allowed
<1>1. Sending(gui, Fresh) /\ Fresh \in BOOLEAN
    BY GuiIsSending
<1>2. toGui \in Seq(Signal) /\ qsys \in 0 .. MaxQsys /\ troubles \in 0 .. MaxTroubles
    BY DEF IInv, TypeOK
<1>3. ASSUME NEW f \in Freq, Qsy(f) PROVE Allowed
    <2>1. f \in Int
        BY FrequencyAssumption
    <2>2. Sending(SetRig(Nominal(gui, f)), Fresh)
        BY <1>1, <2>1, NominalOrders, SetRigOrders
    <2>3. qsys' \in 0 .. MaxQsys /\ troubles' \in 0 .. MaxTroubles
        BY <1>2, <1>3, ParameterAssumption DEF Qsy
    <2>. QED
        BY <1>2, <1>3, <2>2, <2>3, ReturnAllowed DEF Qsy
<1>4. CASE Key
    <2>. DEFINE g == TransceiverPtt(SetXit(SetRig(gui)), TRUE)
    <2>1. Sending(SetXit(SetRig(gui)), Fresh)
        BY <1>1, SetRigOrders, SetXitOrders
    <2>2. Sending(g, Fresh)
        BY <1>1, <2>1, TransceiverPttOrders
    <2>3. Handler([g EXCEPT !.tx = "transmit"])
        BY <1>4 DEF Key
    <2>. HIDE DEF g
    <2>4. Sending([g EXCEPT !.tx = "transmit"], Fresh)
        BY <1>1, <2>2, FlagsChange
    <2>. QED
        BY <2>3, <2>4, HandlerAllowed
<1>5. CASE StopTx
    <2>1. Sending([gui EXCEPT !.tx = "release"], Fresh)
        BY <1>1, FlagsChange
    <2>. QED
        BY <1>5, <2>1, HandlerAllowed DEF StopTx
<1>6. CASE StopTx2
    <2>. DEFINE g == TransceiverPtt(gui, FALSE)
    <2>1. Sending(g, Fresh)
        BY <1>1, TransceiverPttOrders
    <2>2. Handler([g EXCEPT !.tx = "receive"])
        BY <1>6 DEF StopTx2
    <2>. HIDE DEF g
    <2>3. Sending([g EXCEPT !.tx = "receive"], Fresh)
        BY <1>1, <2>1, FlagsChange
    <2>. QED
        BY <2>2, <2>3, HandlerAllowed
<1>7. CASE ReadFreq
    <2>1. Sending(OpenRig(gui, FALSE), Fresh)
        BY <1>1, OpenRigOrders
    <2>. QED
        BY <1>7, <2>1, HandlerAllowed DEF ReadFreq
<1>8. CASE TestCat
    <2>1. Sending(OpenRig(gui, TRUE), Fresh)
        BY <1>1, OpenRigOrders
    <2>2. qsys' \in 0 .. MaxQsys /\ troubles' \in 0 .. MaxTroubles
        BY <1>2, <1>8, ParameterAssumption DEF TestCat
    <2>. QED
        BY <1>2, <1>8, <2>1, <2>2, ReturnAllowed DEF TestCat
<1>9. CASE RigOpen
    <2>1. Sending(OpenRig([gui EXCEPT !.reopen = FALSE], FALSE), Fresh)
        BY <1>1, FlagsChange, OpenRigOrders
    <2>. QED
        BY <1>9, <2>1, HandlerAllowed DEF RigOpen
<1>10. ASSUME NEW retry \in BOOLEAN, AnswerBox(retry) PROVE Allowed
    <2>. DEFINE b == gui.reopen \/ retry
    <2>1. [gui EXCEPT !.box = FALSE, !.first = TRUE, !.reopen = @ \/ retry]
            = [gui EXCEPT !.box = FALSE, !.first = TRUE, !.reopen = b]
        BY <1>1 DEF Sending, GUI
    <2>2. b \in BOOLEAN
        OBVIOUS
    <2>. HIDE DEF b
    <2>3. Sending([gui EXCEPT !.box = FALSE, !.first = TRUE, !.reopen = b], Fresh)
        BY <1>1, <2>2, FlagsChange
    <2>. QED
        BY <1>10, <2>1, <2>3, HandlerAllowed DEF AnswerBox
<1>11. ASSUME NEW changed \in BOOLEAN, AcceptSettings(changed) PROVE Allowed
    <2>1. Sending(SetXit(OpenRig(gui, changed)), Fresh)
        BY <1>1, OpenRigOrders, SetXitOrders
    <2>2. qsys' \in 0 .. MaxQsys /\ troubles' \in 0 .. MaxTroubles
        BY <1>2, <1>11, ParameterAssumption DEF AcceptSettings
    <2>. QED
        BY <1>2, <1>11, <2>1, <2>2, ReturnAllowed DEF AcceptSettings
<1>. QED
    BY <1>3, <1>4, <1>5, <1>6, <1>7, <1>8, <1>9, <1>10, <1>11

LEMMA GuiThreadAllowed ==
    ASSUME IInv, GuiThread
    PROVE  Allowed
<1>1. Sending(gui, Fresh) /\ Fresh \in BOOLEAN
    BY GuiIsSending
<1>2. qsys' \in 0 .. MaxQsys /\ troubles' \in 0 .. MaxTroubles
    BY DEF IInv, TypeOK, GuiThread, HandleUpdate, HandleFailure
<1>3. toGui # << >> /\ toGui \in Seq(Signal)
    BY DEF IInv, TypeOK, GuiThread, HandleUpdate, HandleFailure
<1>4. Head(toGui) \in Signal /\ Tail(toGui) \in Seq(Signal)
    BY <1>3, HeadTailProperties
<1>5. CASE HandleUpdate
    <2>1. Sending(FollowUpdate(gui, Head(toGui)), Fresh)
        BY <1>1, <1>4, FollowUpdateOrders
    <2>. QED
        BY <1>2, <1>4, <1>5, <2>1, ReturnAllowed DEF HandleUpdate
<1>6. CASE HandleFailure
    <2>1. \A visible \in BOOLEAN : Sending(RigFailure(gui, visible), Fresh)
        BY <1>1, RigFailureOrders
    <2>. QED
        BY <1>2, <1>4, <1>6, <2>1, ReturnAllowed DEF HandleFailure
<1>. QED
    BY <1>5, <1>6 DEF GuiThread

LEMMA StutterAllowed ==
    ASSUME IInv, UNCHANGED vars
    PROVE  Allowed
<1>1. IInv'
    BY DEF IInv, TypeOK, CommandsInOrder, Fresh, RigIsAtRest, vars
<1>2. UNCHANGED Switch!switch
    BY DEF vars, Switch!switch, PttCommands
<1>. QED
    BY <1>1, <1>2 DEF Allowed

LEMMA StepAllowed ==
    ASSUME IInv, [Next]_vars
    PROVE  Allowed
<1>1. CASE RigThread
    BY <1>1, ServeStartAllowed, ServeSetAllowed, ServeStopAllowed, EmitAllowed
    DEF RigThread
<1>2. CASE HandleTimeout
    BY <1>2, HandleTimeoutAllowed
<1>3. CASE TurnKnob
    BY <1>3, TurnKnobAllowed
<1>4. CASE GuiThread
    BY <1>4, GuiThreadAllowed
<1>5. CASE UNCHANGED vars
    BY <1>5, StutterAllowed
<1>. QED
    BY <1>1, <1>2, <1>3, <1>4, <1>5, UserAllowed DEF Next

-----------------------------------------------------------------------------
LEMMA Invariant == Spec => []IInv
<1>1. IInv /\ [Next]_vars => IInv'
    BY StepAllowed DEF Allowed
<1>. QED
    BY <1>1, InitIsOrderly, PTL DEF Spec

(* The cache, the queues and the objects stay what their types say,        *)
(* whatever fails: above all the commands, signals and states that the     *)
(* chains of operators of a handler build.                                 *)
THEOREM TypeCorrect == Spec => []TypeOK
<1>1. IInv => TypeOK
    BY DEF IInv
<1>. QED
    BY <1>1, Invariant, PTL

(* A radio that can be released does not transmit while its object is      *)
(* offline: shutdown releases the PTT in each of its three callers.        *)
THEOREM OfflineCorrect ==
    ASSUME ReleaseFails = FALSE
    PROVE  Spec => []OfflineIsReceiving
<1>1. IInv => OfflineIsReceiving
    BY DEF IInv, RigIsAtRest, OfflineIsReceiving
<1>. QED
    BY <1>1, Invariant, PTL

(* The threads and their queues implement a switch of the PTT: commands are *)
(* obeyed one by one in the order they were given, nothing else keys the    *)
(* radio, and an object is opened only when the PTT is off.                 *)
THEOREM PttSwitchCorrect ==
    ASSUME ReleaseFails = FALSE
    PROVE  Spec => ImplementsPttSwitch
<1>1. IInv /\ [Next]_vars => [Switch!PttSwitchNext]_(Switch!switch)
    BY StepAllowed DEF Allowed
<1>. QED
    BY <1>1, Invariant, InitIsSwitch, PTL
    DEF Spec, ImplementsPttSwitch, Switch!PttSwitchSpec
=============================================================================
