-------------------------- MODULE RxAssembly_proofs --------------------------
(***************************************************************************)
(* Proofs about the assembly of messages.                                  *)
(*                                                                         *)
(* Whatever the stations' offsets are, whatever is lost and whatever the   *)
(* texts say: types, whole checksums (Ends), and that nothing is handed    *)
(* over twice (Once).  Where the stations keep to places, so that a place  *)
(* has one buffer (Places, Spread): that what was decoded whole, and not   *)
(* dropped as a duplicate, arrives whole (Steady), and that buffers do not *)
(* mix the text of two messages (Unmixed), as long as the first frames of  *)
(* messages are decoded (no duplicate is one, FirstIsNew), or as long as   *)
(* one frame is lost at most and none is dropped (Unlost).                 *)
(***************************************************************************)
EXTENDS RxAssembly, SequenceTheorems, FiniteSetTheorems, WellFoundedInduction, TLAPS

-----------------------------------------------------------------------------
(* Finite sets as sequences, and least elements.                           *)

(* A finite set as a sequence has every element once.                      *)
LEMMA SetAsSeq ==
    ASSUME NEW S, IsFiniteSet(S)
    PROVE  /\ SetToSeq(S) \in Seq(S)
           /\ DOMAIN SetToSeq(S) = 1 .. Cardinality(S)
           /\ \A i, j \in DOMAIN SetToSeq(S) :
                 SetToSeq(S)[i] = SetToSeq(S)[j] => i = j
           /\ \A x \in S : \E i \in DOMAIN SetToSeq(S) : SetToSeq(S)[i] = x
<1> DEFINE n == Cardinality(S)
           q == SetToSeq(S)
<1>1. n \in Nat /\ ExistsBijection(1 .. n, S)
    BY FS_CardinalityType
<1>2. PICK f \in Bijection(1 .. n, S) : TRUE
    BY <1>1 DEF ExistsBijection
<1>3. f \in [1 .. n -> S] /\ IsInjective(f)
    BY <1>2 DEF Bijection, Injection
<1>4. q \in [1 .. n -> S] /\ IsInjective(q)
    BY <1>3 DEF SetToSeq
<1>5. IsFiniteSet(1 .. n) /\ Cardinality(1 .. n) = n
    BY <1>1, FS_Interval
<1> HIDE DEF q, n
<1>6. q \in Surjection(1 .. n, S)
    <2>1. q \in Injection(1 .. n, S)
        BY <1>4 DEF Injection
    <2>. QED
        BY <2>1, <1>5, FS_Injection DEF n
<1>7. q \in Seq(S) /\ DOMAIN q = 1 .. n
    BY <1>1, <1>4, SeqDef
<1>8. \A x \in S : \E i \in DOMAIN q : q[i] = x
    BY <1>6, <1>7 DEF Surjection
<1>9. \A i, j \in DOMAIN q : q[i] = q[j] => i = j
    BY <1>4 DEF IsInjective
<1>. QED
    BY <1>7, <1>8, <1>9 DEF q, n

Less == {ss \in Nat \X Nat : ss[1] < ss[2]}

LEMMA LeastOne ==
    ASSUME NEW T, T \subseteq Nat, T # {}
    PROVE  \E x \in T : \A y \in T : x =< y
<1>1. IsWellFoundedOn(OpToRel(<, Nat), Nat)
    BY NatLessThanWellFounded, Zenon
<1>2. IsWellFoundedOn(Less, Nat)
    BY ONLY <1>1, Zenon DEF OpToRel, Less
<1>3. \A x, y \in Nat : ~(<<x, y>> \in Less) => y =< x
    BY SMT DEF Less
<1>4. PICK x \in T : \A y \in T : ~(<<y, x>> \in Less)
    BY <1>2, WFMin
<1>. QED
    BY <1>3, <1>4

LEMMA LeastIsIn ==
    ASSUME NEW T, T \subseteq Nat, T # {}
    PROVE  Min(T) \in T /\ \A y \in T : Min(T) =< y
    BY LeastOne DEF Min

-----------------------------------------------------------------------------
(* Types: maps of offsets, frames, ages.                                   *)

Activity == [idle : BOOLEAN, age : Age]

(* A finite map of offsets to values of V.                                 *)
IsMap(map, V) ==
    /\ DOMAIN map \subseteq Offset /\ IsFiniteSet(DOMAIN map)
    /\ \A o \in DOMAIN map : map[o] \in V

LEMMA Constants ==
    /\ Offset \subseteq Nat /\ 0 \notin Offset
    /\ \A s \in Station : Offsets[s] \subseteq Offset /\ Offsets[s] # {}
    /\ RxThreshold \in Nat /\ MaxText \in Nat /\ MaxMessages \in Nat /\ MaxLost \in Nat
    /\ Unresolved \notin Station /\ Compound \subseteq Station
BY ConstantAssumption DEF Offset

LEMMA MinuteIs ==
    ASSUME NEW k \in Minutes
    PROVE  k \in Nat /\ k >= 4 /\ (3 * k) \div 2 \in Nat /\ (3 * k) \div 2 >= 6
<1>1. k \in Nat /\ k >= 4
    BY ConstantAssumption
<1>. QED
    BY <1>1, SMT

LEMMA AgesAre ==
    ASSUME TypeOK
    PROVE  /\ minute \in Nat /\ CloseAfter \in Nat /\ CloseAfter >= 4
           /\ DropAfter \in Nat /\ DropAfter >= 6 /\ MaxAge \in Nat /\ MaxAge = DropAfter + 1
           /\ \A age \in Age : age \in Nat /\ age =< MaxAge /\ Older(age) \in Age
                               /\ Older(age) >= age /\ Older(age) =< age + 1
           /\ \A n \in Nat : n =< 7 => n \in Age
<1>1. minute \in Nat /\ CloseAfter \in Nat /\ CloseAfter >= 4
      /\ DropAfter \in Nat /\ DropAfter >= 6
    BY MinuteIs DEF TypeOK, CloseAfter, DropAfter
<1>. QED
    BY <1>1 DEF MaxAge, Age, Older

LEMMA PutIs ==
    ASSUME NEW map, NEW o, NEW v
    PROVE  /\ DOMAIN Put(map, o, v) = DOMAIN map \cup {o}
           /\ Put(map, o, v)[o] = v
           /\ \A x \in DOMAIN map : x # o => Put(map, o, v)[x] = map[x]
BY DEF Put

LEMMA WithoutIs ==
    ASSUME NEW map, NEW o
    PROVE  /\ DOMAIN Without(map, o) = DOMAIN map \ {o}
           /\ \A x \in DOMAIN map : x # o => Without(map, o)[x] = map[x]
BY DEF Without

(* What is found near an offset moves there, or nothing moves.             *)
LEMMA FollowIs ==
    ASSUME NEW map, NEW o \in Offset, DOMAIN map \subseteq Offset
    PROVE  LET c == Follow(map, o)
           IN  \/ c = map /\ (o \in DOMAIN map \/ Near(map, o) = {})
               \/ /\ o \notin DOMAIN map
                  /\ \E from \in Near(map, o) :
                       /\ DOMAIN c = (DOMAIN map \ {from}) \cup {o}
                       /\ c[o] = map[from]
                       /\ \A x \in DOMAIN map : x # from => c[x] = map[x]
<1> DEFINE from == Min(Near(map, o))
           less == Without(map, from)
           moved == Put(less, o, map[from])
<1>1. CASE o \in DOMAIN map \/ Near(map, o) = {}
    BY <1>1 DEF Follow
<1>2. CASE o \notin DOMAIN map /\ Near(map, o) # {}
    <2>1. Near(map, o) \subseteq Nat /\ Near(map, o) \subseteq DOMAIN map
        BY Constants DEF Near
    <2>2. from \in Near(map, o)
        BY <1>2, <2>1, LeastIsIn
    <2>3. Follow(map, o) = moved
        BY <1>2 DEF Follow
    <2> HIDE DEF from
    <2>4. DOMAIN less = DOMAIN map \ {from} /\ \A x \in DOMAIN map : x # from => less[x] = map[x]
        BY WithoutIs
    <2> HIDE DEF less
    <2>5. /\ DOMAIN moved = DOMAIN less \cup {o} /\ moved[o] = map[from]
          /\ \A x \in DOMAIN less : x # o => moved[x] = less[x]
        BY DEF Put
    <2> HIDE DEF moved
    <2>6. \A x \in DOMAIN map : x # from => moved[x] = map[x]
        BY <1>2, <2>4, <2>5
    <2>. QED
        BY <1>2, <2>2, <2>3, <2>4, <2>5, <2>6
<1>. QED
    BY <1>1, <1>2

LEMMA FollowMap ==
    ASSUME NEW map, NEW V, IsMap(map, V), NEW o \in Offset
    PROVE  IsMap(Follow(map, o), V)
<1> DEFINE c == Follow(map, o)
<1>1. CASE c = map
    BY <1>1
<1>2. ASSUME NEW from \in Near(map, o),
             DOMAIN c = (DOMAIN map \ {from}) \cup {o},
             c[o] = map[from],
             \A x \in DOMAIN map : x # from => c[x] = map[x]
      PROVE  IsMap(c, V)
    <2>1. from \in DOMAIN map
        BY DEF Near
    <2>2. IsFiniteSet(DOMAIN map \ {from})
        BY FS_RemoveElement DEF IsMap
    <2>3. IsFiniteSet((DOMAIN map \ {from}) \cup {o})
        BY <2>2, FS_AddElement
    <2> HIDE DEF c
    <2>. QED
        BY <1>2, <2>1, <2>3 DEF IsMap
<1>3. DOMAIN map \subseteq Offset
    BY DEF IsMap
<1> HIDE DEF c
<1>. QED
    BY <1>1, <1>2, <1>3, FollowIs DEF c

LEMMA PutMap ==
    ASSUME NEW map, NEW V, IsMap(map, V), NEW o \in Offset, NEW v \in V
    PROVE  IsMap(Put(map, o, v), V)
<1>1. IsFiniteSet(DOMAIN map \cup {o})
    BY FS_AddElement DEF IsMap
<1>. QED
    BY <1>1 DEF IsMap, Put

LEMMA WithoutMap ==
    ASSUME NEW map, NEW V, IsMap(map, V), NEW o
    PROVE  IsMap(Without(map, o), V)
<1>1. IsFiniteSet(DOMAIN map \ {o})
    BY FS_RemoveElement DEF IsMap
<1>. QED
    BY <1>1 DEF IsMap, Without

(* None is neither a message nor a header.                                 *)
LEMMA NoneIsApart == None \notin Message /\ None \notin Header
<1>1. ASSUME NEW r, r = None PROVE DOMAIN r = {"none"}
    BY <1>1 DEF None
<1>2. ASSUME NEW r \in Message PROVE "from" \in DOMAIN r
    BY DEF Message
<1>3. ASSUME NEW r \in Header PROVE "from" \in DOMAIN r
    BY DEF Header
<1>. QED
    BY <1>1, <1>2, <1>3

-----------------------------------------------------------------------------
(* Messages and their frames.                                              *)

LEMMA MessageIs ==
    ASSUME NEW m \in Message
    PROVE  /\ m.from \in Station /\ m.number \in 1 .. MaxMessages /\ m.checked \in BOOLEAN
           /\ m.parts \in 0 .. MaxText /\ m.parts \in Nat
           /\ HeaderAt(m) \in {1, 2} /\ (HeaderAt(m) = 2 <=> m.from \in Compound)
           /\ LastAt(m) = HeaderAt(m) + m.parts /\ LastAt(m) \in Nat
           /\ LastAt(m) =< MaxText + 2
BY Constants DEF Message, HeaderAt, LastAt

LEMMA TextIs ==
    ASSUME NEW m \in Message
    PROVE  /\ Text(m) \in Seq(Part) /\ Len(Text(m)) = m.parts
           /\ DOMAIN Text(m) = 1 .. m.parts
           /\ \A i \in 1 .. m.parts : Text(m)[i] = <<m.from, m.number, i>>
<1>1. m.parts \in Nat /\ m.parts =< MaxText /\ MaxText \in Nat
    BY MessageIs, Constants
<1>2. \A i \in 1 .. m.parts : <<m.from, m.number, i>> \in Part
    BY <1>1, MessageIs DEF Part
<1>3. Text(m) \in [1 .. m.parts -> Part]
    BY <1>2 DEF Text
<1>4. Text(m) \in Seq(Part)
    BY <1>1, <1>3, SeqDef
<1>5. Len(Text(m)) = m.parts
    BY <1>1, <1>3, <1>4, LenProperties
<1>. QED
    BY <1>3, <1>4, <1>5 DEF Text

LEMMA FrameIs ==
    ASSUME NEW m \in Message, NEW k \in Nat, k < LastAt(m)
    PROVE  LET f == Frames(m)[k + 1]
           IN  /\ f \in Frame /\ f.message = m /\ f.part = k + 1 - HeaderAt(m)
               /\ f.first = (k = 0) /\ f.last = (k + 1 = LastAt(m))
               /\ f.kind = KindOf(m, k + 1)
<1>1. k + 1 \in 1 .. LastAt(m) /\ HeaderAt(m) \in {1, 2}
    BY MessageIs
<1>2. KindOf(m, k + 1) \in {"compound", "directed", "data"}
    BY <1>1 DEF KindOf
<1>3. Frames(m)[k + 1] = [kind |-> KindOf(m, k + 1), message |-> m,
                          part |-> k + 1 - HeaderAt(m), first |-> k + 1 = 1,
                          last |-> k + 1 = LastAt(m)]
    BY <1>1 DEF Frames
<1>4. (k + 1 = 1) = (k = 0)
    OBVIOUS
<1>. QED
    BY <1>1, <1>2, <1>3, <1>4 DEF Frame

(* What the kind of a frame tells of its place in the message.             *)
LEMMA KindIs ==
    ASSUME NEW m \in Message, NEW k \in Nat, k < LastAt(m)
    PROVE  /\ KindOf(m, k + 1) \in {"compound", "directed", "data"}
           /\ KindOf(m, k + 1) = "compound" <=> k = 0 /\ HeaderAt(m) = 2
           /\ KindOf(m, k + 1) = "directed" <=> k + 1 = HeaderAt(m)
           /\ KindOf(m, k + 1) = "data" <=> k + 1 > HeaderAt(m)
BY MessageIs DEF KindOf

-----------------------------------------------------------------------------
(* Type correctness.                                                       *)

(* The frames of a message are sent one after the other, by its station.   *)
InOrder ==
    \A s \in Station :
        IF Sending(s)
        THEN /\ station[s].message.from = s
             /\ station[s].sent < LastAt(station[s].message)
        ELSE station[s].sent = 0

Sound ==
    /\ TypeOK /\ InOrder
    /\ IsFiniteSet(DOMAIN band) /\ IsFiniteSet(DOMAIN buffers)

LEMMA SoundMaps ==
    ASSUME Sound
    PROVE  IsMap(band, Activity) /\ IsMap(buffers, Buffer)
BY DEF Sound, TypeOK, IsMap, Activity

LEMMA StationIs ==
    ASSUME Sound, NEW s \in Station
    PROVE  /\ station[s] \in StationState
           /\ station[s].message \in Message \cup {None} /\ station[s].sent \in 0 .. MaxText + 1
           /\ station[s].wait \in 0 .. 2 /\ station[s].offset \in Nat
           /\ station[s].drift \in Drift /\ station[s].whole \in BOOLEAN
           /\ Sending(s) =>
                /\ station[s].message \in Message /\ station[s].message.from = s
                /\ station[s].sent \in Nat /\ station[s].sent < LastAt(station[s].message)
           /\ ~Sending(s) => station[s].message = None /\ station[s].sent = 0
<1>1. station[s] \in StationState
    BY DEF Sound, TypeOK
<1>2. /\ station[s].message \in Message \cup {None} /\ station[s].sent \in 0 .. MaxText + 1
      /\ station[s].wait \in 0 .. 2 /\ station[s].offset \in Nat
      /\ station[s].drift \in Drift /\ station[s].whole \in BOOLEAN
    BY <1>1 DEF StationState
<1>. QED
    BY <1>1, <1>2 DEF Sound, InOrder, Sending

LEMMA NextFrameIs ==
    ASSUME Sound, NEW s \in Station, Sending(s)
    PROVE  LET m == station[s].message
               k == station[s].sent
               f == NextFrame(s)
           IN  /\ f \in Frame /\ f.message = m /\ f.part = k + 1 - HeaderAt(m)
               /\ f.first = (k = 0) /\ f.last = (k + 1 = LastAt(m))
               /\ f.kind = KindOf(m, k + 1)
               /\ f.kind = "data" => f.part \in 1 .. m.parts
<1> DEFINE m == station[s].message
           k == station[s].sent
<1>1. m \in Message /\ k \in Nat /\ k < LastAt(m)
    BY StationIs
<1>2. NextFrame(s) = Frames(m)[k + 1]
    BY DEF NextFrame
<1> HIDE DEF m, k
<1>3. LastAt(m) = HeaderAt(m) + m.parts /\ HeaderAt(m) \in Nat /\ m.parts \in Nat
    BY <1>1, MessageIs
<1>4. KindOf(m, k + 1) = "data" => k + 1 - HeaderAt(m) \in 1 .. m.parts
    BY <1>1, <1>3, KindIs
<1>5. LET f == NextFrame(s)
      IN  /\ f \in Frame /\ f.message = m /\ f.part = k + 1 - HeaderAt(m)
          /\ f.first = (k = 0) /\ f.last = (k + 1 = LastAt(m))
          /\ f.kind = KindOf(m, k + 1)
    BY <1>1, <1>2, FrameIs
<1>. QED
    BY <1>4, <1>5 DEF m, k

-----------------------------------------------------------------------------
(* What a frame does to a buffer.                                          *)

WithText(b, frame) ==
    [b EXCEPT !.msgs = Append(@, Text(frame.message)[frame.part]),
              !.last = frame.last, !.age = 0]

CallOf(frame) == [call |-> frame.message.from, last |-> frame.last, age |-> 0]

WithCall(b, frame) == [b EXCEPT !.compound = Append(@, CallOf(frame))]

WithHeader(b, frame) ==
    [b EXCEPT !.cmd = HeaderOf(frame), !.msgs = << >>, !.last = FALSE, !.age = 0]

LEMMA BufferIs ==
    ASSUME NEW b \in Buffer
    PROVE  /\ b.cmd \in Header \cup {None} /\ b.compound \in Seq(Call)
           /\ b.msgs \in Seq(Part) /\ b.last \in BOOLEAN /\ b.age \in Age
           /\ b.cmd # None =>
                /\ b.cmd \in Header /\ b.cmd.message \in Message
                /\ b.cmd.from \in Station \cup {Unresolved}
                /\ b.cmd.last \in BOOLEAN /\ b.cmd.age \in Age
           /\ \A i \in DOMAIN b.compound :
                /\ b.compound[i] \in Call /\ b.compound[i].call \in Station
                /\ b.compound[i].last \in BOOLEAN /\ b.compound[i].age \in Age
<1>1. /\ b.cmd \in Header \cup {None} /\ b.compound \in Seq(Call)
      /\ b.msgs \in Seq(Part) /\ b.last \in BOOLEAN /\ b.age \in Age
    BY DEF Buffer
<1>2. \A i \in DOMAIN b.compound : b.compound[i] \in Call
    BY <1>1, ElementOfSeq, LenProperties
<1>3. b.cmd # None =>
                /\ b.cmd \in Header /\ b.cmd.message \in Message
                /\ b.cmd.from \in Station \cup {Unresolved}
                /\ b.cmd.last \in BOOLEAN /\ b.cmd.age \in Age
    BY <1>1 DEF Header
<1>. QED
    BY <1>1, <1>2, <1>3 DEF Call

LEMMA NoBufferIs ==
    ASSUME TypeOK
    PROVE  NoBuffer \in Buffer /\ 0 \in Age
<1>1. 0 \in Age
    BY AgesAre
<1>. QED
    BY <1>1, EmptySeq DEF NoBuffer, Buffer

LEMMA HeaderOfIs ==
    ASSUME TypeOK, NEW frame \in Frame
    PROVE  LET header == HeaderOf(frame)
           IN  /\ header \in Header /\ header # None
               /\ header.message = frame.message /\ header.last = frame.last
               /\ header.age = 0
               /\ header.from = IF frame.message.from \in Compound THEN Unresolved
                                ELSE frame.message.from
<1>1. /\ frame.message \in Message /\ frame.message.from \in Station
      /\ frame.last \in BOOLEAN
    BY DEF Frame, Message
<1>2. 0 \in Age
    BY AgesAre
<1>3. HeaderOf(frame) \in Header
    BY <1>1, <1>2 DEF HeaderOf, Header
<1>. QED
    BY <1>3, NoneIsApart DEF HeaderOf

LEMMA WithTextIs ==
    ASSUME TypeOK, NEW frame \in Frame, frame.part \in 1 .. frame.message.parts,
           NEW b \in Buffer
    PROVE  LET c == WithText(b, frame)
           IN  /\ c \in Buffer /\ c.cmd = b.cmd /\ c.compound = b.compound
               /\ c.msgs = Append(b.msgs, Text(frame.message)[frame.part])
               /\ c.last = frame.last /\ c.age = 0
<1> DEFINE part == Text(frame.message)[frame.part]
           msgs == Append(b.msgs, part)
<1>1. frame.message \in Message /\ frame.last \in BOOLEAN /\ 0 \in Age
    BY AgesAre DEF Frame
<1>2. part \in Part
    BY <1>1, TextIs, ElementOfSeq
<1>3. WithText(b, frame) = [b EXCEPT !.msgs = msgs, !.last = frame.last, !.age = 0]
    BY DEF WithText, Buffer
<1> HIDE DEF part
<1>4. msgs \in Seq(Part)
    BY <1>2, BufferIs, AppendProperties
<1> HIDE DEF msgs
<1>5. LET c == WithText(b, frame)
      IN  /\ c \in Buffer /\ c.cmd = b.cmd /\ c.compound = b.compound
          /\ c.msgs = msgs /\ c.last = frame.last /\ c.age = 0
    BY <1>1, <1>3, <1>4 DEF Buffer
<1>. QED
    BY <1>5 DEF msgs, part

LEMMA WithCallIs ==
    ASSUME TypeOK, NEW frame \in Frame, NEW b \in Buffer
    PROVE  LET c == WithCall(b, frame)
           IN  /\ c \in Buffer /\ c.cmd = b.cmd
               /\ c.compound = Append(b.compound, CallOf(frame))
               /\ c.msgs = b.msgs /\ c.last = b.last /\ c.age = b.age
               /\ CallOf(frame) \in Call
<1> DEFINE calls == Append(b.compound, CallOf(frame))
<1>1. frame.message \in Message /\ frame.last \in BOOLEAN /\ 0 \in Age
    BY AgesAre DEF Frame
<1>2. CallOf(frame) \in Call
    BY <1>1, MessageIs DEF CallOf, Call
<1>3. calls \in Seq(Call)
    BY <1>2, BufferIs, AppendProperties
<1>4. WithCall(b, frame) = [b EXCEPT !.compound = calls]
    BY DEF WithCall, Buffer
<1> HIDE DEF calls
<1>5. LET c == WithCall(b, frame)
      IN  /\ c \in Buffer /\ c.cmd = b.cmd /\ c.compound = calls
          /\ c.msgs = b.msgs /\ c.last = b.last /\ c.age = b.age
    BY <1>3, <1>4 DEF Buffer
<1>. QED
    BY <1>2, <1>5 DEF calls

LEMMA WithHeaderIs ==
    ASSUME TypeOK, NEW frame \in Frame, NEW b \in Buffer
    PROVE  LET c == WithHeader(b, frame)
           IN  /\ c \in Buffer /\ c.cmd = HeaderOf(frame)
               /\ c.compound = b.compound
               /\ c.msgs = << >> /\ c.last = FALSE /\ c.age = 0
<1>1. HeaderOf(frame) \in Header /\ 0 \in Age
    BY HeaderOfIs, AgesAre
<1>2. << >> \in Seq(Part)
    BY EmptySeq
<1>. QED
    BY <1>1, <1>2 DEF WithHeader, Buffer

LEMMA BufferAtIs ==
    ASSUME NEW b, NEW V, IsMap(b, V), NEW o
    PROVE  BufferAt(o, b) \in V \cup {NoBuffer}
BY DEF BufferAt, IsMap

(* What holds of every buffer goes on to hold, if no frame disturbs it.    *)
LEMMA ReceiveMap ==
    ASSUME NEW frame, NEW o \in Offset, ProcessDecodeEvent(frame, o),
           NEW V, IsMap(buffers, V),
           frame.kind = "data" => \A b \in V : WithText(b, frame) \in V,
           frame.kind = "compound" =>
             \A b \in V \cup {NoBuffer} : WithCall(b, frame) \in V,
           frame.kind = "directed" /\ Waits(HeaderOf(frame)) =>
             \A b \in V \cup {NoBuffer} : WithHeader(b, frame) \in V
    PROVE  IsMap(buffers', V)
<1> DEFINE clear == ClearIfFirst(buffers, frame, o)
           c == Follow(clear, o)
           b == GeneralActivity(buffers, frame, o)
           d == Follow(b, o)
<1>1. IsMap(clear, V)
    BY FollowMap, WithoutMap DEF ClearIfFirst
<1> HIDE DEF clear
<1>2. IsMap(c, V)
    BY <1>1, FollowMap
<1>3. b = IF frame.kind = "data" /\ o \in DOMAIN c THEN Put(c, o, WithText(c[o], frame)) ELSE c
    BY DEF GeneralActivity, WithText, clear
<1> HIDE DEF c, b
<1>4. IsMap(b, V)
    <2>1. CASE frame.kind = "data" /\ o \in DOMAIN c
        <3>1. c[o] \in V
            BY <1>2, <2>1 DEF IsMap
        <3>2. WithText(c[o], frame) \in V
            BY <2>1, <3>1
        <3>. QED
            BY <1>2, <1>3, <2>1, <3>2, PutMap
    <2>. QED
        BY <1>2, <1>3, <2>1
<1>5. IsMap(d, V)
    BY <1>4, FollowMap
<1>6. BufferAt(o, d) \in V \cup {NoBuffer}
    BY <1>5, BufferAtIs
<1>7. /\ CompoundFrame(b, frame, o) = Put(d, o, WithCall(BufferAt(o, d), frame))
      /\ DirectedFrame(b, frame, o) = Put(d, o, WithHeader(BufferAt(o, d), frame))
    BY DEF CompoundFrame, DirectedFrame, WithCall, CallOf, WithHeader
<1> HIDE DEF d
<1>8. \/ buffers' = buffers
      \/ frame.kind = "compound" /\ buffers' = CompoundFrame(b, frame, o)
      \/ /\ frame.kind = "directed" /\ Waits(HeaderOf(frame))
         /\ buffers' = DirectedFrame(b, frame, o)
      \/ buffers' = b
    BY DEF ProcessDecodeEvent, b
<1>9. CASE frame.kind = "compound" /\ buffers' = CompoundFrame(b, frame, o)
    <2>1. WithCall(BufferAt(o, d), frame) \in V
        BY <1>6, <1>9
    <2>. QED
        BY <1>5, <1>7, <1>9, <2>1, PutMap
<1>10. CASE /\ frame.kind = "directed" /\ Waits(HeaderOf(frame))
            /\ buffers' = DirectedFrame(b, frame, o)
    <2>1. WithHeader(BufferAt(o, d), frame) \in V
        BY <1>6, <1>10
    <2>. QED
        BY <1>5, <1>7, <1>10, <2>1, PutMap
<1>. QED
    BY <1>4, <1>8, <1>9, <1>10

-----------------------------------------------------------------------------
(* What processActivity does to a buffer.                                  *)

WithEllipsis(b, age) ==
    [b EXCEPT !.msgs = Append(@, Ellipsis), !.last = FALSE, !.age = age]

LEMMA WithEllipsisIs ==
    ASSUME NEW b \in Buffer, NEW age \in Age
    PROVE  LET c == WithEllipsis(b, age)
           IN  /\ c \in Buffer /\ c.cmd = b.cmd /\ c.compound = b.compound
               /\ c.msgs = Append(b.msgs, Ellipsis) /\ c.last = FALSE /\ c.age = age
<1> DEFINE msgs == Append(b.msgs, Ellipsis)
<1>1. Ellipsis \in Part
    BY DEF Part
<1>2. msgs \in Seq(Part)
    BY <1>1, BufferIs, AppendProperties
<1>3. WithEllipsis(b, age) = [b EXCEPT !.msgs = msgs, !.last = FALSE, !.age = age]
    BY DEF WithEllipsis, Buffer
<1> HIDE DEF msgs
<1>4. LET c == WithEllipsis(b, age)
      IN  /\ c \in Buffer /\ c.cmd = b.cmd /\ c.compound = b.compound
          /\ c.msgs = msgs /\ c.last = FALSE /\ c.age = age
    BY <1>2, <1>3 DEF Buffer
<1>. QED
    BY <1>4 DEF msgs

(* A header takes the callsign at the head, if it waits for one.           *)
LEMMA ResolvedIs ==
    ASSUME NEW b \in Buffer
    PROVE  LET r == Resolved(b)
               call == b.compound[1]
           IN  /\ r \in Buffer /\ r.msgs = b.msgs /\ r.last = b.last /\ r.age = b.age
               /\ r.cmd = None <=> b.cmd = None
               /\ r.cmd # None => r.cmd.message = b.cmd.message
               /\ IF b.compound = << >> \/ b.cmd = None \/ b.cmd.from # Unresolved
                  THEN r = b
                  ELSE /\ 1 \in DOMAIN b.compound
                       /\ r.compound = Tail(b.compound)
                       /\ r.cmd.from = call.call
                       /\ r.cmd.last = (b.cmd.last \/ call.last)
                       /\ r.cmd.age = IF call.age > b.cmd.age THEN call.age ELSE b.cmd.age
<1> DEFINE r == Resolved(b)
           call == b.compound[1]
           old == b.cmd
           cmd == [old EXCEPT !.from = call.call, !.last = @ \/ call.last,
                              !.age = IF call.age > @ THEN call.age ELSE @]
<1>1. CASE b.compound = << >> \/ b.cmd = None \/ b.cmd.from # Unresolved
    BY <1>1 DEF Resolved
<1>2. CASE ~(b.compound = << >> \/ b.cmd = None \/ b.cmd.from # Unresolved)
    <2>1. b.compound \in Seq(Call) /\ b.compound # << >>
        BY <1>2, BufferIs
    <2>2. Head(b.compound) = call /\ 1 \in DOMAIN b.compound
        BY <2>1, EmptySeq, LenProperties
    <2>3. call.call \in Station /\ call.last \in BOOLEAN /\ call.age \in Age
        BY <2>2, BufferIs
    <2>4. Tail(b.compound) \in Seq(Call)
        BY <2>1, HeadTailProperties
    <2>5. old \in Header /\ old.last \in BOOLEAN /\ old.age \in Age
        BY <1>2, BufferIs
    <2>6. r = [b EXCEPT !.compound = Tail(b.compound), !.cmd = cmd]
        BY <1>2, <2>2 DEF Resolved
    <2> HIDE DEF call, old, r
    <2>7. /\ cmd \in Header /\ cmd.message = old.message
          /\ cmd.from = call.call /\ cmd.last = (old.last \/ call.last)
          /\ cmd.age = IF call.age > old.age THEN call.age ELSE old.age
        BY <2>3, <2>5 DEF Header
    <2> HIDE DEF cmd
    <2>8. cmd # None
        BY <2>7, NoneIsApart
    <2>9. /\ r \in Buffer /\ r.msgs = b.msgs /\ r.last = b.last /\ r.age = b.age
          /\ r.cmd = cmd /\ r.compound = Tail(b.compound)
        BY <2>4, <2>6, <2>7 DEF Buffer
    <2>. QED
        BY <1>2, <2>2, <2>7, <2>8, <2>9 DEF r, old, call
<1>. QED
    BY <1>1, <1>2

(* Of which buffers are filled, and with what.                             *)
Filled == AddEllipses(buffers, IdleOffsets)

Ready == {o \in DOMAIN Filled : CompoundComplete(Filled[o])}

Settled == [o \in DOMAIN Filled \ Ready |-> Resolved(Filled[o])]

Dropped == {o \in DOMAIN Settled : Drops(Settled[o])}

Closed == {o \in DOMAIN Settled \ Dropped : Closes(Settled[o])}

Early == CommandsOf([o \in Ready |-> [Resolved(Filled[o]) EXCEPT !.msgs = << >>]], Ready)

Late == CommandsOf(Settled, {o \in Closed : Valid(Settled[o])})

Queue == commands \o SetToSeq(Early) \o SetToSeq(Late)

LEMMA ProcessActivityIs ==
    ASSUME ProcessActivity
    PROVE  /\ band' = [o \in DOMAIN band |->
                        IF o \in IdleOffsets THEN [idle |-> TRUE, age |-> 0] ELSE band[o]]
           /\ buffers' = [o \in DOMAIN Settled \ (Dropped \cup Closed) |-> Settled[o]]
           /\ commands' = << >> /\ handled' = handled \o Taken(Queue) /\ processed' = TRUE
           /\ UNCHANGED <<minute, station, begun, lost, seen, received>>
BY DEF ProcessActivity, Filled, Ready, Settled, Dropped, Closed, Early, Late, Queue

LEMMA FilledIs ==
    ASSUME IsMap(band, Activity), NEW V, IsMap(buffers, V),
           \A b \in V \cup {NoBuffer}, age \in Age : WithEllipsis(b, age) \in V
    PROVE  /\ IsMap(Filled, V)
           /\ \A o \in DOMAIN Filled :
                \/ o \in DOMAIN buffers /\ Filled[o] = buffers[o]
                \/ Filled[o] = WithEllipsis(BufferAt(o, buffers), band[o].age)
                   /\ o \in IdleOffsets
<1> DEFINE R == Reached(buffers, IdleOffsets)
<1>1. R \subseteq IdleOffsets
    BY DEF Reached
<1>2. IdleOffsets \subseteq DOMAIN band
    BY DEF IdleOffsets
<1>3. IsFiniteSet(R)
    BY <1>1, <1>2, FS_Subset DEF IsMap
<1>4. Filled = [o \in DOMAIN buffers \cup R |->
                  IF o \notin R THEN buffers[o]
                  ELSE WithEllipsis(BufferAt(o, buffers), band[o].age)]
    BY DEF Filled, AddEllipses, WithEllipsis
<1> HIDE DEF R
<1>5. IsFiniteSet(DOMAIN buffers \cup R)
    BY <1>3, FS_Union DEF IsMap
<1>6. \A o \in R : band[o].age \in Age
    BY <1>1, <1>2 DEF IsMap, Activity
<1>7. \A o \in R : WithEllipsis(BufferAt(o, buffers), band[o].age) \in V
    BY <1>6, BufferAtIs
<1>8. DOMAIN buffers \cup R \subseteq Offset
    BY <1>1, <1>2 DEF IsMap
<1>. QED
    BY <1>1, <1>4, <1>5, <1>7, <1>8 DEF IsMap

LEMMA SettledIs ==
    ASSUME NEW V, IsMap(Filled, V), \A b \in V : ~CompoundComplete(b) => Resolved(b) \in V
    PROVE  /\ IsMap(Settled, V) /\ DOMAIN Settled = DOMAIN Filled \ Ready
           /\ \A o \in DOMAIN Settled : Settled[o] = Resolved(Filled[o])
                                        /\ ~CompoundComplete(Filled[o])
           /\ Closed \subseteq DOMAIN Settled
<1>1. /\ DOMAIN Settled = DOMAIN Filled \ Ready
      /\ \A o \in DOMAIN Settled : Settled[o] = Resolved(Filled[o])
    BY DEF Settled
<1>2. IsFiniteSet(DOMAIN Filled \ Ready)
    BY FS_Subset DEF IsMap
<1>3. Closed \subseteq DOMAIN Settled
    BY DEF Closed
<1>4. \A o \in DOMAIN Settled : ~CompoundComplete(Filled[o])
    BY <1>1 DEF Ready
<1>. QED
    BY <1>1, <1>2, <1>3, <1>4 DEF IsMap

(* What holds of every buffer goes on to hold, if ellipses and callsigns   *)
(* do not disturb it.                                                      *)
LEMMA ProcessMap ==
    ASSUME ProcessActivity, IsMap(band, Activity), NEW V, IsMap(buffers, V),
           \A b \in V \cup {NoBuffer}, age \in Age : WithEllipsis(b, age) \in V,
           \A b \in V : ~CompoundComplete(b) => Resolved(b) \in V
    PROVE  IsMap(buffers', V) /\ IsMap(Filled, V) /\ IsMap(Settled, V)
<1>1. IsMap(Filled, V)
    BY FilledIs
<1>2. IsMap(Settled, V)
    BY <1>1, SettledIs
<1>3. IsFiniteSet(DOMAIN Settled \ (Dropped \cup Closed))
    BY <1>2, FS_Subset DEF IsMap
<1>4. buffers' = [o \in DOMAIN Settled \ (Dropped \cup Closed) |-> Settled[o]]
    BY ProcessActivityIs
<1>. QED
    BY <1>1, <1>2, <1>3, <1>4 DEF IsMap

-----------------------------------------------------------------------------
(* Queues of commands.                                                     *)

(* No two commands of a queue have the same message.                       *)
Distinct(queue) ==
    \A i, j \in DOMAIN queue : queue[i].message = queue[j].message => i = j

LEMMA ConcatIs ==
    ASSUME NEW S, NEW p \in Seq(S), NEW q \in Seq(S)
    PROVE  /\ p \o q \in Seq(S)
           /\ \A i \in DOMAIN (p \o q) :
                \/ i \in DOMAIN p /\ (p \o q)[i] = p[i]
                \/ i - Len(p) \in DOMAIN q /\ (p \o q)[i] = q[i - Len(p)]
           /\ \A j \in DOMAIN p : j \in DOMAIN (p \o q) /\ (p \o q)[j] = p[j]
           /\ \A j \in DOMAIN q :
                j + Len(p) \in DOMAIN (p \o q) /\ (p \o q)[j + Len(p)] = q[j]
           /\ DOMAIN (p \o q) \subseteq Nat /\ Len(p) \in Nat
<1> DEFINE n == Len(p)
           m == Len(q)
           r == p \o q
<1>1. n \in Nat /\ DOMAIN p = 1 .. n /\ m \in Nat /\ DOMAIN q = 1 .. m
    BY LenProperties
<1>2. r \in Seq(S) /\ Len(r) = n + m
      /\ \A i \in 1 .. n + m : r[i] = IF i =< n THEN p[i] ELSE q[i - n]
    BY ConcatProperties
<1>3. DOMAIN r = 1 .. n + m
    BY <1>2, LenProperties
<1> HIDE DEF n, m, r
<1>4. /\ \A i \in 1 .. n + m :
            \/ i \in 1 .. n /\ r[i] = p[i]
            \/ i - n \in 1 .. m /\ r[i] = q[i - n]
      /\ \A j \in 1 .. n : j \in 1 .. n + m /\ r[j] = p[j]
      /\ 1 .. n + m \subseteq Nat
    BY <1>1, <1>2
<1>5. ASSUME NEW j \in 1 .. m PROVE j + n \in 1 .. n + m /\ r[j + n] = q[j]
    <2>1. j + n \in 1 .. n + m /\ ~(j + n =< n) /\ (j + n) - n = j
        BY <1>1
    <2>. QED
        BY <1>2, <2>1
<1>. QED
    BY <1>1, <1>2, <1>3, <1>4, <1>5 DEF n, r

(* A queue that has the elements of two others.                            *)
Joins(r, p, q) ==
    /\ \A i \in DOMAIN r :
         (\E j \in DOMAIN p : r[i] = p[j]) \/ (\E j \in DOMAIN q : r[i] = q[j])
    /\ \A j \in DOMAIN p : \E i \in DOMAIN r : r[i] = p[j]
    /\ \A j \in DOMAIN q : \E i \in DOMAIN r : r[i] = q[j]

LEMMA ConcatHas ==
    ASSUME NEW S, NEW p \in Seq(S), NEW q \in Seq(S), NEW r, r = p \o q
    PROVE  r \in Seq(S) /\ Joins(r, p, q)
<1>1. /\ r \in Seq(S)
      /\ \A i \in DOMAIN r :
           \/ i \in DOMAIN p /\ r[i] = p[i]
           \/ i - Len(p) \in DOMAIN q /\ r[i] = q[i - Len(p)]
      /\ \A j \in DOMAIN p : j \in DOMAIN r /\ r[j] = p[j]
      /\ \A j \in DOMAIN q : j + Len(p) \in DOMAIN r /\ r[j + Len(p)] = q[j]
    BY ConcatIs
<1>2. \A j \in DOMAIN p : \E i \in DOMAIN r : r[i] = p[j]
    BY <1>1
<1>3. ASSUME NEW j \in DOMAIN q PROVE \E i \in DOMAIN r : r[i] = q[j]
    BY <1>1
<1>4. ASSUME NEW i \in DOMAIN r
      PROVE  (\E j \in DOMAIN p : r[i] = p[j]) \/ (\E j \in DOMAIN q : r[i] = q[j])
    BY <1>1
<1>. QED
    BY <1>1, <1>2, <1>3, <1>4 DEF Joins

LEMMA ConcatDistinct ==
    ASSUME NEW S, NEW p \in Seq(S), NEW q \in Seq(S), Distinct(p), Distinct(q),
           \A i \in DOMAIN p, j \in DOMAIN q : p[i].message # q[j].message
    PROVE  Distinct(p \o q)
<1> DEFINE r == p \o q
           n == Len(p)
<1>1. /\ \A i \in DOMAIN r :
            \/ i \in DOMAIN p /\ r[i] = p[i]
            \/ i - n \in DOMAIN q /\ r[i] = q[i - n]
      /\ DOMAIN r \subseteq Nat /\ n \in Nat
    BY ConcatIs
<1> HIDE DEF r, n
<1>2. \A i, j \in DOMAIN r : r[i].message = r[j].message => i = j
    BY <1>1 DEF Distinct
<1>. QED
    BY <1>2 DEF Distinct, r

LEMMA AppendIs ==
    ASSUME NEW S, NEW q \in Seq(S), NEW x \in S
    PROVE  /\ Append(q, x) \in Seq(S)
           /\ DOMAIN Append(q, x) = 1 .. Len(q) + 1 /\ Len(q) \in Nat
           /\ DOMAIN q = 1 .. Len(q)
           /\ Append(q, x)[Len(q) + 1] = x
           /\ \A i \in DOMAIN q : Append(q, x)[i] = q[i]
BY AppendProperties, LenProperties

LEMMA CommandIs ==
    ASSUME NEW c \in Command
    PROVE  /\ c.message \in Message /\ c.from \in Station \cup {Unresolved}
           /\ c.text \in Seq(Part)
BY DEF Command

LEMMA CommandOfIs ==
    ASSUME NEW header \in Header, NEW text \in Seq(Part)
    PROVE  LET c == CommandOf(header, text)
           IN  /\ c \in Command /\ c.message = header.message /\ c.from = header.from
               /\ c.text = text
BY DEF Header, CommandOf, Command

(* What is taken up: all but those from nobody known, in some order.       *)
LEMMA TakenIs ==
    ASSUME NEW S, NEW q \in Seq(S)
    PROVE  /\ Taken(q) \in Seq(S)
           /\ \A k \in DOMAIN Taken(q) :
                \E i \in DOMAIN q : Taken(q)[k] = q[i] /\ q[i].from # Unresolved
           /\ \A i \in DOMAIN q : q[i].from # Unresolved =>
                \E k \in DOMAIN Taken(q) : Taken(q)[k] = q[i]
           /\ Distinct(q) => Distinct(Taken(q))
<1> DEFINE I == {i \in DOMAIN q : q[i].from # Unresolved}
           f == SetToSeq(I)
           t == Taken(q)
<1>1. DOMAIN q = 1 .. Len(q) /\ Len(q) \in Nat /\ \A i \in DOMAIN q : q[i] \in S
    BY LenProperties, ElementOfSeq
<1>2. IsFiniteSet(I)
    <2>1. IsFiniteSet(1 .. Len(q))
        BY <1>1, FS_Interval
    <2>. QED
        BY <1>1, <2>1, FS_Subset
<1>3. /\ f \in Seq(I) /\ DOMAIN f = 1 .. Cardinality(I) /\ Cardinality(I) \in Nat
      /\ \A i, j \in DOMAIN f : f[i] = f[j] => i = j
      /\ \A x \in I : \E i \in DOMAIN f : f[i] = x
    BY <1>2, SetAsSeq, FS_CardinalityType
<1>4. t = [k \in DOMAIN f |-> q[f[k]]]
    BY DEF Taken
<1>5. \A k \in DOMAIN f : f[k] \in I
    BY <1>3, ElementOfSeq, LenProperties
<1> HIDE DEF f, t
<1>6. t \in [1 .. Cardinality(I) -> S]
    BY <1>1, <1>3, <1>4, <1>5
<1>7. t \in Seq(S)
    <2> DEFINE n == Cardinality(I)
    <2>1. n \in Nat /\ t \in [1 .. n -> S]
        BY <1>3, <1>6
    <2> HIDE DEF n
    <2>. QED
        BY <2>1, SeqDef
<1>8. /\ \A k \in DOMAIN t : \E i \in DOMAIN q : t[k] = q[i] /\ q[i].from # Unresolved
      /\ \A i \in DOMAIN q : q[i].from # Unresolved => \E k \in DOMAIN t : t[k] = q[i]
    BY <1>3, <1>4, <1>5
<1>9. Distinct(q) => Distinct(t)
    BY <1>3, <1>4, <1>5 DEF Distinct
<1>. QED
    BY <1>7, <1>8, <1>9 DEF t

(* The commands made of some buffers of a map.                             *)
LEMMA CommandsOfIs ==
    ASSUME NEW map, NEW some, IsFiniteSet(some),
           \A o \in some : map[o] \in Buffer
    PROVE  LET S == CommandsOf(map, some)
           IN  /\ IsFiniteSet(S) /\ S \subseteq Command
               /\ SetToSeq(S) \in Seq(Command)
               /\ \A i \in DOMAIN SetToSeq(S) : \E o \in some :
                    map[o].cmd # None /\ SetToSeq(S)[i] = CommandOf(map[o].cmd, map[o].msgs)
               /\ \A o \in some : map[o].cmd # None =>
                    \E i \in DOMAIN SetToSeq(S) :
                        SetToSeq(S)[i] = CommandOf(map[o].cmd, map[o].msgs)
               /\ \A i, j \in DOMAIN SetToSeq(S) : SetToSeq(S)[i] = SetToSeq(S)[j] => i = j
<1> DEFINE D == {x \in some : map[x].cmd # None}
           f == [o \in D |-> CommandOf(map[o].cmd, map[o].msgs)]
           S == CommandsOf(map, some)
           q == SetToSeq(S)
<1>1. IsFiniteSet(D)
    BY FS_Subset
<1>2. S = {CommandOf(map[o].cmd, map[o].msgs) : o \in D}
    BY DEF CommandsOf
<1>3. f \in Surjection(D, S)
    BY <1>2 DEF Surjection
<1>4. IsFiniteSet(S)
    BY <1>1, <1>3, FS_Surjection
<1>5. S \subseteq Command
    <2>1. ASSUME NEW o \in D PROVE CommandOf(map[o].cmd, map[o].msgs) \in Command
        <3>1. map[o] \in Buffer /\ map[o].cmd # None
            OBVIOUS
        <3>2. map[o].cmd \in Header /\ map[o].msgs \in Seq(Part)
            BY <3>1, BufferIs
        <3>. QED
            BY <3>2, CommandOfIs
    <2>. QED
        BY <1>2, <2>1
<1>6. /\ q \in Seq(S)
      /\ \A i, j \in DOMAIN q : q[i] = q[j] => i = j
      /\ \A x \in S : \E i \in DOMAIN q : q[i] = x
    BY <1>4, SetAsSeq
<1>7. \A i \in DOMAIN q : q[i] \in S
    BY <1>6, ElementOfSeq, LenProperties
<1>8. q \in Seq(Command)
    BY <1>5, <1>6, SeqMonotonic
<1> HIDE DEF S, q
<1>9. \A i \in DOMAIN q : \E o \in some :
         map[o].cmd # None /\ q[i] = CommandOf(map[o].cmd, map[o].msgs)
    BY <1>2, <1>7
<1>10. \A o \in some : map[o].cmd # None =>
         \E i \in DOMAIN q : q[i] = CommandOf(map[o].cmd, map[o].msgs)
    BY <1>2, <1>6
<1>. QED
    BY <1>4, <1>5, <1>6, <1>8, <1>9, <1>10 DEF S, q

(* What is asked of the buffers, after processing.                         *)
LEMMA ProcessedMaps ==
    ASSUME Sound
    PROVE  /\ IsMap(Filled, Buffer) /\ IsMap(Settled, Buffer)
           /\ IsFiniteSet(Ready) /\ IsFiniteSet(Closed)
           /\ DOMAIN Settled = DOMAIN Filled \ Ready
           /\ \A o \in DOMAIN Settled : Settled[o] = Resolved(Filled[o])
                                        /\ ~CompoundComplete(Filled[o])
           /\ Closed \subseteq DOMAIN Settled /\ Ready \subseteq DOMAIN Filled
           /\ \A o \in Ready : Filled[o].cmd # None /\ Resolved(Filled[o]).cmd # None
<1>1. /\ IsMap(band, Activity) /\ IsMap(buffers, Buffer)
      /\ \A b \in Buffer \cup {NoBuffer}, age \in Age : WithEllipsis(b, age) \in Buffer
    BY SoundMaps, NoBufferIs, WithEllipsisIs DEF Sound
<1>2. IsMap(Filled, Buffer)
    BY <1>1, FilledIs
<1>3. \A b \in Buffer : Resolved(b) \in Buffer
    BY ResolvedIs
<1>4. /\ IsMap(Settled, Buffer) /\ DOMAIN Settled = DOMAIN Filled \ Ready
      /\ \A o \in DOMAIN Settled : Settled[o] = Resolved(Filled[o])
                                   /\ ~CompoundComplete(Filled[o])
      /\ Closed \subseteq DOMAIN Settled
    BY <1>2, <1>3, SettledIs
<1>5. Ready \subseteq DOMAIN Filled /\ \A o \in Ready : CompoundComplete(Filled[o])
    BY DEF Ready
<1>6. \A o \in Ready : Filled[o].cmd # None
    BY <1>5 DEF CompoundComplete
<1>7. \A o \in Ready : Filled[o] \in Buffer
    BY <1>2, <1>5 DEF IsMap
<1>8. \A o \in Ready : Resolved(Filled[o]).cmd # None
    BY <1>6, <1>7, ResolvedIs
<1>9. IsFiniteSet(Ready) /\ IsFiniteSet(Closed)
    BY <1>2, <1>4, <1>5, FS_Subset DEF IsMap
<1>. QED
    BY <1>2, <1>4, <1>5, <1>6, <1>8, <1>9

EarlyCommand(o) == CommandOf(Resolved(Filled[o]).cmd, << >>)

LateCommand(o) == CommandOf(Settled[o].cmd, Settled[o].msgs)

IsLate(o) == o \in Closed /\ Valid(Settled[o]) /\ Settled[o].cmd # None

(* A command that is made of a callsign and a header: nothing else was to  *)
(* come.                                                                   *)
LEMMA EarlyIs ==
    ASSUME Sound
    PROVE  LET q == SetToSeq(Early)
           IN  /\ q \in Seq(Command)
               /\ \A i \in DOMAIN q : \E o \in Ready : q[i] = EarlyCommand(o)
               /\ \A o \in Ready : \E i \in DOMAIN q : q[i] = EarlyCommand(o)
               /\ \A i, j \in DOMAIN q : q[i] = q[j] => i = j
<1> DEFINE map == [o \in Ready |-> [Resolved(Filled[o]) EXCEPT !.msgs = << >>]]
<1>1. ASSUME NEW o \in Ready
      PROVE  /\ map[o] \in Buffer /\ map[o].cmd # None
             /\ CommandOf(map[o].cmd, map[o].msgs) = EarlyCommand(o)
    <2> DEFINE r == Resolved(Filled[o])
    <2>1. Filled[o] \in Buffer
        BY ProcessedMaps DEF IsMap
    <2>2. r \in Buffer /\ r.cmd # None
        BY <2>1, ProcessedMaps, ResolvedIs
    <2>3. map[o] = [r EXCEPT !.msgs = << >>]
        OBVIOUS
    <2>4. EarlyCommand(o) = CommandOf(r.cmd, << >>)
        BY DEF EarlyCommand
    <2> HIDE DEF map, r
    <2>5. << >> \in Seq(Part)
        BY EmptySeq
    <2>6. map[o] \in Buffer /\ map[o].cmd = r.cmd /\ map[o].msgs = << >>
        BY <2>2, <2>3, <2>5 DEF Buffer
    <2>. QED
        BY <2>2, <2>4, <2>6
<1>2. Early = CommandsOf(map, Ready)
    BY DEF Early
<1> HIDE DEF map
<1>3. IsFiniteSet(Ready)
    BY ProcessedMaps
<1>4. LET q == SetToSeq(Early)
      IN  /\ q \in Seq(Command)
          /\ \A i \in DOMAIN q : \E o \in Ready :
                map[o].cmd # None /\ q[i] = CommandOf(map[o].cmd, map[o].msgs)
          /\ \A o \in Ready : map[o].cmd # None =>
                \E i \in DOMAIN q : q[i] = CommandOf(map[o].cmd, map[o].msgs)
          /\ \A i, j \in DOMAIN q : q[i] = q[j] => i = j
    BY <1>1, <1>2, <1>3, CommandsOfIs
<1>. QED
    BY <1>1, <1>4

(* One that is made of a buffer that closes.                               *)
LEMMA LateIs ==
    ASSUME Sound
    PROVE  LET q == SetToSeq(Late)
           IN  /\ q \in Seq(Command)
               /\ \A i \in DOMAIN q : \E o \in Closed : IsLate(o) /\ q[i] = LateCommand(o)
               /\ \A o \in Closed : IsLate(o) => \E i \in DOMAIN q : q[i] = LateCommand(o)
               /\ \A i, j \in DOMAIN q : q[i] = q[j] => i = j
<1> DEFINE D == {o \in Closed : Valid(Settled[o])}
<1>1. IsFiniteSet(D) /\ \A o \in D : Settled[o] \in Buffer
    BY ProcessedMaps, FS_Subset DEF IsMap
<1>2. Late = CommandsOf(Settled, D)
    BY DEF Late
<1>3. LET q == SetToSeq(Late)
      IN  /\ q \in Seq(Command)
          /\ \A i \in DOMAIN q : \E o \in D :
                Settled[o].cmd # None /\ q[i] = CommandOf(Settled[o].cmd, Settled[o].msgs)
          /\ \A o \in D : Settled[o].cmd # None =>
                \E i \in DOMAIN q : q[i] = CommandOf(Settled[o].cmd, Settled[o].msgs)
          /\ \A i, j \in DOMAIN q : q[i] = q[j] => i = j
    <2> HIDE DEF D
    <2>. QED
        BY <1>1, <1>2, CommandsOfIs
<1>. QED
    BY <1>3 DEF IsLate, LateCommand

LEMMA QueueIs ==
    ASSUME Sound
    PROVE  /\ Queue \in Seq(Command)
           /\ \A i \in DOMAIN Queue :
                \/ \E j \in DOMAIN commands : Queue[i] = commands[j]
                \/ \E o \in Ready : Queue[i] = EarlyCommand(o)
                \/ \E o \in Closed : IsLate(o) /\ Queue[i] = LateCommand(o)
           /\ \A j \in DOMAIN commands : \E i \in DOMAIN Queue : Queue[i] = commands[j]
           /\ \A o \in Ready : \E i \in DOMAIN Queue : Queue[i] = EarlyCommand(o)
           /\ \A o \in Closed : IsLate(o) => \E i \in DOMAIN Queue : Queue[i] = LateCommand(o)
<1> DEFINE q == SetToSeq(Early)
           r == SetToSeq(Late)
           cq == commands \o q
<1>1. /\ q \in Seq(Command)
      /\ \A i \in DOMAIN q : \E o \in Ready : q[i] = EarlyCommand(o)
      /\ \A o \in Ready : \E i \in DOMAIN q : q[i] = EarlyCommand(o)
    BY EarlyIs
<1>2. /\ r \in Seq(Command)
      /\ \A i \in DOMAIN r : \E o \in Closed : IsLate(o) /\ r[i] = LateCommand(o)
      /\ \A o \in Closed : IsLate(o) => \E i \in DOMAIN r : r[i] = LateCommand(o)
    BY LateIs
<1>3. commands \in Seq(Command) /\ Queue = cq \o r
    BY DEF Sound, TypeOK, Queue
<1>10. q \in Seq(Command) /\ r \in Seq(Command) /\ cq = commands \o q
    BY <1>1, <1>2
<1> HIDE DEF q, r, cq
<1>4. cq \in Seq(Command) /\ Joins(cq, commands, q)
    BY <1>3, <1>10, ConcatHas
<1>5. Queue \in Seq(Command) /\ Joins(Queue, cq, r)
    <2>1. cq \in Seq(Command) /\ r \in Seq(Command) /\ Queue = cq \o r
        BY <1>3, <1>4, <1>10
    <2>. QED
        BY <2>1, ConcatHas
<1>6. ASSUME NEW i \in DOMAIN Queue
      PROVE  \/ \E j \in DOMAIN commands : Queue[i] = commands[j]
             \/ \E o \in Ready : Queue[i] = EarlyCommand(o)
             \/ \E o \in Closed : IsLate(o) /\ Queue[i] = LateCommand(o)
    <2>1. CASE \E j \in DOMAIN cq : Queue[i] = cq[j]
        <3>1. PICK j \in DOMAIN cq : Queue[i] = cq[j]
            BY <2>1
        <3>2. (\E k \in DOMAIN commands : cq[j] = commands[k]) \/ (\E k \in DOMAIN q : cq[j] = q[k])
            BY <1>4 DEF Joins
        <3>. QED
            BY <1>1, <3>1, <3>2
    <2>2. CASE \E j \in DOMAIN r : Queue[i] = r[j]
        BY <1>2, <2>2
    <2>. QED
        BY <1>5, <2>1, <2>2 DEF Joins
<1>7. \A j \in DOMAIN commands : \E i \in DOMAIN Queue : Queue[i] = commands[j]
    BY <1>4, <1>5 DEF Joins
<1>8. \A o \in Ready : \E i \in DOMAIN Queue : Queue[i] = EarlyCommand(o)
    BY <1>1, <1>4, <1>5 DEF Joins
<1>9. \A o \in Closed : IsLate(o) => \E i \in DOMAIN Queue : Queue[i] = LateCommand(o)
    BY <1>2, <1>5 DEF Joins
<1>. QED
    BY <1>5, <1>6, <1>7, <1>8, <1>9

LEMMA HandledIs ==
    ASSUME Sound, ProcessActivity
    PROVE  /\ handled' \in Seq(Command)
           /\ \A i \in DOMAIN handled' :
                \/ \E j \in DOMAIN handled : handled'[i] = handled[j]
                \/ \E j \in DOMAIN Queue :
                     handled'[i] = Queue[j] /\ Queue[j].from # Unresolved
           /\ \A j \in DOMAIN handled : \E i \in DOMAIN handled' : handled'[i] = handled[j]
           /\ \A j \in DOMAIN Queue : Queue[j].from # Unresolved =>
                \E i \in DOMAIN handled' : handled'[i] = Queue[j]
<1> DEFINE t == Taken(Queue)
<1>1. /\ t \in Seq(Command)
      /\ \A k \in DOMAIN t : \E i \in DOMAIN Queue : t[k] = Queue[i] /\ Queue[i].from # Unresolved
      /\ \A i \in DOMAIN Queue : Queue[i].from # Unresolved => \E k \in DOMAIN t : t[k] = Queue[i]
    BY QueueIs, TakenIs
<1>2. handled' = handled \o t /\ handled \in Seq(Command)
    BY ProcessActivityIs DEF Sound, TypeOK
<1> HIDE DEF t
<1>3. handled' \in Seq(Command) /\ Joins(handled', handled, t)
    <2>1. t \in Seq(Command) /\ handled \in Seq(Command) /\ handled' = handled \o t
        BY <1>1, <1>2
    <2>. QED
        BY <2>1, ConcatHas
<1>4. ASSUME NEW i \in DOMAIN handled'
      PROVE  \/ \E j \in DOMAIN handled : handled'[i] = handled[j]
             \/ \E j \in DOMAIN Queue :
                  handled'[i] = Queue[j] /\ Queue[j].from # Unresolved
    BY <1>1, <1>3 DEF Joins
<1>5. ASSUME NEW j \in DOMAIN Queue, Queue[j].from # Unresolved
      PROVE  \E i \in DOMAIN handled' : handled'[i] = Queue[j]
    BY <1>1, <1>3, <1>5 DEF Joins
<1>. QED
    BY <1>3, <1>4, <1>5 DEF Joins

-----------------------------------------------------------------------------
(* What the other steps do.                                                *)

LEMMA ReceiveIs ==
    ASSUME Sound, NEW frame \in Frame, NEW o \in Offset, ProcessDecodeEvent(frame, o)
    PROVE  /\ seen' \subseteq Frame /\ IsMap(band', Activity)
           /\ IsDuplicate(frame) => UNCHANGED <<seen, band, buffers, commands>>
           /\ ~IsDuplicate(frame) =>
                /\ seen' = seen \cup {frame}
                /\ band' = Put(Follow(band, o), o, [idle |-> frame.last, age |-> 0])
           /\ \/ commands' = commands
              \/ /\ frame.kind = "directed" /\ ~Waits(HeaderOf(frame))
                 /\ commands' = Append(commands, CommandOf(HeaderOf(frame), << >>))
                 /\ CommandOf(HeaderOf(frame), << >>) \in Command
           /\ commands' \in Seq(Command)
<1>1. seen \subseteq Frame /\ commands \in Seq(Command) /\ IsMap(band, Activity)
    BY SoundMaps DEF Sound, TypeOK
<1>2. IsDuplicate(frame) => UNCHANGED <<seen, band, buffers, commands>>
    BY DEF ProcessDecodeEvent
<1>3. ~IsDuplicate(frame) =>
        /\ seen' = seen \cup {frame}
        /\ band' = Put(Follow(band, o), o, [idle |-> frame.last, age |-> 0])
        /\ \/ commands' = commands
           \/ /\ frame.kind = "directed" /\ ~Waits(HeaderOf(frame))
              /\ commands' = Append(commands, CommandOf(HeaderOf(frame), << >>))
    BY DEF ProcessDecodeEvent
<1>4. HeaderOf(frame) \in Header /\ << >> \in Seq(Part)
    BY HeaderOfIs, EmptySeq DEF Sound
<1>5. CommandOf(HeaderOf(frame), << >>) \in Command
    BY <1>4, CommandOfIs
<1>6. IsMap(band', Activity)
    <2>1. CASE IsDuplicate(frame)
        BY <1>1, <1>2, <2>1
    <2>2. CASE ~IsDuplicate(frame)
        <3>1. IsMap(Follow(band, o), Activity)
            BY <1>1, FollowMap
        <3>2. [idle |-> frame.last, age |-> 0] \in Activity
            BY NoBufferIs DEF Frame, Activity, Sound
        <3>. QED
            BY <1>3, <2>2, <3>1, <3>2, PutMap
    <2>. QED
        BY <2>1, <2>2
<1>7. commands' \in Seq(Command)
    BY <1>1, <1>2, <1>3, <1>5, AppendProperties
<1>. QED
    BY <1>1, <1>2, <1>3, <1>5, <1>6, <1>7

LEMMA SentIs ==
    ASSUME Sound, NEW s \in Station, Sending(s), NEW o \in Nat, Sent(s, o)
    PROVE  LET st == station[s]
               m == st.message
               k == st.sent
           IN  /\ station' \in [Station -> StationState]
               /\ \A t \in Station : t # s => station'[t] = station[t]
               /\ station'[s].wait = 2
               /\ IF k + 1 = LastAt(m)
                  THEN /\ station'[s].message = None /\ station'[s].sent = 0
                       /\ station'[s].whole = TRUE
                       /\ received' = IF st.whole /\ o # 0
                                      THEN received \cup
                                            {[message |-> m, drift |-> DriftTo(st, o)]}
                                      ELSE received
                  ELSE /\ station'[s].message = m /\ station'[s].sent = k + 1
                       /\ station'[s].whole = (st.whole /\ o # 0)
                       /\ received' = received
               /\ DriftTo(st, o) \in Drift
<1> DEFINE st == station[s]
           m == st.message
           k == st.sent
           drift == DriftTo(st, o)
           whole == st.whole /\ o # 0
           stopped == [st EXCEPT !.message = None, !.sent = 0, !.wait = 2,
                                 !.offset = 0, !.drift = "none", !.whole = TRUE]
           next == [st EXCEPT !.sent = @ + 1, !.wait = 2, !.drift = drift, !.whole = whole,
                              !.offset = IF o = 0 THEN @ ELSE o]
<1>1. /\ st \in StationState /\ st.message \in Message \cup {None} /\ st.sent \in 0 .. MaxText + 1
      /\ st.offset \in Nat /\ st.drift \in Drift /\ st.whole \in BOOLEAN
      /\ m \in Message /\ k \in Nat /\ k < LastAt(m)
    BY StationIs
<1>2. drift \in Drift
    BY <1>1 DEF DriftTo, Drift
<1>3. LastAt(m) =< MaxText + 2 /\ LastAt(m) \in Nat /\ MaxText \in Nat
    BY <1>1, MessageIs, Constants
<1>4. station' = [station EXCEPT ![s] = IF k + 1 = LastAt(m) THEN stopped ELSE next]
      /\ received' = IF k + 1 = LastAt(m) /\ whole
                     THEN received \cup {[message |-> m, drift |-> drift]}
                     ELSE received
    BY DEF Sent
<1>5. station \in [Station -> StationState]
    BY DEF Sound, TypeOK
<1>6. whole \in BOOLEAN
    OBVIOUS
<1>11. /\ 0 \in 0 .. MaxText + 1 /\ 2 \in 0 .. 2 /\ 0 \in Nat /\ "none" \in Drift
       /\ None \in Message \cup {None} /\ TRUE \in BOOLEAN
    BY <1>3 DEF Drift
<1>12. st \in StationState /\ k = st.sent /\ st.offset \in Nat /\ k \in Nat /\ m = st.message
    BY <1>1
<1> HIDE DEF st, drift, whole, k, m
<1>7. /\ stopped \in StationState /\ stopped.message = None /\ stopped.sent = 0
      /\ stopped.wait = 2 /\ stopped.whole = TRUE
    BY <1>11, <1>12 DEF StationState
<1>8. k + 1 # LastAt(m) => k + 1 \in 0 .. MaxText + 1
    BY <1>1, <1>3
<1>9. k + 1 # LastAt(m) =>
      /\ next \in StationState /\ next.message = m /\ next.sent = k + 1
      /\ next.wait = 2 /\ next.whole = whole
    <2> DEFINE offset == IF o = 0 THEN st.offset ELSE o
    <2>1. offset \in Nat
        BY <1>12
    <2>2. next = [st EXCEPT !.sent = k + 1, !.wait = 2, !.drift = drift, !.whole = whole,
                            !.offset = offset]
        BY <1>12 DEF StationState
    <2> HIDE DEF next, offset
    <2>. QED
        BY <1>2, <1>6, <1>8, <1>11, <1>12, <2>1, <2>2 DEF StationState
<1> HIDE DEF stopped, next
<1>10. /\ station' \in [Station -> StationState]
       /\ \A t \in Station : t # s => station'[t] = station[t]
       /\ station'[s] = IF k + 1 = LastAt(m) THEN stopped ELSE next
    BY <1>4, <1>5, <1>7, <1>9
<1>. QED
    BY <1>2, <1>4, <1>7, <1>9, <1>10 DEF st, m, k, drift, whole

AgedBuffer(b) ==
    [b EXCEPT !.cmd = IF @ = None THEN None ELSE Aged(@),
              !.compound = [i \in DOMAIN @ |-> Aged(@[i])],
              !.age = IF b.msgs = << >> THEN 0 ELSE Older(@)]

LEMMA AgedIs ==
    ASSUME TypeOK, NEW b \in Buffer
    PROVE  LET c == AgedBuffer(b)
           IN  /\ c \in Buffer /\ c.msgs = b.msgs /\ c.last = b.last
               /\ c.age = IF b.msgs = << >> THEN 0 ELSE Older(b.age)
               /\ c.cmd = None <=> b.cmd = None
               /\ b.cmd # None =>
                    /\ c.cmd.message = b.cmd.message /\ c.cmd.from = b.cmd.from
                    /\ c.cmd.last = b.cmd.last /\ c.cmd.age = Older(b.cmd.age)
               /\ Len(c.compound) = Len(b.compound)
               /\ DOMAIN c.compound = DOMAIN b.compound
               /\ \A i \in DOMAIN b.compound :
                    /\ c.compound[i].call = b.compound[i].call
                    /\ c.compound[i].last = b.compound[i].last
                    /\ c.compound[i].age = Older(b.compound[i].age)
<1> DEFINE c == AgedBuffer(b)
           cmd == IF b.cmd = None THEN None ELSE Aged(b.cmd)
           calls == [i \in DOMAIN b.compound |-> Aged(b.compound[i])]
           age == IF b.msgs = << >> THEN 0 ELSE Older(b.age)
           n == Len(b.compound)
<1>1. \A a \in Age : Older(a) \in Age
    BY AgesAre
<1>2. b.compound \in Seq(Call) /\ n \in Nat /\ DOMAIN b.compound = 1 .. n
    BY BufferIs, LenProperties
<1>3. age \in Age
    BY <1>1, BufferIs, NoBufferIs
<1>4. /\ cmd \in Header \cup {None}
      /\ cmd = None <=> b.cmd = None
      /\ b.cmd # None =>
           /\ cmd.message = b.cmd.message /\ cmd.from = b.cmd.from
           /\ cmd.last = b.cmd.last /\ cmd.age = Older(b.cmd.age)
    <2>1. CASE b.cmd = None
        BY <2>1
    <2>2. CASE b.cmd # None
        <3> DEFINE h == b.cmd
        <3>1. h \in Header /\ h.age \in Age
            BY <2>2, BufferIs
        <3>2. cmd = [h EXCEPT !.age = Older(h.age)]
            BY <2>2 DEF Aged, Header
        <3> HIDE DEF h, cmd
        <3>3. /\ cmd \in Header /\ cmd.message = h.message /\ cmd.from = h.from
              /\ cmd.last = h.last /\ cmd.age = Older(h.age)
            BY <1>1, <3>1, <3>2 DEF Header
        <3>4. cmd # None
            BY <3>3, NoneIsApart
        <3>. QED
            BY <2>2, <3>3, <3>4 DEF h
    <2>. QED
        BY <2>1, <2>2
<1>5. ASSUME NEW i \in 1 .. n
      PROVE  LET x == b.compound[i]
                 y == Aged(x)
             IN  y \in Call /\ y.call = x.call /\ y.last = x.last /\ y.age = Older(x.age)
    <2> DEFINE x == b.compound[i]
    <2>1. x \in Call /\ x.age \in Age
        BY <1>2, BufferIs
    <2> HIDE DEF x
    <2>2. LET y == Aged(x)
          IN  y \in Call /\ y.call = x.call /\ y.last = x.last /\ y.age = Older(x.age)
        BY <1>1, <2>1 DEF Aged, Call
    <2>. QED
        BY <2>2 DEF x
<1>6. calls \in [1 .. n -> Call]
    BY <1>2, <1>5
<1>7. calls \in Seq(Call) /\ Len(calls) = n
    <2> HIDE DEF calls, n
    <2>1. n \in Nat
        BY <1>2
    <2>2. calls \in Seq(Call)
        BY <1>6, <2>1, SeqDef
    <2>. QED
        BY <1>6, <2>1, <2>2, LenProperties
<1>8. c = [b EXCEPT !.cmd = cmd, !.compound = calls, !.age = age]
    BY DEF AgedBuffer, Buffer
<1>9. \A i \in DOMAIN b.compound :
        /\ calls[i].call = b.compound[i].call
        /\ calls[i].last = b.compound[i].last
        /\ calls[i].age = Older(b.compound[i].age)
    BY <1>2, <1>5
<1>10. DOMAIN calls = DOMAIN b.compound
    OBVIOUS
<1> HIDE DEF c, cmd, calls, age
<1>12. cmd \in Header \cup {None} /\ calls \in Seq(Call)
    BY <1>4, <1>7
<1>11. /\ c \in Buffer /\ c.cmd = cmd /\ c.compound = calls /\ c.msgs = b.msgs
       /\ c.last = b.last /\ c.age = age
    BY <1>3, <1>8, <1>12 DEF Buffer
<1>. QED
    BY <1>4, <1>7, <1>9, <1>10, <1>11 DEF c, age, n

LEMMA TickIs ==
    ASSUME Sound, Tick
    PROVE  /\ station' \in [Station -> StationState]
           /\ \A s \in Station :
                /\ station'[s].message = station[s].message
                /\ station'[s].sent = station[s].sent
                /\ station'[s].whole = station[s].whole
                /\ station'[s].wait = IF station[s].wait = 0 THEN 0 ELSE station[s].wait - 1
                /\ Sending(s) => station[s].wait > 0
           /\ DOMAIN buffers' = DOMAIN buffers
           /\ \A o \in DOMAIN buffers : buffers'[o] = AgedBuffer(buffers[o])
           /\ DOMAIN band' = DOMAIN band
           /\ \A o \in DOMAIN band :
                /\ band'[o] \in Activity /\ band'[o].idle = band[o].idle
                /\ ~band[o].idle => band'[o].age = Older(band[o].age)
           /\ processed /\ processed' = FALSE /\ seen' = {}
           /\ UNCHANGED <<minute, begun, lost, commands, handled, received>>
<1>1. ASSUME NEW s \in Station
      PROVE  LET st == [station[s] EXCEPT !.wait = IF @ = 0 THEN 0 ELSE @ - 1]
             IN  /\ st \in StationState /\ st.message = station[s].message
                 /\ st.sent = station[s].sent /\ st.whole = station[s].whole
                 /\ st.wait = IF station[s].wait = 0 THEN 0 ELSE station[s].wait - 1
    <2> DEFINE old == station[s]
    <2>1. old \in StationState /\ old.wait \in 0 .. 2
        BY StationIs
    <2> HIDE DEF old
    <2>2. LET st == [old EXCEPT !.wait = IF @ = 0 THEN 0 ELSE @ - 1]
          IN  /\ st \in StationState /\ st.message = old.message
              /\ st.sent = old.sent /\ st.whole = old.whole
              /\ st.wait = IF old.wait = 0 THEN 0 ELSE old.wait - 1
        BY <2>1 DEF StationState
    <2>. QED
        BY <2>2 DEF old
<1>2. station' = [s \in Station |-> [station[s] EXCEPT !.wait = IF @ = 0 THEN 0 ELSE @ - 1]]
    BY DEF Tick
<1>3. /\ DOMAIN buffers' = DOMAIN buffers
      /\ \A o \in DOMAIN buffers : buffers'[o] = AgedBuffer(buffers[o])
    BY DEF Tick, AgedBuffer
<1>4. DOMAIN band' = DOMAIN band
      /\ \A o \in DOMAIN band : band'[o] = IF band[o].idle THEN band[o] ELSE Aged(band[o])
    BY DEF Tick
<1>5. ASSUME NEW o \in DOMAIN band
      PROVE  /\ band'[o] \in Activity /\ band'[o].idle = band[o].idle
             /\ ~band[o].idle => band'[o].age = Older(band[o].age)
    <2> DEFINE old == band[o]
    <2>1. old \in Activity /\ old.age \in Age /\ Older(old.age) \in Age
        BY SoundMaps, AgesAre DEF IsMap, Activity, Sound
    <2>2. band'[o] = IF old.idle THEN old ELSE [old EXCEPT !.age = Older(@)]
        BY <1>4 DEF Aged
    <2> HIDE DEF old
    <2>3. /\ band'[o] \in Activity /\ band'[o].idle = old.idle
          /\ ~old.idle => band'[o].age = Older(old.age)
        BY <2>1, <2>2 DEF Activity
    <2>. QED
        BY <2>3 DEF old
<1>6. /\ processed /\ processed' = FALSE /\ seen' = {}
      /\ UNCHANGED <<minute, begun, lost, commands, handled, received>>
      /\ \A s \in Station : Sending(s) => station[s].wait > 0
    BY DEF Tick
<1>7. station' \in [Station -> StationState]
    BY <1>1, <1>2
<1>8. \A s \in Station :
                /\ station'[s].message = station[s].message
                /\ station'[s].sent = station[s].sent
                /\ station'[s].whole = station[s].whole
                /\ station'[s].wait = IF station[s].wait = 0 THEN 0 ELSE station[s].wait - 1
    BY <1>1, <1>2
<1>. QED
    BY <1>3, <1>4, <1>5, <1>6, <1>7, <1>8

-----------------------------------------------------------------------------
(* Type correctness is an invariant.                                       *)

Receipt == [message : Message, drift : Drift]

LEMMA TypesStay ==
    ASSUME minute' = minute
    PROVE  Age' = Age /\ Buffer' = Buffer /\ Header' = Header /\ Call' = Call
           /\ Activity' = Activity /\ MaxAge' = MaxAge
<1>1. Age' = Age /\ MaxAge' = MaxAge
    BY DEF Age, MaxAge, DropAfter
<1>2. Header' = Header /\ Call' = Call /\ Activity' = Activity
    BY <1>1 DEF Header, Call, Activity
<1>. QED
    BY <1>1, <1>2 DEF Buffer

LEMMA SoundAgain ==
    ASSUME minute \in Minutes, minute' = minute, station' \in [Station -> StationState],
           begun' \in 0 .. MaxMessages, lost' \in 0 .. MaxLost, seen' \subseteq Frame,
           IsMap(band', Activity), IsMap(buffers', Buffer), commands' \in Seq(Command),
           processed' \in BOOLEAN, handled' \in Seq(Command), received' \subseteq Receipt,
           InOrder'
    PROVE  Sound'
<1>1. Age' = Age /\ Buffer' = Buffer
    BY TypesStay
<1>2. /\ DOMAIN band' \subseteq Offset /\ IsFiniteSet(DOMAIN band')
      /\ \A o \in DOMAIN band' : band'[o] \in [idle : BOOLEAN, age : Age']
    BY <1>1 DEF IsMap, Activity
<1>3. /\ DOMAIN buffers' \subseteq Offset /\ IsFiniteSet(DOMAIN buffers')
      /\ \A o \in DOMAIN buffers' : buffers'[o] \in Buffer'
    BY <1>1 DEF IsMap
<1>4. received' \subseteq [message : Message, drift : Drift]
    BY DEF Receipt
<1>5. TypeOK'
    BY <1>2, <1>3, <1>4 DEF TypeOK
<1>. QED
    BY <1>2, <1>3, <1>5 DEF Sound

LEMMA SoundIs ==
    ASSUME Sound
    PROVE  /\ minute \in Minutes /\ station \in [Station -> StationState]
           /\ begun \in 0 .. MaxMessages /\ lost \in 0 .. MaxLost /\ seen \subseteq Frame
           /\ IsMap(band, Activity) /\ IsMap(buffers, Buffer) /\ commands \in Seq(Command)
           /\ processed \in BOOLEAN /\ handled \in Seq(Command) /\ received \subseteq Receipt
           /\ InOrder
BY SoundMaps DEF Sound, TypeOK, Receipt

LEMMA InitSound == Init => Sound
<1> SUFFICES ASSUME Init PROVE Sound
    OBVIOUS
<1>1. DOMAIN band = {} /\ DOMAIN buffers = {}
    BY DEF Init
<1>2. commands \in Seq(Command) /\ handled \in Seq(Command)
    BY EmptySeq DEF Init
<1>3. station \in [Station -> StationState]
    <2>1. [message |-> None, sent |-> 0, wait |-> 0, offset |-> 0,
           drift |-> "none", whole |-> TRUE] \in StationState
        BY Constants DEF StationState, Drift
    <2>. QED
        BY <2>1 DEF Init
<1>4. \A s \in Station : ~Sending(s)
    BY DEF Init, Sending
<1>5. TypeOK
    <2>1. 0 \in 0 .. MaxMessages /\ 0 \in 0 .. MaxLost
        BY Constants
    <2>2. minute \in Minutes /\ begun = 0 /\ lost = 0 /\ seen = {} /\ processed = FALSE
          /\ received = {}
        BY DEF Init
    <2>. QED
        BY <1>1, <1>2, <1>3, <2>1, <2>2 DEF TypeOK
<1>6. \A s \in Station : station[s].sent = 0
    BY DEF Init
<1>. QED
    BY <1>1, <1>4, <1>5, <1>6, FS_EmptySet DEF Sound, InOrder

(* The message that a station begins.                                      *)
NewMessage(s, checked, parts) ==
    [from |-> s, number |-> begun + 1, checked |-> checked, parts |-> parts]

LEMMA BeginIs ==
    ASSUME Sound, NEW s \in Station, NEW checked \in BOOLEAN, NEW parts \in 0 .. MaxText,
           Begin(s, checked, parts)
    PROVE  LET m == NewMessage(s, checked, parts)
           IN  /\ m \in Message /\ m # None /\ m.from = s /\ m.number = begun + 1
               /\ station' \in [Station -> StationState]
               /\ \A t \in Station : t # s => station'[t] = station[t]
               /\ station'[s].message = m /\ station'[s].sent = station[s].sent
               /\ station'[s].wait = station[s].wait /\ station'[s].whole = station[s].whole
               /\ begun' = begun + 1 /\ begun' \in 0 .. MaxMessages
               /\ ~Sending(s) /\ station[s].wait = 0
               /\ \A t \in Station \ {s} : NearStations(s, t) =>
                    ~Sending(t) /\ station[t].wait = 0
               /\ UNCHANGED <<minute, lost, seen, band, buffers, commands, processed,
                              handled, received>>
<1> DEFINE m == NewMessage(s, checked, parts)
           old == station[s]
<1>1. begun \in 0 .. MaxMessages /\ begun < MaxMessages /\ MaxMessages \in Nat
    BY SoundIs, Constants DEF Begin
<1>2. begun + 1 \in 1 .. MaxMessages /\ begun + 1 \in 0 .. MaxMessages
    BY <1>1
<1>3. m \in Message /\ m.from = s /\ m.number = begun + 1
    BY <1>2 DEF NewMessage, Message
<1>4. m # None
    BY <1>3, NoneIsApart
<1>5. station' = [station EXCEPT ![s] = [old EXCEPT !.message = m]] /\ begun' = begun + 1
    BY SoundIs DEF Begin, NewMessage
<1>6. old \in StationState /\ station \in [Station -> StationState]
    BY SoundIs
<1> HIDE DEF m
<1>7. /\ station' \in [Station -> StationState]
      /\ \A t \in Station : t # s => station'[t] = station[t]
      /\ station'[s] = [old EXCEPT !.message = m]
    <2> DEFINE new == [old EXCEPT !.message = m]
    <2>1. new \in StationState
        BY <1>3, <1>6 DEF StationState
    <2>2. station' = [station EXCEPT ![s] = new]
        BY <1>5
    <2> HIDE DEF new
    <2>3. /\ station' \in [Station -> StationState]
          /\ \A t \in Station : t # s => station'[t] = station[t]
          /\ station'[s] = new
        BY <1>6, <2>1, <2>2
    <2>. QED
        BY <2>3 DEF new
<1>8. /\ station'[s].message = m /\ station'[s].sent = old.sent
      /\ station'[s].wait = old.wait /\ station'[s].whole = old.whole
    BY <1>6, <1>7 DEF StationState
<1>9. /\ ~Sending(s) /\ station[s].wait = 0
      /\ \A t \in Station \ {s} : NearStations(s, t) => ~Sending(t) /\ station[t].wait = 0
      /\ UNCHANGED <<minute, lost, seen, band, buffers, commands, processed, handled, received>>
    BY DEF Begin
<1>. QED
    BY <1>2, <1>3, <1>4, <1>5, <1>7, <1>8, <1>9 DEF m

LEMMA SentSound ==
    ASSUME Sound, NEW s \in Station, Sending(s), NEW o \in Nat, Sent(s, o)
    PROVE  station' \in [Station -> StationState] /\ received' \subseteq Receipt /\ InOrder'
<1> DEFINE st == station[s]
           m == st.message
           k == st.sent
<1>1. /\ station' \in [Station -> StationState]
      /\ \A t \in Station : t # s => station'[t] = station[t]
      /\ IF k + 1 = LastAt(m)
         THEN /\ station'[s].message = None /\ station'[s].sent = 0
              /\ received' = IF st.whole /\ o # 0
                             THEN received \cup {[message |-> m, drift |-> DriftTo(st, o)]}
                             ELSE received
         ELSE /\ station'[s].message = m /\ station'[s].sent = k + 1
              /\ received' = received
      /\ DriftTo(st, o) \in Drift
    BY SentIs
<1>2. m \in Message /\ m.from = s /\ k \in Nat /\ k < LastAt(m) /\ LastAt(m) \in Nat /\ m # None
    BY StationIs, MessageIs DEF Sending
<1>3. received \subseteq Receipt /\ InOrder
    BY SoundIs
<1>4. [message |-> m, drift |-> DriftTo(st, o)] \in Receipt
    BY <1>1, <1>2 DEF Receipt
<1> HIDE DEF m, k
<1>5. k + 1 # LastAt(m) => k + 1 < LastAt(m)
    BY <1>2
<1>6. InOrder'
    BY <1>1, <1>2, <1>3, <1>5 DEF InOrder, Sending
<1>. QED
    BY <1>1, <1>3, <1>4, <1>6

LEMMA ReceiveTyped ==
    ASSUME Sound, NEW frame \in Frame, NEW o \in Offset, ProcessDecodeEvent(frame, o),
           frame.kind = "data" => frame.part \in 1 .. frame.message.parts
    PROVE  IsMap(buffers', Buffer)
<1>1. IsMap(buffers, Buffer) /\ TypeOK
    BY SoundIs DEF Sound
<1>2. frame.kind = "data" => \A b \in Buffer : WithText(b, frame) \in Buffer
    BY <1>1, WithTextIs
<1>3. \A b \in Buffer \cup {NoBuffer} :
        WithCall(b, frame) \in Buffer /\ WithHeader(b, frame) \in Buffer
    BY <1>1, NoBufferIs, WithCallIs, WithHeaderIs
<1>. QED
    BY <1>1, <1>2, <1>3, ReceiveMap

(* A frame that is decoded once more changes nothing.                      *)
LEMMA AgainChangesNothing ==
    ASSUME NEW frame \in seen, NEW o, DecodeAgain(frame, o)
    PROVE  UNCHANGED vars
<1>1. IsDuplicate(frame)
    BY DEF IsDuplicate
<1>. QED
    BY <1>1 DEF DecodeAgain, ProcessDecodeEvent, vars

(* The next frame of s is decoded at o and taken.                          *)
Takes(s, o) == SendDecoded(s, o) /\ ~IsDuplicate(NextFrame(s))

(* It is not decoded, or dropped as a duplicate.                           *)
Misses(s) ==
    /\ Sending(s) /\ station[s].wait = 0 /\ Sent(s, 0)
    /\ processed' => processed
    /\ UNCHANGED <<minute, begun, seen, band, buffers, commands, handled>>

LEMMA TakesIs ==
    ASSUME NEW s \in Station, NEW o \in Offsets[s], Takes(s, o)
    PROVE  /\ o \in Offset /\ o \in Nat /\ o # 0 /\ Sending(s) /\ station[s].wait = 0
           /\ ProcessDecodeEvent(NextFrame(s), o) /\ ~IsDuplicate(NextFrame(s))
           /\ Sent(s, o) /\ processed' = FALSE /\ UNCHANGED <<minute, begun, lost, handled>>
BY Constants DEF Takes, SendDecoded

LEMMA DecodedIs ==
    ASSUME NEW s \in Station, NEW o \in Offsets[s], SendDecoded(s, o)
    PROVE  /\ o \in Offset /\ Sending(s) /\ station[s].wait = 0
           /\ ProcessDecodeEvent(NextFrame(s), o) /\ \E p \in Nat : Sent(s, p)
           /\ processed' = FALSE /\ UNCHANGED <<minute, begun, lost, handled>>
           /\ Takes(s, o) \/ (IsDuplicate(NextFrame(s)) /\ Misses(s))
<1>1. /\ o \in Offset /\ o \in Nat /\ Sending(s) /\ station[s].wait = 0
      /\ ProcessDecodeEvent(NextFrame(s), o)
      /\ Sent(s, IF IsDuplicate(NextFrame(s)) THEN 0 ELSE o)
      /\ processed' = FALSE /\ UNCHANGED <<minute, begun, lost, handled>>
    BY Constants DEF SendDecoded
<1>2. CASE IsDuplicate(NextFrame(s))
    <2>1. Sent(s, 0)
        BY <1>1, <1>2
    <2>2. UNCHANGED <<seen, band, buffers, commands>>
        BY <1>1, <1>2 DEF ProcessDecodeEvent
    <2>. QED
        BY <1>1, <1>2, <2>1, <2>2 DEF Misses
<1>3. CASE ~IsDuplicate(NextFrame(s))
    BY <1>1, <1>3 DEF Takes
<1>. QED
    BY <1>1, <1>2, <1>3

LEMMA LostMisses ==
    ASSUME NEW s \in Station, SendLost(s)
    PROVE  Misses(s)
BY DEF SendLost, Misses

LEMMA UnchangedSound ==
    ASSUME Sound, UNCHANGED vars
    PROVE  Sound'
<1>1. minute' = minute
    BY DEF vars
<1>2. /\ minute' \in Minutes /\ station' \in [Station -> StationState]
      /\ begun' \in 0 .. MaxMessages /\ lost' \in 0 .. MaxLost /\ seen' \subseteq Frame
      /\ IsMap(band', Activity) /\ IsMap(buffers', Buffer) /\ commands' \in Seq(Command)
      /\ processed' \in BOOLEAN /\ handled' \in Seq(Command) /\ received' \subseteq Receipt
    BY SoundIs DEF vars
<1>3. InOrder'
    BY SoundIs DEF vars, InOrder, Sending
<1>. QED
    BY <1>1, <1>2, <1>3, SoundAgain

LEMMA StepSound == Sound /\ [Next]_vars => Sound'
<1> SUFFICES ASSUME Sound, [Next]_vars PROVE Sound'
    OBVIOUS
<1>0. /\ minute \in Minutes /\ station \in [Station -> StationState]
      /\ begun \in 0 .. MaxMessages /\ lost \in 0 .. MaxLost /\ seen \subseteq Frame
      /\ IsMap(band, Activity) /\ IsMap(buffers, Buffer) /\ commands \in Seq(Command)
      /\ processed \in BOOLEAN /\ handled \in Seq(Command) /\ received \subseteq Receipt
      /\ InOrder
    BY SoundIs
<1>1. ASSUME NEW s \in Station, NEW checked \in BOOLEAN, NEW parts \in 0 .. MaxText,
             Begin(s, checked, parts)
      PROVE  Sound'
    <2> DEFINE m == NewMessage(s, checked, parts)
    <2>1. /\ m \in Message /\ m.from = s /\ station' \in [Station -> StationState]
          /\ \A t \in Station : t # s => station'[t] = station[t]
          /\ station'[s].message = m /\ station'[s].sent = station[s].sent
          /\ begun' \in 0 .. MaxMessages
          /\ UNCHANGED <<minute, lost, seen, band, buffers, commands, processed,
                         handled, received>>
        BY <1>1, BeginIs
    <2> HIDE DEF m
    <2>2. station'[s].sent = 0
        BY <1>1, <2>1, StationIs, BeginIs
    <2>3. InOrder'
        BY <1>0, <2>1, <2>2, MessageIs DEF InOrder, Sending
    <2>. QED
        BY <1>0, <2>1, <2>3, SoundAgain
<1>2. ASSUME NEW s \in Station, SendLost(s) PROVE Sound'
    <2>1. /\ Sending(s) /\ Sent(s, 0) /\ lost' = lost + 1 /\ lost < MaxLost
          /\ UNCHANGED <<minute, begun, seen, band, buffers, commands, processed, handled>>
        BY <1>2 DEF SendLost
    <2>2. lost' \in 0 .. MaxLost
        BY <1>0, <2>1, Constants
    <2>3. station' \in [Station -> StationState] /\ received' \subseteq Receipt /\ InOrder'
        BY <2>1, SentSound
    <2>. QED
        BY <1>0, <2>1, <2>2, <2>3, SoundAgain
<1>3. ASSUME NEW s \in Station, NEW o \in Offsets[s], SendDecoded(s, o) PROVE Sound'
    <2>1. /\ Sending(s) /\ ProcessDecodeEvent(NextFrame(s), o) /\ o \in Offset
          /\ processed' = FALSE /\ UNCHANGED <<minute, begun, lost, handled>>
        BY <1>3, DecodedIs
    <2>2. PICK p \in Nat : Sent(s, p)
        BY <1>3, DecodedIs
    <2>3. station' \in [Station -> StationState] /\ received' \subseteq Receipt /\ InOrder'
        BY <2>1, <2>2, SentSound
    <2>4. /\ seen' \subseteq Frame /\ IsMap(band', Activity) /\ commands' \in Seq(Command)
          /\ IsMap(buffers', Buffer)
        BY <2>1, NextFrameIs, ReceiveIs, ReceiveTyped
    <2>. QED
        BY <1>0, <2>1, <2>3, <2>4, SoundAgain
<1>4. ASSUME NEW frame \in seen, NEW o \in Offset, DecodeAgain(frame, o) PROVE Sound'
    <2>1. UNCHANGED vars
        BY <1>4, AgainChangesNothing
    <2>. QED
        BY <2>1, UnchangedSound
<1>5. CASE ProcessActivity
    <2>1. /\ commands' = << >> /\ processed' = TRUE
          /\ UNCHANGED <<minute, station, begun, lost, seen, received>>
          /\ band' = [o \in DOMAIN band |->
                        IF o \in IdleOffsets THEN [idle |-> TRUE, age |-> 0] ELSE band[o]]
        BY <1>5, ProcessActivityIs
    <2>2. handled' \in Seq(Command) /\ commands' \in Seq(Command)
        BY <1>5, <2>1, HandledIs, EmptySeq
    <2>3. \A b \in Buffer \cup {NoBuffer}, age \in Age : WithEllipsis(b, age) \in Buffer
        BY NoBufferIs, WithEllipsisIs DEF Sound
    <2>4. \A b \in Buffer : Resolved(b) \in Buffer
        BY ResolvedIs
    <2>5. IsMap(buffers', Buffer)
        BY <1>0, <1>5, <2>3, <2>4, ProcessMap
    <2>6. [idle |-> TRUE, age |-> 0] \in Activity
        BY NoBufferIs DEF Activity, Sound
    <2>7. IsMap(band', Activity)
        BY <1>0, <2>1, <2>6 DEF IsMap
    <2>8. InOrder'
        BY <1>0, <2>1 DEF InOrder, Sending
    <2>. QED
        BY <1>0, <2>1, <2>2, <2>5, <2>7, <2>8, SoundAgain
<1>6. CASE Tick
    <2>1. /\ station' \in [Station -> StationState]
          /\ \A s \in Station : /\ station'[s].message = station[s].message
                                /\ station'[s].sent = station[s].sent
          /\ DOMAIN buffers' = DOMAIN buffers
          /\ \A o \in DOMAIN buffers : buffers'[o] = AgedBuffer(buffers[o])
          /\ DOMAIN band' = DOMAIN band
          /\ \A o \in DOMAIN band : band'[o] \in Activity
          /\ processed' = FALSE /\ seen' = {}
          /\ UNCHANGED <<minute, begun, lost, commands, handled, received>>
        BY <1>6, TickIs
    <2>2. \A b \in Buffer : AgedBuffer(b) \in Buffer
        BY AgedIs DEF Sound
    <2>3. IsMap(buffers', Buffer) /\ IsMap(band', Activity)
        BY <1>0, <2>1, <2>2 DEF IsMap
    <2>4. InOrder'
        BY <1>0, <2>1 DEF InOrder, Sending
    <2>. QED
        BY <1>0, <2>1, <2>3, <2>4, SoundAgain
<1>7. CASE UNCHANGED vars
    BY <1>7, UnchangedSound
<1>. QED
    BY <1>1, <1>2, <1>3, <1>4, <1>5, <1>6, <1>7 DEF Next

(* Every reachable state of the band, the buffers, the queue of commands   *)
(* and the stations is well typed, and every message is sent in order.     *)
THEOREM TypeCorrect == Spec => []TypeOK
<1>1. Spec => []Sound
    BY InitSound, StepSound, PTL DEF Spec
<1>2. Sound => TypeOK
    BY DEF Sound
<1>. QED
    BY <1>1, <1>2, PTL

-----------------------------------------------------------------------------
(* A checksum means the whole text.                                        *)

(* Buffers of which only a header without text may be the last frame.      *)
Ending ==
    {b \in Buffer :
        /\ b.cmd # None /\ b.cmd.last => b.cmd.message.parts = 0
        /\ \A i \in DOMAIN b.compound : ~b.compound[i].last}

Verified(queue) ==
    \A i \in DOMAIN queue :
        queue[i].message.checked => Says(queue[i].text) = Says(Text(queue[i].message))

Ends == IsMap(buffers, Ending) /\ Verified(commands) /\ Verified(handled)

LEMMA NoText ==
    ASSUME NEW m \in Message, m.parts = 0
    PROVE  Text(m) = << >>
<1>1. Text(m) \in Seq(Part) /\ Len(Text(m)) = 0
    BY TextIs
<1>. QED
    BY <1>1, EmptySeq

LEMMA NoBufferEnds == TypeOK => NoBuffer \in Ending
<1> SUFFICES ASSUME TypeOK PROVE NoBuffer \in Ending
    OBVIOUS
<1>1. NoBuffer \in Buffer /\ NoBuffer.cmd = None /\ NoBuffer.compound = << >>
    BY NoBufferIs DEF NoBuffer
<1>2. DOMAIN NoBuffer.compound = {}
    BY <1>1
<1>. QED
    BY <1>1, <1>2 DEF Ending

LEMMA ResolvedEnds ==
    ASSUME NEW b \in Ending
    PROVE  Resolved(b) \in Ending
<1> DEFINE r == Resolved(b)
<1>1. b \in Buffer /\ (b.cmd # None /\ b.cmd.last => b.cmd.message.parts = 0)
      /\ \A i \in DOMAIN b.compound : ~b.compound[i].last
    BY DEF Ending
<1>2. /\ r \in Buffer
      /\ r.cmd = None <=> b.cmd = None
      /\ r.cmd # None => r.cmd.message = b.cmd.message
      /\ IF b.compound = << >> \/ b.cmd = None \/ b.cmd.from # Unresolved
         THEN r = b
         ELSE /\ 1 \in DOMAIN b.compound /\ r.compound = Tail(b.compound)
              /\ r.cmd.last = (b.cmd.last \/ b.compound[1].last)
    BY <1>1, ResolvedIs
<1> HIDE DEF r
<1>3. CASE r = b
    BY <1>1, <1>3 DEF r
<1>4. CASE r # b
    <2>1. /\ b.compound # << >> /\ 1 \in DOMAIN b.compound
          /\ r.compound = Tail(b.compound) /\ r.cmd.last = b.cmd.last
          /\ r.cmd # None /\ b.cmd # None /\ b.cmd.last \in BOOLEAN
        BY <1>1, <1>2, <1>4, BufferIs
    <2>2. b.compound \in Seq(Call) /\ DOMAIN b.compound = 1 .. Len(b.compound)
          /\ Len(b.compound) \in Nat
        BY <1>1, BufferIs, LenProperties
    <2>3. /\ r.compound \in Seq(Call) /\ Len(r.compound) = Len(b.compound) - 1
          /\ r.compound = SubSeq(b.compound, 2, Len(b.compound))
        BY <2>1, <2>2, HeadTailProperties, TailIsSubSeq
    <2>4. ASSUME NEW i \in DOMAIN r.compound PROVE ~r.compound[i].last
        <3>1. DOMAIN r.compound = 1 .. Len(r.compound)
            BY <2>3, LenProperties
        <3>2. i \in 1 .. Len(b.compound) - 2 + 1 /\ i + 1 \in DOMAIN b.compound
            BY <2>2, <2>3, <3>1
        <3>3. \A j \in 2 .. Len(b.compound) : b.compound[j] \in Call
            BY <1>1, <2>2, BufferIs
        <3>4. r.compound[i] = b.compound[2 + i - 1]
            BY <2>2, <2>3, <3>2, <3>3, SubSeqProperties
        <3>5. 2 + i - 1 = i + 1
            BY <3>2, <2>2
        <3>. QED
            BY <1>1, <3>2, <3>4, <3>5
    <2>5. r \in Buffer /\ r.cmd.message = b.cmd.message
          /\ (r.cmd.last => b.cmd.message.parts = 0)
        BY <1>1, <1>2, <2>1
    <2>. QED
        BY <2>4, <2>5 DEF Ending, r
<1>. QED
    BY <1>3, <1>4 DEF r

LEMMA WithEllipsisEnds ==
    ASSUME NEW b \in Ending, NEW age \in Age
    PROVE  WithEllipsis(b, age) \in Ending
<1> DEFINE c == WithEllipsis(b, age)
<1>1. c \in Buffer /\ c.cmd = b.cmd /\ c.compound = b.compound
    BY WithEllipsisIs DEF Ending
<1> HIDE DEF c
<1>. QED
    BY <1>1 DEF Ending, c

LEMMA AgedEnds ==
    ASSUME TypeOK, NEW b \in Ending
    PROVE  AgedBuffer(b) \in Ending
<1> DEFINE c == AgedBuffer(b)
<1>1. b \in Buffer
    BY DEF Ending
<1>2. /\ c \in Buffer
      /\ c.cmd = None <=> b.cmd = None
      /\ b.cmd # None => c.cmd.message = b.cmd.message /\ c.cmd.last = b.cmd.last
      /\ DOMAIN c.compound = DOMAIN b.compound
      /\ \A i \in DOMAIN b.compound : c.compound[i].last = b.compound[i].last
    BY <1>1, AgedIs
<1> HIDE DEF c
<1>. QED
    BY <1>2 DEF Ending, c

LEMMA ReceiveEnds ==
    ASSUME Sound, Ends, NEW s \in Station, Sending(s), NEW o \in Offset,
           ProcessDecodeEvent(NextFrame(s), o)
    PROVE  IsMap(buffers', Ending) /\ Verified(commands')
<1> DEFINE frame == NextFrame(s)
           m == station[s].message
           k == station[s].sent
<1>1. /\ frame \in Frame /\ frame.message = m
      /\ frame.last = (k + 1 = LastAt(m))
      /\ frame.kind = KindOf(m, k + 1)
      /\ frame.kind = "data" => frame.part \in 1 .. m.parts
    BY NextFrameIs
<1>2. m \in Message /\ k \in Nat /\ k < LastAt(m)
    BY StationIs
<1>3. /\ LastAt(m) = HeaderAt(m) + m.parts /\ HeaderAt(m) \in {1, 2} /\ m.parts \in Nat
      /\ frame.kind = "compound" => k = 0 /\ HeaderAt(m) = 2
      /\ frame.kind = "directed" => k + 1 = HeaderAt(m)
    BY <1>1, <1>2, MessageIs, KindIs
<1>4. ProcessDecodeEvent(frame, o)
    OBVIOUS
<1> HIDE DEF frame, m, k
<1>13. /\ frame.kind = "compound" => k + 1 # LastAt(m)
       /\ frame.kind = "directed" /\ k + 1 = LastAt(m) => m.parts = 0
    BY <1>2, <1>3
<1>5. frame.kind = "compound" => ~frame.last
    BY <1>1, <1>13, Zenon
<1>6. frame.kind = "directed" /\ frame.last => m.parts = 0
    BY <1>1, <1>13, Zenon
<1>7. TypeOK /\ IsMap(buffers, Ending) /\ Verified(commands) /\ commands \in Seq(Command)
    BY SoundIs DEF Sound, Ends
<1>8. ASSUME NEW b \in Ending, frame.kind = "data" PROVE WithText(b, frame) \in Ending
    <2>1. b \in Buffer
        BY DEF Ending
    <2>2. /\ WithText(b, frame) \in Buffer /\ WithText(b, frame).cmd = b.cmd
          /\ WithText(b, frame).compound = b.compound
        BY <1>1, <1>7, <1>8, <2>1, WithTextIs
    <2>. QED
        BY <2>2 DEF Ending
<1>9. ASSUME NEW b \in Ending \cup {NoBuffer}, frame.kind = "compound"
      PROVE  WithCall(b, frame) \in Ending
    <2> DEFINE c == WithCall(b, frame)
    <2>1. b \in Buffer /\ b \in Ending /\ b.compound \in Seq(Call)
        BY <1>7, NoBufferEnds, BufferIs DEF Ending
    <2>2. /\ c \in Buffer /\ c.cmd = b.cmd /\ c.compound = Append(b.compound, CallOf(frame))
          /\ CallOf(frame) \in Call
        BY <1>1, <1>7, <2>1, WithCallIs
    <2>3. CallOf(frame).last = FALSE
        BY <1>1, <1>5, <1>9 DEF CallOf, Frame
    <2>4. \A i \in DOMAIN b.compound : ~b.compound[i].last
        BY <2>1 DEF Ending
    <2> HIDE DEF c
    <2>5. ASSUME NEW i \in DOMAIN c.compound PROVE ~c.compound[i].last
        <3>1. /\ DOMAIN c.compound = 1 .. Len(b.compound) + 1 /\ Len(b.compound) \in Nat
              /\ DOMAIN b.compound = 1 .. Len(b.compound)
              /\ c.compound[Len(b.compound) + 1] = CallOf(frame)
              /\ \A j \in DOMAIN b.compound : c.compound[j] = b.compound[j]
            BY <2>1, <2>2, AppendIs
        <3>. QED
            BY <2>3, <2>4, <3>1
    <2>. QED
        BY <2>1, <2>2, <2>5 DEF Ending, c
<1>10. ASSUME NEW b \in Ending \cup {NoBuffer}, frame.kind = "directed"
       PROVE  WithHeader(b, frame) \in Ending
    <2> DEFINE c == WithHeader(b, frame)
    <2>1. b \in Buffer /\ b \in Ending
        BY <1>7, NoBufferEnds DEF Ending
    <2>2. /\ c \in Buffer /\ c.cmd = HeaderOf(frame) /\ c.compound = b.compound
          /\ HeaderOf(frame).message = m /\ HeaderOf(frame).last = frame.last
        BY <1>1, <1>7, <2>1, WithHeaderIs, HeaderOfIs
    <2> HIDE DEF c
    <2>. QED
        BY <1>6, <1>10, <2>1, <2>2 DEF Ending, c
<1>11. IsMap(buffers', Ending)
    BY <1>4, <1>7, <1>8, <1>9, <1>10, ReceiveMap
<1>12. Verified(commands')
    <2> DEFINE new == CommandOf(HeaderOf(frame), << >>)
    <2>1. CASE commands' = commands
        BY <1>7, <2>1
    <2>2. CASE /\ frame.kind = "directed" /\ ~Waits(HeaderOf(frame))
               /\ commands' = Append(commands, new) /\ new \in Command
        <3>1. HeaderOf(frame).last = frame.last /\ HeaderOf(frame).message = m
            BY <1>1, <1>7, HeaderOfIs
        <3>2. frame.last
            BY <2>2, <3>1 DEF Waits
        <3>3. new.message = m /\ new.text = << >>
            BY <3>1 DEF CommandOf
        <3>6. new.text = Text(new.message)
            BY <1>2, <1>6, <2>2, <3>2, <3>3, NoText
        <3>4. Says(new.text) = Says(Text(new.message))
            BY <3>6
        <3> HIDE DEF new
        <3>5. /\ DOMAIN commands' = 1 .. Len(commands) + 1 /\ Len(commands) \in Nat
              /\ DOMAIN commands = 1 .. Len(commands)
              /\ commands'[Len(commands) + 1] = new
              /\ \A j \in DOMAIN commands : commands'[j] = commands[j]
            BY <1>7, <2>2, AppendIs
        <3>. QED
            BY <1>7, <3>4, <3>5 DEF Verified
    <2>. QED
        BY <1>1, <1>4, <2>1, <2>2, ReceiveIs
<1>. QED
    BY <1>11, <1>12

LEMMA MinuteStays ==
    ASSUME [Next]_vars
    PROVE  minute' = minute
BY DEF Next, Begin, SendLost, SendDecoded, DecodeAgain, ProcessActivity, Tick, vars

LEMMA EndsAgain ==
    ASSUME minute' = minute, IsMap(buffers', Ending), Verified(commands'), Verified(handled')
    PROVE  Ends'
<1>1. Buffer' = Buffer
    BY TypesStay
<1>2. Ending' = Ending
    BY <1>1 DEF Ending
<1>. QED
    BY <1>2 DEF Ends, IsMap, Verified, Says

(* What a command that is made of buffers comes from.                      *)
LEMMA FilledEnds ==
    ASSUME Sound, Ends
    PROVE  IsMap(Filled, Ending) /\ IsMap(Settled, Ending)
<1>1. IsMap(buffers, Ending) /\ IsMap(band, Activity) /\ TypeOK
    BY SoundIs DEF Ends, Sound
<1>2. \A b \in Ending \cup {NoBuffer}, age \in Age : WithEllipsis(b, age) \in Ending
    BY <1>1, NoBufferEnds, WithEllipsisEnds
<1>3. IsMap(Filled, Ending)
    BY <1>1, <1>2, FilledIs
<1>4. \A b \in Ending : Resolved(b) \in Ending
    BY ResolvedEnds
<1>. QED
    BY <1>3, <1>4, SettledIs

LEMMA QueueVerified ==
    ASSUME Sound, Ends
    PROVE  Verified(Queue)
<1>1. IsMap(Filled, Ending) /\ IsMap(Settled, Ending) /\ Ending \subseteq Buffer
    BY FilledEnds DEF Ending
<1>2. ASSUME NEW o \in Ready
      PROVE  Says(EarlyCommand(o).text) = Says(Text(EarlyCommand(o).message))
    <2> DEFINE b == Filled[o]
               r == Resolved(b)
               c == EarlyCommand(o)
    <2>1. b \in Ending /\ b \in Buffer /\ b.cmd # None /\ CompoundComplete(b)
        BY <1>1, ProcessedMaps DEF IsMap, Ready
    <2>2. r \in Ending /\ r \in Buffer /\ r.cmd # None /\ r.cmd.last
        BY <2>1, ResolvedEnds, ResolvedIs DEF CompoundComplete
    <2>3. r.cmd.message.parts = 0 /\ r.cmd.message \in Message
        BY <2>2, BufferIs DEF Ending
    <2>4. c.message = r.cmd.message /\ c.text = << >>
        BY DEF EarlyCommand, CommandOf
    <2> HIDE DEF r, c
    <2>5. c.text = Text(c.message)
        BY <2>3, <2>4, NoText
    <2>6. Says(c.text) = Says(Text(c.message))
        BY <2>5
    <2>. QED
        BY <2>6 DEF c
<1>3. ASSUME NEW o \in Closed, IsLate(o), LateCommand(o).message.checked
      PROVE  Says(LateCommand(o).text) = Says(Text(LateCommand(o).message))
    <2>1. LateCommand(o).message = Settled[o].cmd.message
          /\ LateCommand(o).text = Settled[o].msgs
        BY DEF LateCommand, CommandOf
    <2>2. Valid(Settled[o]) /\ Settled[o].cmd # None
        BY <1>3 DEF IsLate
    <2>. QED
        BY <1>3, <2>1, <2>2 DEF Valid
<1>4. ASSUME NEW i \in DOMAIN Queue, Queue[i].message.checked
      PROVE  Says(Queue[i].text) = Says(Text(Queue[i].message))
    <2>1. \/ \E j \in DOMAIN commands : Queue[i] = commands[j]
          \/ \E o \in Ready : Queue[i] = EarlyCommand(o)
          \/ \E o \in Closed : IsLate(o) /\ Queue[i] = LateCommand(o)
        BY QueueIs
    <2>2. CASE \E j \in DOMAIN commands : Queue[i] = commands[j]
        BY <1>4, <2>2 DEF Ends, Verified
    <2>3. CASE \E o \in Ready : Queue[i] = EarlyCommand(o)
        BY <1>2, <1>4, <2>3
    <2>4. CASE \E o \in Closed : IsLate(o) /\ Queue[i] = LateCommand(o)
        BY <1>3, <1>4, <2>4
    <2>. QED
        BY <2>1, <2>2, <2>3, <2>4
<1>. QED
    BY <1>4 DEF Verified

LEMMA StepEnds ==
    ASSUME Sound, Ends, [Next]_vars
    PROVE  Ends'
<1>0. minute' = minute
    BY MinuteStays
<1>1. IsMap(buffers, Ending) /\ Verified(commands) /\ Verified(handled)
    BY DEF Ends
<1>2. CASE UNCHANGED <<buffers, commands, handled>>
    BY <1>0, <1>1, <1>2, EndsAgain
<1>3. ASSUME NEW s \in Station, NEW o \in Offsets[s], SendDecoded(s, o) PROVE Ends'
    <2>1. o \in Offset /\ Sending(s) /\ ProcessDecodeEvent(NextFrame(s), o) /\ handled' = handled
        BY <1>3, DecodedIs
    <2>2. IsMap(buffers', Ending) /\ Verified(commands')
        BY <2>1, ReceiveEnds
    <2>. QED
        BY <1>0, <1>1, <2>1, <2>2, EndsAgain
<1>4. CASE ProcessActivity
    <2>1. commands' = << >>
        BY <1>4, ProcessActivityIs
    <2>2. Verified(commands')
        BY <2>1 DEF Verified
    <2>3. TypeOK /\ IsMap(band, Activity)
        BY SoundIs DEF Sound
    <2>4. \A b \in Ending \cup {NoBuffer}, age \in Age : WithEllipsis(b, age) \in Ending
        BY <2>3, NoBufferEnds, WithEllipsisEnds
    <2>5. \A b \in Ending : Resolved(b) \in Ending
        BY ResolvedEnds
    <2>6. IsMap(buffers', Ending)
        BY <1>1, <1>4, <2>3, <2>4, <2>5, ProcessMap
    <2>7. Verified(handled')
        <3>1. Verified(Queue)
            BY QueueVerified
        <3>2. \A i \in DOMAIN handled' :
                \/ \E j \in DOMAIN handled : handled'[i] = handled[j]
                \/ \E j \in DOMAIN Queue : handled'[i] = Queue[j]
            BY <1>4, HandledIs
        <3>3. ASSUME NEW i \in DOMAIN handled', handled'[i].message.checked
              PROVE  Says(handled'[i].text) = Says(Text(handled'[i].message))
            BY <1>1, <3>1, <3>2, <3>3 DEF Verified
        <3>. QED
            BY <3>3 DEF Verified
    <2>. QED
        BY <1>0, <2>2, <2>6, <2>7, EndsAgain
<1>5. CASE Tick
    <2>1. /\ DOMAIN buffers' = DOMAIN buffers
          /\ \A o \in DOMAIN buffers : buffers'[o] = AgedBuffer(buffers[o])
          /\ commands' = commands /\ handled' = handled
        BY <1>5, TickIs
    <2>2. \A b \in Ending : AgedBuffer(b) \in Ending
        BY AgedEnds DEF Sound
    <2>3. IsMap(buffers', Ending)
        BY <1>1, <2>1, <2>2 DEF IsMap
    <2>. QED
        BY <1>0, <1>1, <2>1, <2>3, EndsAgain
<1>6. ASSUME NEW frame \in seen, NEW o \in Offset, DecodeAgain(frame, o)
      PROVE  UNCHANGED <<buffers, commands, handled>>
    BY <1>6, AgainChangesNothing DEF vars
<1>7. ASSUME NEW s \in Station, NEW checked \in BOOLEAN, NEW parts \in 0 .. MaxText,
             Begin(s, checked, parts)
      PROVE  UNCHANGED <<buffers, commands, handled>>
    BY <1>7 DEF Begin
<1>8. ASSUME NEW s \in Station, SendLost(s) PROVE UNCHANGED <<buffers, commands, handled>>
    BY <1>8 DEF SendLost
<1>9. UNCHANGED vars => UNCHANGED <<buffers, commands, handled>>
    BY DEF vars
<1>. QED
    BY <1>2, <1>3, <1>4, <1>5, <1>6, <1>7, <1>8, <1>9 DEF Next

LEMMA InitEnds == Init => Ends
<1> SUFFICES ASSUME Init PROVE Ends
    OBVIOUS
<1>1. DOMAIN buffers = {} /\ commands = << >> /\ handled = << >>
    BY DEF Init
<1>. QED
    BY <1>1, FS_EmptySet DEF Ends, IsMap, Verified

(* A message with a checksum is handed over saying all of its text, or not *)
(* at all, whatever is lost, repeated or mixed up in the buffers.          *)
THEOREM CheckedCorrect == Spec => []CheckedIsWhole
<1>1. Spec => [](Sound /\ Ends)
    BY InitSound, StepSound, InitEnds, StepEnds, PTL DEF Spec
<1>2. Ends => CheckedIsWhole
    BY DEF Ends, Verified, CheckedIsWhole
<1>. QED
    BY <1>1, <1>2, PTL

-----------------------------------------------------------------------------
(* Nothing is handed over twice.                                           *)

(* A message whose header has been sent.                                   *)
Known(m) ==
    /\ m.number =< begun
    /\ \A s \in Station : station[s].message = m => station[s].sent >= HeaderAt(m)

(* One that is neither waiting for its command to be processed nor done.   *)
Loose ==
    {m \in Message :
        /\ Known(m)
        /\ \A i \in DOMAIN commands : commands[i].message # m
        /\ \A i \in DOMAIN handled : handled[i].message # m}

(* Buffers whose header, if they have one, is of a message in M.           *)
About(M) == {b \in Buffer : b.cmd # None => b.cmd.message \in M}

(* No two buffers have the same message.                                   *)
Apart(map) ==
    \A o, p \in DOMAIN map :
        /\ map[o].cmd # None /\ map[p].cmd # None
        /\ map[o].cmd.message = map[p].cmd.message
        => o = p

Once ==
    /\ \A s \in Station : Sending(s) => station[s].message.number =< begun
    /\ IsMap(buffers, About(Loose)) /\ Apart(buffers)
    /\ Distinct(commands) /\ Distinct(handled)
    /\ \A i \in DOMAIN commands : Known(commands[i].message)
    /\ \A i \in DOMAIN handled : Known(handled[i].message)
    /\ \A i \in DOMAIN commands, j \in DOMAIN handled :
         commands[i].message # handled[j].message

LEMMA FollowApart ==
    ASSUME NEW map, NEW o \in Offset, DOMAIN map \subseteq Offset, Apart(map)
    PROVE  Apart(Follow(map, o))
<1> DEFINE c == Follow(map, o)
<1>1. CASE c = map
    BY <1>1
<1>2. ASSUME NEW from \in Near(map, o),
             DOMAIN c = (DOMAIN map \ {from}) \cup {o}, o \notin DOMAIN map,
             c[o] = map[from],
             \A x \in DOMAIN map : x # from => c[x] = map[x]
      PROVE  Apart(c)
    <2>1. from \in DOMAIN map
        BY DEF Near
    <2> HIDE DEF c
    <2>2. \A x \in DOMAIN c : x # o => x \in DOMAIN map /\ x # from /\ c[x] = map[x]
        BY <1>2
    <2>3. ASSUME NEW x \in DOMAIN c, NEW y \in DOMAIN c,
                 c[x].cmd # None, c[y].cmd # None, c[x].cmd.message = c[y].cmd.message
          PROVE  x = y
        <3>1. CASE x = o /\ y # o
            BY <1>2, <2>1, <2>2, <2>3, <3>1 DEF Apart
        <3>2. CASE x # o /\ y = o
            BY <1>2, <2>1, <2>2, <2>3, <3>2 DEF Apart
        <3>3. CASE x # o /\ y # o
            BY <2>2, <2>3, <3>3 DEF Apart
        <3>. QED
            BY <3>1, <3>2, <3>3
    <2>. QED
        BY <2>3 DEF Apart
<1> HIDE DEF c
<1>. QED
    BY <1>1, <1>2, FollowIs DEF c

LEMMA PutApart ==
    ASSUME NEW map, NEW o, NEW v, Apart(map),
           \/ v.cmd = None
           \/ o \in DOMAIN map /\ v.cmd = map[o].cmd
           \/ \A x \in DOMAIN map : map[x].cmd # None => map[x].cmd.message # v.cmd.message
    PROVE  Apart(Put(map, o, v))
<1> DEFINE c == Put(map, o, v)
<1>1. /\ DOMAIN c = DOMAIN map \cup {o} /\ c[o] = v
      /\ \A x \in DOMAIN map : x # o => c[x] = map[x]
    BY DEF Put
<1> HIDE DEF c
<1>2. ASSUME NEW x \in DOMAIN c, NEW y \in DOMAIN c,
             c[x].cmd # None, c[y].cmd # None, c[x].cmd.message = c[y].cmd.message
      PROVE  x = y
    <2>1. CASE x = o /\ y # o
        <3>1. y \in DOMAIN map /\ c[y] = map[y] /\ c[x] = v
            BY <1>1, <2>1
        <3>. QED
            BY <1>2, <2>1, <3>1 DEF Apart
    <2>2. CASE x # o /\ y = o
        <3>1. x \in DOMAIN map /\ c[x] = map[x] /\ c[y] = v
            BY <1>1, <2>2
        <3>. QED
            BY <1>2, <2>2, <3>1 DEF Apart
    <2>3. CASE x # o /\ y # o
        BY <1>1, <1>2, <2>3 DEF Apart
    <2>. QED
        BY <2>1, <2>2, <2>3
<1>. QED
    BY <1>2 DEF Apart, c

LEMMA WithoutApart ==
    ASSUME NEW map, NEW o, Apart(map)
    PROVE  Apart(Without(map, o))
<1> DEFINE c == Without(map, o)
<1>1. \A x \in DOMAIN c : x \in DOMAIN map /\ c[x] = map[x]
    BY DEF Without
<1> HIDE DEF c
<1>2. Apart(c)
    BY <1>1 DEF Apart
<1>. QED
    BY <1>2 DEF c

(* A header that is new leaves the messages of the buffers apart.          *)
LEMMA ReceiveApart ==
    ASSUME Sound, NEW frame \in Frame, NEW o \in Offset, ProcessDecodeEvent(frame, o),
           frame.kind = "data" => frame.part \in 1 .. frame.message.parts,
           NEW M, IsMap(buffers, About(M)), Apart(buffers),
           frame.kind = "directed" => frame.message \notin M
    PROVE  /\ Apart(buffers')
           /\ IsMap(buffers', About(IF frame.kind = "directed" /\ Waits(HeaderOf(frame))
                                    THEN M \cup {frame.message} ELSE M))
<1> DEFINE clear == ClearIfFirst(buffers, frame, o)
           c == Follow(clear, o)
           b == GeneralActivity(buffers, frame, o)
           d == Follow(b, o)
           old == BufferAt(o, d)
           V == About(M)
           W == About(IF frame.kind = "directed" /\ Waits(HeaderOf(frame))
                      THEN M \cup {frame.message} ELSE M)
<1>0. TypeOK /\ V \subseteq Buffer /\ V \subseteq W /\ W \subseteq Buffer
    BY DEF Sound, About
<1>1. IsMap(clear, V) /\ Apart(clear)
    <2>1. IsMap(Follow(buffers, o), V) /\ Apart(Follow(buffers, o))
        BY FollowMap, FollowApart DEF IsMap
    <2>. QED
        BY <2>1, WithoutMap, WithoutApart DEF ClearIfFirst
<1> HIDE DEF V, clear
<1>2. IsMap(c, V) /\ Apart(c)
    BY <1>1, FollowMap, FollowApart DEF IsMap
<1>3. b = IF frame.kind = "data" /\ o \in DOMAIN c THEN Put(c, o, WithText(c[o], frame)) ELSE c
    BY DEF GeneralActivity, WithText, clear
<1> HIDE DEF c, b
<1>4. IsMap(b, V) /\ Apart(b)
    <2>1. CASE frame.kind = "data" /\ o \in DOMAIN c
        <3>1. c[o] \in V /\ c[o] \in Buffer
            BY <1>0, <1>2, <2>1 DEF IsMap
        <3>2. WithText(c[o], frame) \in Buffer /\ WithText(c[o], frame).cmd = c[o].cmd
            BY <1>0, <2>1, <3>1, WithTextIs
        <3>3. WithText(c[o], frame) \in V
            BY <3>1, <3>2 DEF V, About
        <3>. QED
            BY <1>2, <1>3, <2>1, <3>2, <3>3, PutMap, PutApart
    <2>. QED
        BY <1>2, <1>3, <2>1
<1>5. IsMap(d, V) /\ Apart(d)
    BY <1>4, FollowMap, FollowApart DEF IsMap
<1>6. old \in V \cup {NoBuffer} /\ (old = NoBuffer \/ (o \in DOMAIN d /\ old = d[o]))
    BY <1>5, BufferAtIs DEF BufferAt
<1>7. NoBuffer \in Buffer /\ NoBuffer.cmd = None /\ old \in Buffer
    BY <1>0, <1>6, NoBufferIs DEF NoBuffer
<1>8. /\ CompoundFrame(b, frame, o) = Put(d, o, WithCall(old, frame))
      /\ DirectedFrame(b, frame, o) = Put(d, o, WithHeader(old, frame))
    BY DEF CompoundFrame, DirectedFrame, WithCall, CallOf, WithHeader
<1>9. \/ buffers' = buffers
      \/ frame.kind = "compound" /\ buffers' = CompoundFrame(b, frame, o)
      \/ /\ frame.kind = "directed" /\ Waits(HeaderOf(frame))
         /\ buffers' = DirectedFrame(b, frame, o)
      \/ buffers' = b
    BY DEF ProcessDecodeEvent, b
<1> HIDE DEF d, old
<1>10. IsMap(buffers, W) /\ IsMap(b, W) /\ IsMap(d, W)
    BY <1>0, <1>4, <1>5 DEF IsMap, V
<1>11. CASE frame.kind = "compound" /\ buffers' = CompoundFrame(b, frame, o)
    <2>1. WithCall(old, frame) \in Buffer /\ WithCall(old, frame).cmd = old.cmd
        BY <1>0, <1>7, WithCallIs
    <2>2. WithCall(old, frame) \in W
        BY <1>0, <1>6, <1>7, <2>1 DEF V, About
    <2>3. Apart(Put(d, o, WithCall(old, frame)))
        BY <1>5, <1>6, <1>7, <2>1, PutApart
    <2>. QED
        BY <1>8, <1>10, <1>11, <2>2, <2>3, PutMap
<1>12. CASE /\ frame.kind = "directed" /\ Waits(HeaderOf(frame))
            /\ buffers' = DirectedFrame(b, frame, o)
    <2> DEFINE new == WithHeader(old, frame)
    <2>1. new \in Buffer /\ new.cmd = HeaderOf(frame) /\ HeaderOf(frame).message = frame.message
        BY <1>0, <1>7, WithHeaderIs, HeaderOfIs
    <2> HIDE DEF new
    <2>2. new \in W
        BY <1>12, <2>1 DEF About
    <2>3. \A x \in DOMAIN d : d[x].cmd # None => d[x].cmd.message \in M
        BY <1>5 DEF IsMap, V, About
    <2>4. \A x \in DOMAIN d : d[x].cmd # None => d[x].cmd.message # new.cmd.message
        BY <1>12, <2>1, <2>3
    <2>5. Apart(Put(d, o, new))
        BY <1>5, <2>4, PutApart
    <2>. QED
        BY <1>8, <1>10, <1>12, <2>2, <2>5, PutMap DEF new
<1>. QED
    BY <1>4, <1>9, <1>10, <1>11, <1>12

(* What is known stays known.                                              *)
LEMMA BeginKnown ==
    ASSUME Sound, NEW s \in Station, NEW checked \in BOOLEAN, NEW parts \in 0 .. MaxText,
           Begin(s, checked, parts), NEW x \in Message, Known(x)
    PROVE  Known(x)'
<1> DEFINE m == NewMessage(s, checked, parts)
<1>1. /\ m.number = begun + 1
      /\ \A t \in Station : t # s => station'[t] = station[t]
      /\ station'[s].message = m /\ begun' = begun + 1
    BY BeginIs
<1>2. begun \in Nat /\ x.number \in Nat /\ x.number =< begun
      /\ \A t \in Station : station[t].message = x => station[t].sent >= HeaderAt(x)
    BY SoundIs, MessageIs DEF Known
<1> HIDE DEF m
<1>3. m # x /\ x.number =< begun'
    BY <1>1, <1>2
<1>. QED
    BY <1>1, <1>2, <1>3 DEF Known

LEMMA SentKnown ==
    ASSUME Sound, NEW s \in Station, Sending(s), NEW o \in Nat, Sent(s, o),
           begun' = begun, NEW x \in Message,
           Known(x) \/ (x = station[s].message /\ x.number =< begun
                        /\ station[s].sent + 1 >= HeaderAt(x))
    PROVE  Known(x)'
<1> DEFINE m == station[s].message
           k == station[s].sent
<1>1. /\ \A t \in Station : t # s => station'[t] = station[t]
      /\ IF k + 1 = LastAt(m) THEN station'[s].message = None
         ELSE station'[s].message = m /\ station'[s].sent = k + 1
    BY SentIs
<1>2. m \in Message /\ m.from = s /\ k \in Nat
    BY StationIs
<1>3. x # None /\ HeaderAt(x) \in Nat
    BY NoneIsApart, MessageIs
<1>4. ASSUME NEW t \in Station, t # s, x = m PROVE station[t].message # x
    BY <1>2, <1>4, StationIs DEF Sending
<1> HIDE DEF m, k
<1>5. x.number =< begun'
    BY DEF Known
<1>6. ASSUME NEW t \in Station, station'[t].message = x
      PROVE  station'[t].sent >= HeaderAt(x)
    <2>1. CASE t = s
        <3>1. x = m /\ station'[s].sent = k + 1
            BY <1>1, <1>3, <1>6, <2>1
        <3>2. k >= HeaderAt(x) \/ k + 1 >= HeaderAt(x)
            BY <3>1 DEF Known, m, k
        <3>. QED
            BY <1>2, <1>3, <2>1, <3>1, <3>2
    <2>2. CASE t # s
        <3>1. station[t].message = x /\ station'[t].sent = station[t].sent
            BY <1>1, <1>6, <2>2
        <3>2. x # m
            BY <1>4, <2>2, <3>1
        <3>. QED
            BY <3>1, <3>2 DEF Known, m
    <2>. QED
        BY <2>1, <2>2
<1>. QED
    BY <1>5, <1>6 DEF Known

LEMMA OthersKnown ==
    ASSUME begun' = begun,
           \A s \in Station : /\ station'[s].message = station[s].message
                              /\ station'[s].sent = station[s].sent,
           NEW x, Known(x)
    PROVE  Known(x)'
BY DEF Known

LEMMA LooseIs ==
    ASSUME NEW m \in Loose
    PROVE  m \in Message /\ Known(m)
BY DEF Loose

(* The invariant again, when queues and buffers have kept their messages.  *)
LEMMA OnceAgain ==
    ASSUME Sound, minute' = minute, NEW M, M \subseteq Message,
           \A s \in Station : Sending(s)' => station'[s].message.number =< begun',
           IsMap(buffers', About(M)), Apart(buffers'),
           Distinct(commands'), Distinct(handled'),
           \A m \in M : Known(m)',
           \A i \in DOMAIN commands' : Known(commands[i].message)',
           \A i \in DOMAIN handled' : Known(handled[i].message)',
           \A i \in DOMAIN commands', j \in DOMAIN handled' :
                commands'[i].message # handled'[j].message,
           \A i \in DOMAIN commands' : commands'[i].message \notin M,
           \A i \in DOMAIN handled' : handled'[i].message \notin M
    PROVE  Once'
<1>1. Buffer' = Buffer
    BY TypesStay
<1>2. M \subseteq Loose'
    BY DEF Loose
<1>3. \A b \in About(M) : b \in About(Loose)'
    BY <1>1, <1>2 DEF About
<1>4. /\ DOMAIN buffers' \subseteq Offset /\ IsFiniteSet(DOMAIN buffers')
      /\ \A o \in DOMAIN buffers' : buffers'[o] \in About(Loose)'
    BY <1>3 DEF IsMap
<1>5. IsMap(buffers, About(Loose))'
    BY <1>4 DEF IsMap
<1>6. Apart(buffers)' /\ Distinct(commands)' /\ Distinct(handled)'
    BY DEF Apart, Distinct
<1>. QED
    BY <1>5, <1>6 DEF Once

LEMMA StayOnce ==
    ASSUME Sound, Once, minute' = minute, UNCHANGED <<buffers, commands, handled>>,
           \A s \in Station : Sending(s)' => station'[s].message.number =< begun',
           \A x \in Message : Known(x) => Known(x)'
    PROVE  Once'
<1>1. /\ IsMap(buffers', About(Loose)) /\ Apart(buffers')
      /\ Distinct(commands') /\ Distinct(handled')
      /\ \A i \in DOMAIN commands', j \in DOMAIN handled' :
            commands'[i].message # handled'[j].message
    BY DEF Once
<1>2. Loose \subseteq Message /\ \A m \in Loose : Known(m)'
    BY LooseIs
<1>3. /\ \A i \in DOMAIN commands' : commands'[i].message \notin Loose
      /\ \A i \in DOMAIN handled' : handled'[i].message \notin Loose
    BY DEF Loose
<1>4. /\ \A i \in DOMAIN commands' : commands'[i] \in Command
      /\ \A i \in DOMAIN handled' : handled'[i] \in Command
    BY SoundIs, ElementOfSeq, LenProperties
<1>5. /\ \A i \in DOMAIN commands' : Known(commands[i].message)'
      /\ \A i \in DOMAIN handled' : Known(handled[i].message)'
    <2>1. /\ \A i \in DOMAIN commands' : Known(commands'[i].message)
          /\ \A i \in DOMAIN handled' : Known(handled'[i].message)
        BY DEF Once
    <2>2. /\ \A i \in DOMAIN commands' : commands'[i].message \in Message
          /\ \A i \in DOMAIN handled' : handled'[i].message \in Message
        BY <1>4, CommandIs
    <2>3. /\ \A i \in DOMAIN commands : Known(commands[i].message)'
          /\ \A i \in DOMAIN handled : Known(handled[i].message)'
        <3>1. ASSUME NEW x \in Message, Known(x) PROVE Known(x)'
            BY <3>1
        <3>. QED
            BY <2>1, <2>2, <3>1 DEF Known
    <2>. QED
        BY <2>3
<1>. QED
    BY <1>1, <1>2, <1>3, <1>5, OnceAgain

LEMMA DecodedOnce ==
    ASSUME Sound, Once, NEW s \in Station, Sending(s), NEW o \in Offset,
           ProcessDecodeEvent(NextFrame(s), o), NEW p \in Nat, Sent(s, p),
           begun' = begun, handled' = handled, minute' = minute
    PROVE  Once'
<1>0. PICK m \in Message : m = station[s].message
    BY StationIs
<1> DEFINE frame == NextFrame(s)
           k == station[s].sent
           waits == frame.kind = "directed" /\ Waits(HeaderOf(frame))
           M == IF waits THEN Loose \cup {m} ELSE Loose
           new == CommandOf(HeaderOf(frame), << >>)
<1>1. /\ frame \in Frame /\ frame.message = m /\ frame.kind = KindOf(m, k + 1)
      /\ frame.kind = "data" => frame.part \in 1 .. m.parts
    BY <1>0, NextFrameIs
<1>2. m \in Message /\ m.from = s /\ k \in Nat /\ k < LastAt(m) /\ HeaderAt(m) \in {1, 2}
      /\ m.number =< begun
    BY <1>0, StationIs, MessageIs DEF Once
<1>3. frame.kind = "directed" => k + 1 = HeaderAt(m)
    BY <1>1, <1>2, KindIs
<1>4. TypeOK /\ commands \in Seq(Command) /\ handled \in Seq(Command)
    BY SoundIs DEF Sound
<1>5. /\ \A t \in Station : t # s => station'[t] = station[t]
      /\ station'[s].message \in {None, m}
    BY <1>0, <1>4, SentIs
<1>6. ProcessDecodeEvent(frame, o) /\ m = station[s].message /\ k = station[s].sent
    BY <1>0
<1> HIDE DEF frame, k
<1>7. \A t \in Station : Sending(t)' => station'[t].message.number =< begun'
    BY <1>2, <1>5 DEF Once, Sending
<1>8. \A x \in Message : Known(x) => Known(x)'
    BY <1>4, SentKnown
<1>9. frame.kind = "directed" => ~Known(m)
    <2> SUFFICES ASSUME frame.kind = "directed", Known(m) PROVE FALSE
        OBVIOUS
    <2>1. k >= HeaderAt(m)
        BY <1>6 DEF Known
    <2>. QED
        BY <1>2, <1>3, <2>1
<1>10. frame.kind = "directed" => Known(m)'
    <2> SUFFICES ASSUME frame.kind = "directed" PROVE Known(m)'
        OBVIOUS
    <2>1. station[s].sent + 1 >= HeaderAt(m)
        BY <1>2, <1>3, <1>6
    <2>. QED
        BY <1>2, <1>4, <1>6, <2>1, SentKnown
<1>11. /\ IsMap(buffers, About(Loose)) /\ Apart(buffers) /\ Distinct(commands)
       /\ Distinct(handled)
       /\ \A i \in DOMAIN commands : Known(commands[i].message)
       /\ \A i \in DOMAIN handled : Known(handled[i].message)
       /\ \A i \in DOMAIN commands, j \in DOMAIN handled :
            commands[i].message # handled[j].message
    BY DEF Once
<1>12. frame.kind = "directed" => frame.message \notin Loose
    BY <1>1, <1>9, LooseIs
<1>13. /\ Apart(buffers')
       /\ IsMap(buffers', About(IF frame.kind = "directed" /\ Waits(HeaderOf(frame))
                                THEN Loose \cup {frame.message} ELSE Loose))
    BY <1>1, <1>6, <1>11, <1>12, ReceiveApart
<1>14. IsMap(buffers', About(M))
    BY <1>1, <1>13
<1>15. M \subseteq Message /\ \A x \in M : Known(x)'
    BY <1>2, <1>8, <1>10, LooseIs
<1>16. /\ \A i \in DOMAIN commands : commands[i].message \in Message
       /\ \A i \in DOMAIN handled : handled[i].message \in Message
    BY <1>4, ElementOfSeq, LenProperties, CommandIs
<1>17. /\ \A i \in DOMAIN commands : commands[i].message \notin Loose
       /\ \A i \in DOMAIN handled : handled[i].message \notin Loose
    BY DEF Loose
<1>18. frame.kind = "directed" =>
        /\ \A i \in DOMAIN commands : commands[i].message # m
        /\ \A i \in DOMAIN handled : handled[i].message # m
    BY <1>9, <1>11
<1>19. \A i \in DOMAIN handled' : handled'[i].message \notin M
    BY <1>17, <1>18
<1>20. \/ commands' = commands
       \/ /\ frame.kind = "directed" /\ ~waits
          /\ commands' = Append(commands, new)
          /\ new \in Command
    BY <1>1, <1>6, ReceiveIs
<1>21. new.message = m
    BY <1>1, <1>4, HeaderOfIs DEF CommandOf
<1> HIDE DEF new, waits
<1>22. /\ Distinct(commands')
       /\ \A i \in DOMAIN commands' : commands'[i].message \in Message
                /\ \/ commands'[i].message = m /\ frame.kind = "directed"
                   \/ Known(commands'[i].message)
       /\ \A i \in DOMAIN commands', j \in DOMAIN handled' :
            commands'[i].message # handled'[j].message
       /\ \A i \in DOMAIN commands' : commands'[i].message \notin M
    <2>1. CASE commands' = commands
        BY <1>11, <1>16, <1>17, <1>18, <2>1 DEF waits
    <2>2. CASE /\ frame.kind = "directed" /\ ~waits /\ commands' = Append(commands, new)
               /\ new \in Command
        <3>1. /\ DOMAIN commands' = 1 .. Len(commands) + 1 /\ Len(commands) \in Nat
              /\ DOMAIN commands = 1 .. Len(commands)
              /\ commands'[Len(commands) + 1] = new
              /\ \A j \in DOMAIN commands : commands'[j] = commands[j]
            BY <1>4, <2>2, AppendIs
        <3>2. \A i \in DOMAIN commands' :
                \/ commands'[i] = new /\ i = Len(commands) + 1
                \/ i \in DOMAIN commands /\ commands'[i] = commands[i]
            BY <3>1
        <3>3. m \notin Loose
            BY <1>1, <1>12, <2>2
        <3>4. Distinct(commands')
            BY <1>11, <1>18, <1>21, <2>2, <3>2 DEF Distinct
        <3>5. \A i \in DOMAIN commands' :
                \/ commands'[i].message = m
                \/ i \in DOMAIN commands /\ commands'[i] = commands[i]
            BY <1>21, <3>2
        <3>. QED
            BY <1>2, <1>11, <1>16, <1>17, <1>18, <2>2, <3>3, <3>4, <3>5
    <2>. QED
        BY <1>20, <2>1, <2>2
<1>23. \A i \in DOMAIN commands' : Known(commands[i].message)'
    <2>1. ASSUME NEW x \in Message, Known(x) \/ (x = m /\ frame.kind = "directed")
          PROVE  Known(x)'
        BY <1>8, <1>10, <2>1
    <2>2. ASSUME NEW x \in Message, Known(x) \/ (x = m /\ frame.kind = "directed")
          PROVE  /\ x.number =< begun'
                 /\ \A t \in Station :
                        station'[t].message = x => station'[t].sent >= HeaderAt(x)
        <3>1. Known(x)'
            BY <2>1, <2>2
        <3>. QED
            BY <3>1 DEF Known
    <2>3. \A i \in DOMAIN commands' :
            /\ commands'[i].message.number =< begun'
            /\ \A t \in Station : station'[t].message = commands'[i].message =>
                    station'[t].sent >= HeaderAt(commands'[i].message)
        BY <1>22, <2>2
    <2>. QED
        BY <2>3 DEF Known
<1>24. \A i \in DOMAIN handled' : Known(handled[i].message)'
    <2>1. \A x \in Message : Known(x) => (x.number =< begun' /\ \A t \in Station :
                station'[t].message = x => station'[t].sent >= HeaderAt(x))
        BY <1>8 DEF Known
    <2>. QED
        BY <1>11, <1>16, <2>1 DEF Known
<1>25. Distinct(handled')
    BY <1>11
<1> HIDE DEF M
<1>. QED
    BY <1>7, <1>13, <1>14, <1>15, <1>19, <1>22, <1>23, <1>24, <1>25, OnceAgain

LEMMA TickOnce ==
    ASSUME Sound, Once, Tick
    PROVE  Once'
<1>1. /\ \A s \in Station : /\ station'[s].message = station[s].message
                            /\ station'[s].sent = station[s].sent
      /\ DOMAIN buffers' = DOMAIN buffers
      /\ \A o \in DOMAIN buffers : buffers'[o] = AgedBuffer(buffers[o])
      /\ UNCHANGED <<minute, begun, commands, handled>>
    BY TickIs
<1>2. \A x \in Message : Known(x) => Known(x)'
    BY <1>1, OthersKnown
<1>3. \A s \in Station : Sending(s)' => station'[s].message.number =< begun'
    BY <1>1 DEF Once, Sending
<1>4. ASSUME NEW o \in DOMAIN buffers
      PROVE  /\ buffers[o] \in About(Loose)
             /\ buffers'[o].cmd = None <=> buffers[o].cmd = None
             /\ buffers[o].cmd # None => buffers'[o].cmd.message = buffers[o].cmd.message
             /\ buffers'[o] \in Buffer
    <2>1. buffers[o] \in About(Loose) /\ buffers[o] \in Buffer /\ TypeOK
        BY DEF Once, IsMap, About, Sound
    <2>. QED
        BY <1>1, <2>1, AgedIs
<1>5. IsMap(buffers', About(Loose))
    <2>1. \A o \in DOMAIN buffers : buffers'[o] \in About(Loose)
        BY <1>4 DEF About
    <2>. QED
        BY <1>1, <2>1 DEF Once, IsMap
<1>6. Apart(buffers')
    BY <1>1, <1>4 DEF Once, Apart
<1>7. /\ Distinct(commands') /\ Distinct(handled')
      /\ \A i \in DOMAIN commands', j \in DOMAIN handled' :
            commands'[i].message # handled'[j].message
    BY <1>1 DEF Once
<1>8. Loose \subseteq Message /\ \A m \in Loose : Known(m)'
    BY <1>2, LooseIs
<1>9. /\ \A i \in DOMAIN commands' : commands'[i].message \notin Loose
      /\ \A i \in DOMAIN handled' : handled'[i].message \notin Loose
    BY <1>1 DEF Loose
<1>10. /\ \A i \in DOMAIN commands' : Known(commands[i].message)'
       /\ \A i \in DOMAIN handled' : Known(handled[i].message)'
    BY <1>1 DEF Once, Known
<1>. QED
    BY <1>1, <1>3, <1>5, <1>6, <1>7, <1>8, <1>9, <1>10, OnceAgain

(* What processActivity makes of the messages in the buffers.              *)
LEMMA FilledOnce ==
    ASSUME Sound, Once
    PROVE  /\ Apart(Filled) /\ IsMap(Filled, About(Loose))
           /\ \A o \in DOMAIN Filled : Filled[o] \in Buffer
<1>1. TypeOK /\ IsMap(band, Activity) /\ IsMap(buffers, About(Loose)) /\ Apart(buffers)
    BY SoundIs DEF Once, Sound
<1>2. ASSUME NEW b \in About(Loose) \cup {NoBuffer}, NEW age \in Age
      PROVE  /\ WithEllipsis(b, age) \in About(Loose) /\ WithEllipsis(b, age).cmd = b.cmd
    <2>1. b \in Buffer /\ (b.cmd # None => b.cmd.message \in Loose)
        <3>1. NoBuffer \in Buffer /\ NoBuffer.cmd = None
            BY <1>1, NoBufferIs DEF NoBuffer
        <3>. QED
            BY <3>1 DEF About
    <2> DEFINE c == WithEllipsis(b, age)
    <2>2. c \in Buffer /\ c.cmd = b.cmd
        BY <2>1, WithEllipsisIs
    <2> HIDE DEF c
    <2>. QED
        BY <2>1, <2>2 DEF About, c
<1>3. /\ IsMap(Filled, About(Loose))
      /\ \A o \in DOMAIN Filled :
            \/ o \in DOMAIN buffers /\ Filled[o] = buffers[o]
            \/ /\ Filled[o] = WithEllipsis(BufferAt(o, buffers), band[o].age)
               /\ o \in IdleOffsets
    BY <1>1, <1>2, FilledIs
<1>4. ASSUME NEW o \in DOMAIN Filled, Filled[o].cmd # None
      PROVE  o \in DOMAIN buffers /\ Filled[o].cmd = buffers[o].cmd
    <2>1. CASE o \in DOMAIN buffers /\ Filled[o] = buffers[o]
        BY <2>1
    <2>2. CASE /\ Filled[o] = WithEllipsis(BufferAt(o, buffers), band[o].age)
               /\ o \in IdleOffsets
        <3> DEFINE b == BufferAt(o, buffers)
        <3>1. b \in About(Loose) \cup {NoBuffer} /\ band[o].age \in Age
            BY <1>1, <2>2, BufferAtIs DEF IsMap, IdleOffsets, Activity
        <3>2. Filled[o].cmd = b.cmd
            BY <1>2, <2>2, <3>1
        <3>3. CASE o \in DOMAIN buffers
            BY <3>2, <3>3 DEF BufferAt
        <3>4. CASE o \notin DOMAIN buffers
            BY <1>4, <3>2, <3>4 DEF BufferAt, NoBuffer
        <3>. QED
            BY <3>3, <3>4
    <2>. QED
        BY <1>3, <2>1, <2>2
<1>5. Apart(Filled)
    BY <1>1, <1>4 DEF Apart
<1>6. \A o \in DOMAIN Filled : Filled[o] \in Buffer
    BY <1>3 DEF IsMap, About
<1>. QED
    BY <1>3, <1>5, <1>6

(* The messages of the commands that are made, and of the buffers that     *)
(* are left.                                                               *)
LEMMA MadeOf ==
    ASSUME Sound, Once
    PROVE  /\ \A o \in Ready :
                /\ EarlyCommand(o).message = Filled[o].cmd.message
                /\ Filled[o].cmd # None /\ o \in DOMAIN Filled
           /\ \A o \in Closed : IsLate(o) =>
                /\ LateCommand(o).message = Filled[o].cmd.message
                /\ Filled[o].cmd # None /\ o \in DOMAIN Filled /\ o \notin Ready
           /\ \A o \in DOMAIN Settled :
                /\ o \in DOMAIN Filled /\ o \notin Ready
                /\ Settled[o] \in Buffer
                /\ Settled[o].cmd = None <=> Filled[o].cmd = None
                /\ Filled[o].cmd # None => Settled[o].cmd.message = Filled[o].cmd.message
<1>1. /\ IsMap(Filled, Buffer) /\ IsMap(Settled, Buffer)
      /\ DOMAIN Settled = DOMAIN Filled \ Ready
      /\ \A o \in DOMAIN Settled : Settled[o] = Resolved(Filled[o])
      /\ Closed \subseteq DOMAIN Settled /\ Ready \subseteq DOMAIN Filled
      /\ \A o \in Ready : Filled[o].cmd # None
    BY ProcessedMaps
<1>2. ASSUME NEW o \in DOMAIN Filled
      PROVE  /\ Resolved(Filled[o]).cmd = None <=> Filled[o].cmd = None
             /\ Filled[o].cmd # None =>
                  Resolved(Filled[o]).cmd.message = Filled[o].cmd.message
    <2>1. Filled[o] \in Buffer
        BY <1>1 DEF IsMap
    <2>. QED
        BY <2>1, ResolvedIs
<1>3. \A o \in Ready : EarlyCommand(o).message = Filled[o].cmd.message
    BY <1>1, <1>2 DEF EarlyCommand, CommandOf
<1>4. \A o \in DOMAIN Settled :
        /\ Settled[o].cmd = None <=> Filled[o].cmd = None
        /\ Filled[o].cmd # None => Settled[o].cmd.message = Filled[o].cmd.message
    BY <1>1, <1>2
<1>5. ASSUME NEW o \in Closed, IsLate(o)
      PROVE  LateCommand(o).message = Filled[o].cmd.message /\ Filled[o].cmd # None
    <2>1. Settled[o].cmd # None /\ o \in DOMAIN Settled
        BY <1>1, <1>5 DEF IsLate
    <2>. QED
        BY <1>4, <2>1 DEF LateCommand, CommandOf
<1>. QED
    BY <1>1, <1>3, <1>4, <1>5 DEF IsMap

LEMMA QueueOnce ==
    ASSUME Sound, Once
    PROVE  /\ Distinct(Queue)
           /\ \A i \in DOMAIN Queue, j \in DOMAIN handled :
                Queue[i].message # handled[j].message
           /\ \A i \in DOMAIN Queue : Queue[i].message \in Message /\ Known(Queue[i].message)
           /\ \A i \in DOMAIN Queue, o \in DOMAIN buffers' :
                ProcessActivity /\ buffers'[o].cmd # None =>
                    Queue[i].message # buffers'[o].cmd.message
<1> DEFINE p == SetToSeq(Early)
           q == SetToSeq(Late)
           r == commands \o p
<1>1. Apart(Filled) /\ IsMap(Filled, About(Loose))
    BY FilledOnce
<1>2. /\ p \in Seq(Command)
      /\ \A i \in DOMAIN p : \E o \in Ready : p[i] = EarlyCommand(o)
      /\ \A i, j \in DOMAIN p : p[i] = p[j] => i = j
    BY EarlyIs
<1>3. /\ q \in Seq(Command)
      /\ \A i \in DOMAIN q : \E o \in Closed : IsLate(o) /\ q[i] = LateCommand(o)
      /\ \A i, j \in DOMAIN q : q[i] = q[j] => i = j
    BY LateIs
<1>4. commands \in Seq(Command) /\ Distinct(commands) /\ Queue = r \o q
    BY SoundIs DEF Once, Queue
<1>5. \A o \in DOMAIN Filled : Filled[o].cmd # None => Filled[o].cmd.message \in Loose
    BY <1>1 DEF IsMap, About
<1> HIDE DEF p, q
<1>6. Distinct(p)
    <2>1. ASSUME NEW i \in DOMAIN p, NEW j \in DOMAIN p, p[i].message = p[j].message
          PROVE  i = j
        <3>1. PICK x \in Ready : p[i] = EarlyCommand(x)
            BY <1>2
        <3>2. PICK y \in Ready : p[j] = EarlyCommand(y)
            BY <1>2
        <3>3. x = y
            BY <1>1, <2>1, <3>1, <3>2, MadeOf DEF Apart
        <3>. QED
            BY <1>2, <3>1, <3>2, <3>3
    <2>. QED
        BY <2>1 DEF Distinct
<1>7. Distinct(q)
    <2>1. ASSUME NEW i \in DOMAIN q, NEW j \in DOMAIN q, q[i].message = q[j].message
          PROVE  i = j
        <3>1. PICK x \in Closed : IsLate(x) /\ q[i] = LateCommand(x)
            BY <1>3
        <3>2. PICK y \in Closed : IsLate(y) /\ q[j] = LateCommand(y)
            BY <1>3
        <3>3. x = y
            BY <1>1, <2>1, <3>1, <3>2, MadeOf DEF Apart
        <3>. QED
            BY <1>3, <3>1, <3>2, <3>3
    <2>. QED
        BY <2>1 DEF Distinct
<1>8. \A i \in DOMAIN p : p[i].message \in Loose
    BY <1>2, <1>5, MadeOf
<1>9. \A i \in DOMAIN q : q[i].message \in Loose
    BY <1>3, <1>5, MadeOf
<1>10. ASSUME NEW i \in DOMAIN p, NEW j \in DOMAIN q, p[i].message = q[j].message
       PROVE  FALSE
    <2>1. PICK x \in Ready : p[i] = EarlyCommand(x)
        BY <1>2
    <2>2. PICK y \in Closed : IsLate(y) /\ q[j] = LateCommand(y)
        BY <1>3
    <2>3. x = y /\ y \notin Ready
        BY <1>1, <1>10, <2>1, <2>2, MadeOf DEF Apart
    <2>. QED
        BY <2>3
<1>11. \A i \in DOMAIN commands : commands[i].message \notin Loose
    BY DEF Loose
<1>12. r \in Seq(Command) /\ Joins(r, commands, p)
    <2> HIDE DEF r
    <2>. QED
        BY <1>2, <1>4, ConcatHas DEF r
<1>13. Distinct(r)
    BY <1>2, <1>4, <1>6, <1>8, <1>11, ConcatDistinct
<1> HIDE DEF r
<1>14. \A i \in DOMAIN r, j \in DOMAIN q : r[i].message # q[j].message
    BY <1>9, <1>10, <1>11, <1>12 DEF Joins
<1>15. Distinct(Queue)
    BY <1>3, <1>4, <1>7, <1>12, <1>13, <1>14, ConcatDistinct
<1>16. ASSUME NEW i \in DOMAIN Queue
       PROVE  \/ \E j \in DOMAIN commands : Queue[i] = commands[j]
              \/ /\ Queue[i].message \in Loose
                 /\ \E o \in DOMAIN Filled : /\ Filled[o].cmd # None
                                             /\ Queue[i].message = Filled[o].cmd.message
                                             /\ o \notin DOMAIN Settled \ Closed
    <2>1. \A o \in Ready : EarlyCommand(o).message \in Loose
        BY <1>5, MadeOf
    <2>2. \A o \in Closed : IsLate(o) => LateCommand(o).message \in Loose
        BY <1>5, MadeOf
    <2>3. \A o \in DOMAIN Settled : o \notin Ready
        BY MadeOf
    <2>. QED
        BY <2>1, <2>2, <2>3, QueueIs, MadeOf
<1>17. \A i \in DOMAIN commands : commands[i].message \in Message
    BY <1>4, ElementOfSeq, LenProperties, CommandIs
<1>18. \A i \in DOMAIN Queue, j \in DOMAIN handled : Queue[i].message # handled[j].message
    BY <1>16 DEF Once, Loose
<1>19. \A i \in DOMAIN Queue : Queue[i].message \in Message /\ Known(Queue[i].message)
    BY <1>16, <1>17, LooseIs DEF Once
<1>20. ASSUME NEW i \in DOMAIN Queue, NEW o \in DOMAIN buffers', ProcessActivity,
              buffers'[o].cmd # None
       PROVE  Queue[i].message # buffers'[o].cmd.message
    <2>1. o \in DOMAIN Settled \ Closed /\ buffers'[o] = Settled[o]
        BY <1>20, ProcessActivityIs
    <2>2. /\ o \in DOMAIN Filled /\ Filled[o].cmd # None
          /\ buffers'[o].cmd.message = Filled[o].cmd.message
        BY <1>20, <2>1, MadeOf
    <2>3. buffers'[o].cmd.message \in Loose
        BY <1>5, <2>2
    <2>4. CASE \E j \in DOMAIN commands : Queue[i] = commands[j]
        BY <1>11, <2>3, <2>4
    <2>5. CASE \E x \in DOMAIN Filled : /\ Filled[x].cmd # None
                                        /\ Queue[i].message = Filled[x].cmd.message
                                        /\ x \notin DOMAIN Settled \ Closed
        BY <1>1, <2>1, <2>2, <2>5 DEF Apart
    <2>. QED
        BY <1>16, <2>4, <2>5
<1>. QED
    BY <1>15, <1>18, <1>19, <1>20

LEMMA ProcessOnce ==
    ASSUME Sound, Once, ProcessActivity
    PROVE  Once'
<1> DEFINE M == {x \in Loose : \A i \in DOMAIN Queue : Queue[i].message # x}
           t == Taken(Queue)
<1>1. /\ commands' = << >> /\ handled' = handled \o t
      /\ buffers' = [o \in DOMAIN Settled \ (Dropped \cup Closed) |-> Settled[o]]
      /\ UNCHANGED <<minute, station, begun>>
    BY ProcessActivityIs
<1>2. /\ Distinct(Queue) /\ Queue \in Seq(Command)
      /\ \A i \in DOMAIN Queue, j \in DOMAIN handled :
            Queue[i].message # handled[j].message
      /\ \A i \in DOMAIN Queue : Queue[i].message \in Message /\ Known(Queue[i].message)
      /\ \A i \in DOMAIN Queue, o \in DOMAIN buffers' :
            buffers'[o].cmd # None => Queue[i].message # buffers'[o].cmd.message
    BY QueueIs, QueueOnce
<1>3. /\ t \in Seq(Command) /\ Distinct(t)
      /\ \A k \in DOMAIN t : \E i \in DOMAIN Queue : t[k] = Queue[i]
    BY <1>2, TakenIs
<1>4. handled \in Seq(Command) /\ Distinct(handled)
    BY SoundIs DEF Once
<1> HIDE DEF t
<1>5. Distinct(handled \o t)
    <2>1. \A i \in DOMAIN handled, j \in DOMAIN t : handled[i].message # t[j].message
        BY <1>2, <1>3
    <2>. QED
        BY <1>3, <1>4, <2>1, ConcatDistinct
<1>6. Apart(Filled) /\ IsMap(Filled, About(Loose)) /\ IsMap(Settled, Buffer)
    BY FilledOnce, ProcessedMaps
<1>7. DOMAIN buffers' \subseteq DOMAIN Settled
      /\ \A o \in DOMAIN buffers' : buffers'[o] = Settled[o]
    BY <1>1
<1>8. \A o \in DOMAIN buffers' :
        /\ o \in DOMAIN Filled /\ buffers'[o] \in Buffer
        /\ buffers'[o].cmd = None <=> Filled[o].cmd = None
        /\ Filled[o].cmd # None => buffers'[o].cmd.message = Filled[o].cmd.message
    BY <1>7, MadeOf
<1>9. Apart(buffers')
    BY <1>6, <1>8 DEF Apart
<1>10. ASSUME NEW o \in DOMAIN buffers' PROVE buffers'[o] \in About(M)
    <2>1. buffers'[o].cmd # None => buffers'[o].cmd.message \in Loose
        BY <1>6, <1>8 DEF IsMap, About
    <2>2. buffers'[o].cmd # None => buffers'[o].cmd.message \in M
        BY <1>2, <2>1
    <2>. QED
        BY <1>8, <2>2 DEF About
<1>11. IsMap(buffers', About(M))
    <2>1. IsFiniteSet(DOMAIN buffers') /\ DOMAIN buffers' \subseteq Offset
        BY <1>6, <1>7, FS_Subset DEF IsMap
    <2>. QED
        BY <1>10, <2>1 DEF IsMap
<1>12. \A x \in Message : Known(x) => Known(x)'
    BY <1>1 DEF Known
<1>13. M \subseteq Message /\ \A x \in M : Known(x)'
    BY <1>12, LooseIs
<1>14. \A i \in DOMAIN handled' :
        \/ \E j \in DOMAIN handled : handled'[i] = handled[j]
        \/ \E j \in DOMAIN Queue : handled'[i] = Queue[j]
    BY HandledIs
<1>15. \A i \in DOMAIN handled' : handled'[i].message \notin M
    BY <1>14 DEF Loose
<1>16. \A i \in DOMAIN handled' : Known(handled'[i].message)
    BY <1>2, <1>14 DEF Once
<1>17. \A i \in DOMAIN handled' : Known(handled[i].message)'
    BY <1>1, <1>16 DEF Known
<1>18. DOMAIN commands' = {}
    BY <1>1
<1>19. Distinct(commands')
    BY <1>18 DEF Distinct
<1>20. \A s \in Station : Sending(s)' => station'[s].message.number =< begun'
    BY <1>1 DEF Once, Sending
<1>21. Distinct(handled')
    BY <1>1, <1>5
<1> HIDE DEF M
<1>. QED
    BY <1>1, <1>9, <1>11, <1>13, <1>15, <1>17, <1>18, <1>19, <1>20, <1>21, OnceAgain

LEMMA StepOnce ==
    ASSUME Sound, Once, [Next]_vars
    PROVE  Once'
<1>1. ASSUME NEW s \in Station, NEW checked \in BOOLEAN, NEW parts \in 0 .. MaxText,
             Begin(s, checked, parts)
      PROVE  Once'
    <2> DEFINE m == NewMessage(s, checked, parts)
    <2>1. /\ m \in Message /\ m.number = begun + 1
          /\ \A t \in Station : t # s => station'[t] = station[t]
          /\ station'[s].message = m /\ begun' = begun + 1
          /\ UNCHANGED <<minute, buffers, commands, handled>>
        BY <1>1, BeginIs
    <2>2. \A x \in Message : Known(x) => Known(x)'
        BY <1>1, BeginKnown
    <2> HIDE DEF m
    <2>3. ASSUME NEW t \in Station, Sending(t)' PROVE station'[t].message.number =< begun'
        <3>1. begun \in Nat
            BY SoundIs
        <3>2. CASE t = s
            BY <2>1, <3>1, <3>2
        <3>3. CASE t # s
            <4>1. /\ station[t].message \in Message /\ station[t].message.number =< begun
                  /\ station[t].message.number \in Nat
                BY <2>1, <2>3, <3>3, StationIs, MessageIs DEF Once, Sending
            <4>. QED
                BY <2>1, <3>1, <3>3, <4>1
        <3>. QED
            BY <3>2, <3>3
    <2>. QED
        BY <2>1, <2>2, <2>3, StayOnce
<1>2. ASSUME NEW s \in Station, SendLost(s) PROVE Once'
    <2>1. /\ Sending(s) /\ Sent(s, 0)
          /\ UNCHANGED <<minute, begun, buffers, commands, handled>>
        BY <1>2 DEF SendLost
    <2>2. \A x \in Message : Known(x) => Known(x)'
        BY <2>1, SentKnown
    <2>3. /\ \A t \in Station : t # s => station'[t] = station[t]
          /\ station'[s].message \in {None, station[s].message}
        BY <2>1, SentIs
    <2>4. \A t \in Station : Sending(t)' => station'[t].message.number =< begun'
        BY <2>1, <2>3 DEF Once, Sending
    <2>. QED
        BY <2>1, <2>2, <2>4, StayOnce
<1>3. ASSUME NEW s \in Station, NEW o \in Offsets[s], SendDecoded(s, o) PROVE Once'
    <2>1. /\ o \in Offset /\ Sending(s) /\ ProcessDecodeEvent(NextFrame(s), o)
          /\ UNCHANGED <<minute, begun, handled>>
        BY <1>3, DecodedIs
    <2>2. PICK p \in Nat : Sent(s, p)
        BY <1>3, DecodedIs
    <2>. QED
        BY <2>1, <2>2, DecodedOnce
<1>4. CASE UNCHANGED vars
    <2>1. UNCHANGED <<minute, station, begun, buffers, commands, handled>>
        BY <1>4 DEF vars
    <2>2. \A x \in Message : Known(x) => Known(x)'
        BY <2>1 DEF Known
    <2>3. \A s \in Station : Sending(s)' => station'[s].message.number =< begun'
        BY <2>1 DEF Once, Sending
    <2>. QED
        BY <2>1, <2>2, <2>3, StayOnce
<1>5. ASSUME NEW frame \in seen, NEW o \in Offset, DecodeAgain(frame, o)
      PROVE  UNCHANGED vars
    BY <1>5, AgainChangesNothing
<1>. QED
    BY <1>1, <1>2, <1>3, <1>4, <1>5, ProcessOnce, TickOnce DEF Next

LEMMA InitOnce == Init => Once
<1> SUFFICES ASSUME Init PROVE Once
    OBVIOUS
<1>1. /\ DOMAIN buffers = {} /\ DOMAIN commands = {} /\ DOMAIN handled = {}
      /\ \A s \in Station : station[s].message = None
    BY DEF Init
<1>2. Distinct(commands) /\ Distinct(handled) /\ Apart(buffers)
    BY <1>1 DEF Distinct, Apart
<1>. QED
    BY <1>1, <1>2, FS_EmptySet DEF Once, IsMap, Sending

(* No message is handed over twice, whatever is lost, repeated or mixed up *)
(* in the buffers.                                                         *)
THEOREM OnceCorrect == Spec => []HandledOnce
<1>1. Spec => [](Sound /\ Once)
    BY InitSound, StepSound, InitOnce, StepOnce, PTL DEF Spec
<1>2. Once => HandledOnce
    BY DEF Once, Distinct, HandledOnce
<1>. QED
    BY <1>1, <1>2, PTL

-----------------------------------------------------------------------------
(* Stations that keep to places.                                           *)

At(o, p) == o - RxThreshold =< p /\ p =< o + RxThreshold

(* Stations that are near to each other are at one place: whatever one of  *)
(* them sends is found by what any of them has sent.                       *)
Places ==
    \A s, t \in Station :
        NearStations(s, t) => \A o \in Offsets[s], p \in Offsets[t] : At(o, p)

(* A station of the place of this offset is s.                             *)
Here(s, o) == \E p \in Offsets[s] : At(o, p)

(* There is at most one in every place.                                    *)
OneEach(map) == \A o, p \in DOMAIN map : At(o, p) => o = p

LEMMA AtIs ==
    ASSUME Places, NEW o \in Offset, NEW p \in Offset, NEW q \in Offset
    PROVE  /\ At(o, o) /\ (At(o, p) => At(p, o))
           /\ At(o, p) /\ At(p, q) => At(o, q)
<1>1. PICK s \in Station : o \in Offsets[s]
    BY DEF Offset
<1>2. PICK t \in Station : q \in Offsets[t]
    BY DEF Offset
<1>3. o \in Nat /\ p \in Nat /\ q \in Nat /\ RxThreshold \in Nat
    BY Constants
<1>4. At(o, o) /\ (At(o, p) => At(p, o))
    BY <1>3 DEF At
<1>5. ASSUME At(o, p), At(p, q) PROVE At(o, q)
    <2>1. q - 2 * RxThreshold =< o /\ o =< q + 2 * RxThreshold
        BY <1>3, <1>5 DEF At
    <2>2. NearStations(s, t)
        BY <1>1, <1>2, <2>1 DEF NearStations
    <2>. QED
        BY <1>1, <1>2, <2>2 DEF Places
<1>. QED
    BY <1>4, <1>5

LEMMA NearIs ==
    ASSUME Places, NEW s \in Station, NEW t \in Station
    PROVE  /\ NearStations(s, s) /\ (NearStations(s, t) => NearStations(t, s))
           /\ \A o \in Offsets[s] : o \in Offset /\ Here(s, o)
           /\ \A x \in Offset, o \in Offsets[t] :
                /\ Here(s, x) /\ At(x, o) => NearStations(s, t)
                /\ Here(s, x) /\ NearStations(s, t) => At(x, o)
<1>1. /\ Offsets[s] \subseteq Offset /\ Offsets[t] \subseteq Offset
      /\ Offsets[s] # {} /\ Offset \subseteq Nat /\ RxThreshold \in Nat
    BY Constants
<1>2. ASSUME NEW o \in Offset, NEW p \in Offset
      PROVE  /\ p - 2 * RxThreshold =< o /\ o =< p + 2 * RxThreshold
                <=> o - 2 * RxThreshold =< p /\ p =< o + 2 * RxThreshold
             /\ o - 2 * RxThreshold =< o /\ o =< o + 2 * RxThreshold
    BY <1>1
<1>3. NearStations(s, s)
    BY <1>1, <1>2 DEF NearStations
<1>4. NearStations(s, t) => NearStations(t, s)
    BY <1>1, <1>2 DEF NearStations
<1>5. \A o \in Offsets[s] : o \in Offset /\ Here(s, o)
    BY <1>1, AtIs DEF Here
<1>6. ASSUME NEW x \in Offset, NEW o \in Offsets[t], Here(s, x)
      PROVE  /\ At(x, o) => NearStations(s, t)
             /\ NearStations(s, t) => At(x, o)
    <2>1. PICK p \in Offsets[s] : At(x, p)
        BY <1>6 DEF Here
    <2>2. p \in Offset /\ o \in Offset
        BY <1>1
    <2>3. ASSUME At(x, o) PROVE NearStations(s, t)
        <3>1. o - 2 * RxThreshold =< p /\ p =< o + 2 * RxThreshold
            BY <1>1, <2>1, <2>2, <2>3 DEF At
        <3>. QED
            BY <3>1 DEF NearStations
    <2>4. ASSUME NearStations(s, t) PROVE At(x, o)
        <3>1. At(p, o)
            BY <2>4 DEF Places
        <3>. QED
            BY <2>1, <2>2, <3>1, AtIs
    <2>. QED
        BY <2>3, <2>4
<1>. QED
    BY <1>3, <1>4, <1>5, <1>6

(* A map that has become c: what was at the place of o is at o, or gone;   *)
(* the rest is as before.                                                  *)
Moved(map, c, o) ==
    /\ DOMAIN map \subseteq Offset /\ DOMAIN c \subseteq Offset /\ OneEach(c)
    /\ \A x \in DOMAIN c : At(x, o) => x = o
    /\ \A x \in Offset : ~At(x, o) => (x \in DOMAIN c <=> x \in DOMAIN map)
    /\ \A x \in DOMAIN map : ~At(x, o) => c[x] = map[x]

LEMMA FollowMoves ==
    ASSUME Places, NEW map, NEW o \in Offset, DOMAIN map \subseteq Offset, OneEach(map)
    PROVE  LET c == Follow(map, o)
           IN  /\ Moved(map, c, o)
               /\ o \in DOMAIN c <=> \E x \in DOMAIN map : At(x, o)
               /\ \A x \in DOMAIN map : At(x, o) => c[o] = map[x]
<1> DEFINE c == Follow(map, o)
<1>1. /\ \A x \in DOMAIN map : x \in Near(map, o) <=> At(x, o)
      /\ Near(map, o) \subseteq DOMAIN map
      /\ At(o, o)
    BY AtIs DEF Near, At
<1>2. CASE c = map /\ (o \in DOMAIN map \/ Near(map, o) = {})
    <2>1. \A x \in DOMAIN map : At(x, o) => x = o
        BY <1>1, <1>2 DEF OneEach
    <2>2. Moved(map, map, o)
        BY <2>1 DEF Moved
    <2> HIDE DEF c
    <2>3. o \in DOMAIN c <=> \E x \in DOMAIN map : At(x, o)
        BY <1>1, <1>2, <2>1
    <2>. QED
        BY <1>2, <2>1, <2>2, <2>3 DEF c
<1>3. ASSUME o \notin DOMAIN map, NEW from \in Near(map, o),
             DOMAIN c = (DOMAIN map \ {from}) \cup {o}, c[o] = map[from],
             \A x \in DOMAIN map : x # from => c[x] = map[x]
      PROVE  /\ Moved(map, c, o)
             /\ o \in DOMAIN c /\ \E x \in DOMAIN map : At(x, o)
             /\ \A x \in DOMAIN map : At(x, o) => c[o] = map[x]
    <2>1. from \in DOMAIN map /\ from \in Offset /\ At(from, o)
        BY <1>1
    <2>2. \A x \in DOMAIN map : At(x, o) => x = from
        BY <2>1, AtIs DEF OneEach
    <2> HIDE DEF c
    <2>3. \A x \in DOMAIN c : At(x, o) => x = o
        BY <1>3, <2>2
    <2>4. OneEach(c)
        <3>1. ASSUME NEW x \in DOMAIN c, NEW y \in DOMAIN c, At(x, y) PROVE x = y
            <4>1. x \in Offset /\ y \in Offset
                BY <1>3
            <4>2. CASE x = o \/ y = o
                BY <2>3, <3>1, <4>1, <4>2, AtIs
            <4>3. CASE x # o /\ y # o
                BY <1>3, <3>1, <4>3 DEF OneEach
            <4>. QED
                BY <4>2, <4>3
        <3>. QED
            BY <3>1 DEF OneEach
    <2>5. \A x \in Offset : ~At(x, o) => (x \in DOMAIN c <=> x \in DOMAIN map)
        BY <1>1, <1>3, <2>1
    <2>6. \A x \in DOMAIN map : ~At(x, o) => c[x] = map[x]
        BY <1>3, <2>1
    <2>7. DOMAIN c \subseteq Offset
        BY <1>3
    <2>8. Moved(map, c, o)
        BY <2>3, <2>4, <2>5, <2>6, <2>7 DEF Moved
    <2>. QED
        BY <1>3, <2>1, <2>2, <2>8
<1> HIDE DEF c
<1>4. \/ c = map /\ (o \in DOMAIN map \/ Near(map, o) = {})
      \/ /\ o \notin DOMAIN map
         /\ \E from \in Near(map, o) :
              /\ DOMAIN c = (DOMAIN map \ {from}) \cup {o}
              /\ c[o] = map[from]
              /\ \A x \in DOMAIN map : x # from => c[x] = map[x]
    BY FollowIs DEF c
<1>. QED
    BY <1>2, <1>3, <1>4 DEF c

LEMMA FollowStays ==
    ASSUME Places, NEW map, NEW c, NEW o \in Offset, Moved(map, c, o)
    PROVE  Follow(c, o) = c
<1>1. \A x \in DOMAIN c : x \in Offset /\ (At(x, o) => x = o)
    BY DEF Moved
<1>2. \A x \in Near(c, o) : x \in DOMAIN c /\ At(o, x)
    BY DEF Near, At
<1>3. \A x \in Near(c, o) : x = o /\ o \in DOMAIN c
    BY <1>1, <1>2, AtIs
<1>. QED
    BY <1>3 DEF Follow

LEMMA PutMoves ==
    ASSUME Places, NEW map, NEW c, NEW o \in Offset, NEW v, Moved(map, c, o)
    PROVE  Moved(map, Put(c, o, v), o)
<1> DEFINE d == Put(c, o, v)
<1>1. /\ DOMAIN d = DOMAIN c \cup {o}
      /\ \A x \in DOMAIN c : x # o => d[x] = c[x]
      /\ At(o, o)
    BY AtIs DEF Put
<1> HIDE DEF d
<1>2. /\ DOMAIN map \subseteq Offset /\ DOMAIN c \subseteq Offset /\ OneEach(c)
      /\ \A x \in DOMAIN c : At(x, o) => x = o
      /\ \A x \in Offset : ~At(x, o) => (x \in DOMAIN c <=> x \in DOMAIN map)
      /\ \A x \in DOMAIN map : ~At(x, o) => c[x] = map[x]
    BY DEF Moved
<1>3. \A x \in DOMAIN d : At(x, o) => x = o
    BY <1>1, <1>2
<1>4. ASSUME NEW x \in DOMAIN d, NEW y \in DOMAIN d, At(x, y) PROVE x = y
    <2>1. x \in Offset /\ y \in Offset
        BY <1>1, <1>2
    <2>2. CASE x = o \/ y = o
        BY <1>3, <1>4, <2>1, <2>2, AtIs
    <2>3. CASE x # o /\ y # o
        BY <1>1, <1>2, <1>4, <2>3 DEF OneEach
    <2>. QED
        BY <2>2, <2>3
<1>5. \A x \in DOMAIN map : ~At(x, o) => d[x] = map[x]
    BY <1>1, <1>2
<1>6. \A x \in Offset : ~At(x, o) => (x \in DOMAIN d <=> x \in DOMAIN map)
    BY <1>1, <1>2
<1>7. DOMAIN d \subseteq Offset
    BY <1>1, <1>2
<1>. QED
    BY <1>2, <1>3, <1>4, <1>5, <1>6, <1>7 DEF Moved, OneEach, d

LEMMA WithoutMoves ==
    ASSUME Places, NEW map, NEW c, NEW o \in Offset, Moved(map, c, o)
    PROVE  Moved(map, Without(c, o), o) /\ o \notin DOMAIN Without(c, o)
<1> DEFINE d == Without(c, o)
<1>1. /\ DOMAIN d = DOMAIN c \ {o}
      /\ \A x \in DOMAIN d : d[x] = c[x]
      /\ At(o, o)
    BY AtIs DEF Without
<1> HIDE DEF d
<1>2. /\ DOMAIN map \subseteq Offset /\ DOMAIN d \subseteq Offset /\ OneEach(d)
      /\ \A x \in DOMAIN d : At(x, o) => x = o
    BY <1>1 DEF Moved, OneEach
<1>3. \A x \in Offset : ~At(x, o) => (x \in DOMAIN d <=> x \in DOMAIN map)
    BY <1>1 DEF Moved
<1>4. \A x \in DOMAIN map : ~At(x, o) => d[x] = map[x]
    BY <1>1, <1>3 DEF Moved
<1>. QED
    BY <1>1, <1>2, <1>3, <1>4 DEF Moved, d

-----------------------------------------------------------------------------
(* A frame, and processActivity, in places.                                *)

(* The buffer to which a frame is added.                                   *)
Before(frame, o) ==
    IF frame.first THEN NoBuffer ELSE BufferAt(o, Follow(buffers, o))

LEMMA BeforeIs ==
    ASSUME Places, Sound, OneEach(buffers), NEW frame, NEW o \in Offset
    PROVE  /\ Before(frame, o) \in Buffer
           /\ frame.first => Before(frame, o) = NoBuffer
           /\ (\A x \in DOMAIN buffers : ~At(x, o)) => Before(frame, o) = NoBuffer
           /\ ~frame.first => \A x \in DOMAIN buffers : At(x, o) => Before(frame, o) = buffers[x]
<1> DEFINE c == Follow(buffers, o)
<1>1. TypeOK /\ IsMap(buffers, Buffer)
    BY SoundIs DEF Sound
<1>2. /\ o \in DOMAIN c <=> \E x \in DOMAIN buffers : At(x, o)
      /\ \A x \in DOMAIN buffers : At(x, o) => c[o] = buffers[x]
    BY <1>1, FollowMoves DEF IsMap
<1>3. IsMap(c, Buffer)
    BY <1>1, FollowMap
<1>4. Before(frame, o) = IF frame.first \/ o \notin DOMAIN c THEN NoBuffer ELSE c[o]
    BY DEF Before, BufferAt
<1> HIDE DEF c
<1>5. NoBuffer \in Buffer
    BY <1>1, NoBufferIs
<1>. QED
    BY <1>2, <1>3, <1>4, <1>5 DEF IsMap

LEMMA DecodeView ==
    ASSUME Places, Sound, OneEach(buffers), OneEach(band), NEW frame \in Frame,
           ~IsDuplicate(frame), NEW o \in Offset, ProcessDecodeEvent(frame, o)
    PROVE  /\ Moved(buffers, buffers', o) /\ Moved(band, band', o)
           /\ o \in DOMAIN band' /\ band'[o] = [idle |-> frame.last, age |-> 0]
           /\ frame.kind = "compound" =>
                o \in DOMAIN buffers' /\ buffers'[o] = WithCall(Before(frame, o), frame)
           /\ frame.kind = "directed" /\ Waits(HeaderOf(frame)) =>
                o \in DOMAIN buffers' /\ buffers'[o] = WithHeader(Before(frame, o), frame)
           /\ frame.kind = "directed" /\ ~Waits(HeaderOf(frame)) =>
                /\ o \in DOMAIN buffers' => ~frame.first
                        /\ (\E x \in DOMAIN buffers : At(x, o))
                        /\ buffers'[o] = Before(frame, o)
                /\ commands' = Append(commands, CommandOf(HeaderOf(frame), << >>))
           /\ frame.kind = "data" =>
                /\ o \in DOMAIN buffers' <=>
                        ~frame.first /\ \E x \in DOMAIN buffers : At(x, o)
                /\ o \in DOMAIN buffers' => buffers'[o] = WithText(Before(frame, o), frame)
           /\ frame.kind # "directed" \/ Waits(HeaderOf(frame)) => commands' = commands
<1> DEFINE first == Follow(buffers, o)
           clear == ClearIfFirst(buffers, frame, o)
           b == GeneralActivity(buffers, frame, o)
           old == Before(frame, o)
           waits == frame.kind = "directed" /\ Waits(HeaderOf(frame))
<1>1. IsMap(band, Activity) /\ IsMap(buffers, Buffer)
    BY SoundIs
<1>2. /\ Moved(buffers, first, o)
      /\ o \in DOMAIN first <=> \E x \in DOMAIN buffers : At(x, o)
    BY <1>1, FollowMoves DEF IsMap
<1>3. old = IF frame.first THEN NoBuffer ELSE BufferAt(o, first)
    BY DEF Before
<1>4. /\ IF frame.first THEN clear = Without(first, o) ELSE clear = buffers
      /\ b = IF frame.kind = "data" /\ o \in DOMAIN Follow(clear, o)
             THEN Put(Follow(clear, o), o, WithText(Follow(clear, o)[o], frame))
             ELSE Follow(clear, o)
    BY DEF ClearIfFirst, GeneralActivity, WithText
<1>5. /\ seen' = seen \cup {frame}
      /\ band' = Put(Follow(band, o), o, [idle |-> frame.last, age |-> 0])
      /\ buffers' = IF frame.kind = "compound" THEN CompoundFrame(b, frame, o)
                    ELSE IF waits THEN DirectedFrame(b, frame, o) ELSE b
      /\ commands' = IF frame.kind = "directed" /\ ~waits
                     THEN Append(commands, CommandOf(HeaderOf(frame), << >>))
                     ELSE commands
    BY DEF ProcessDecodeEvent
<1> HIDE DEF first, clear, b, old
<1>6. /\ Moved(buffers, Follow(clear, o), o)
      /\ o \in DOMAIN Follow(clear, o) <=> ~frame.first /\ \E x \in DOMAIN buffers : At(x, o)
      /\ BufferAt(o, Follow(clear, o)) = old
      /\ o \in DOMAIN Follow(clear, o) => Follow(clear, o)[o] = old
    <2>1. CASE frame.first
        <3>1. Moved(buffers, clear, o) /\ o \notin DOMAIN clear
            BY <1>2, <1>4, <2>1, WithoutMoves
        <3>2. Follow(clear, o) = clear
            BY <3>1, FollowStays
        <3>. QED
            BY <1>3, <2>1, <3>1, <3>2 DEF BufferAt
    <2>2. CASE ~frame.first
        <3>1. Follow(clear, o) = first
            BY <1>4, <2>2 DEF first
        <3>. QED
            BY <1>2, <1>3, <2>2, <3>1 DEF BufferAt
    <2>. QED
        BY <2>1, <2>2
<1>7. Moved(band, band', o) /\ o \in DOMAIN band'
      /\ band'[o] = [idle |-> frame.last, age |-> 0]
    <2> DEFINE d == Follow(band, o)
               v == [idle |-> frame.last, age |-> 0]
    <2>1. Moved(band, d, o)
        BY <1>1, FollowMoves DEF IsMap
    <2> HIDE DEF d, v
    <2>2. Moved(band, Put(d, o, v), o)
        BY <2>1, PutMoves
    <2>3. o \in DOMAIN Put(d, o, v) /\ Put(d, o, v)[o] = v
        BY DEF Put
    <2>. QED
        BY <1>5, <2>2, <2>3 DEF d, v
<1>8. /\ Moved(buffers, b, o) /\ Follow(b, o) = b
      /\ frame.kind = "data" =>
           /\ o \in DOMAIN b <=> ~frame.first /\ \E x \in DOMAIN buffers : At(x, o)
           /\ o \in DOMAIN b => b[o] = WithText(old, frame)
      /\ frame.kind # "data" =>
           /\ BufferAt(o, b) = old
           /\ o \in DOMAIN b => /\ ~frame.first /\ b[o] = old
                                /\ \E x \in DOMAIN buffers : At(x, o)
    <2> DEFINE e == Follow(clear, o)
    <2>1. /\ Moved(buffers, e, o)
          /\ o \in DOMAIN e <=> ~frame.first /\ \E x \in DOMAIN buffers : At(x, o)
          /\ BufferAt(o, e) = old
          /\ o \in DOMAIN e => e[o] = old
          /\ b = IF frame.kind = "data" /\ o \in DOMAIN e
                 THEN Put(e, o, WithText(e[o], frame)) ELSE e
        BY <1>4, <1>6
    <2> HIDE DEF e
    <2>2. CASE frame.kind = "data" /\ o \in DOMAIN e
        <3>1. Moved(buffers, b, o)
            BY <2>1, <2>2, PutMoves
        <3>2. b[o] = WithText(old, frame) /\ o \in DOMAIN b
            BY <2>1, <2>2 DEF Put
        <3>. QED
            BY <2>1, <2>2, <3>1, <3>2, FollowStays
    <2>3. CASE ~(frame.kind = "data" /\ o \in DOMAIN e)
        BY <2>1, <2>3, FollowStays
    <2>. QED
        BY <2>2, <2>3
<1>9. frame.kind = "compound" =>
        /\ Moved(buffers, buffers', o) /\ o \in DOMAIN buffers'
        /\ buffers'[o] = WithCall(old, frame)
    <2> SUFFICES ASSUME frame.kind = "compound"
                 PROVE  /\ Moved(buffers, buffers', o) /\ o \in DOMAIN buffers'
                        /\ buffers'[o] = WithCall(old, frame)
        OBVIOUS
    <2>1. buffers' = Put(b, o, WithCall(old, frame))
        BY <1>5, <1>8 DEF CompoundFrame, WithCall, CallOf
    <2>2. Moved(buffers, Put(b, o, WithCall(old, frame)), o)
        BY <1>8, PutMoves
    <2>. QED
        BY <2>1, <2>2 DEF Put
<1>10. waits =>
        /\ Moved(buffers, buffers', o) /\ o \in DOMAIN buffers'
        /\ buffers'[o] = WithHeader(old, frame)
    <2> SUFFICES ASSUME waits
                 PROVE  /\ Moved(buffers, buffers', o) /\ o \in DOMAIN buffers'
                        /\ buffers'[o] = WithHeader(old, frame)
        OBVIOUS
    <2>1. buffers' = Put(b, o, WithHeader(old, frame))
        BY <1>5, <1>8 DEF DirectedFrame, WithHeader
    <2>2. Moved(buffers, Put(b, o, WithHeader(old, frame)), o)
        BY <1>8, PutMoves
    <2>. QED
        BY <2>1, <2>2 DEF Put
<1>11. frame.kind # "compound" /\ ~waits => buffers' = b
    BY <1>5
<1>12. frame.kind = "directed" /\ ~Waits(HeaderOf(frame)) =>
        /\ o \in DOMAIN buffers' => ~frame.first
                /\ (\E x \in DOMAIN buffers : At(x, o)) /\ buffers'[o] = old
        /\ commands' = Append(commands, CommandOf(HeaderOf(frame), << >>))
    BY <1>5, <1>8, <1>11
<1>13. frame.kind = "data" =>
        /\ o \in DOMAIN buffers' <=> ~frame.first /\ \E x \in DOMAIN buffers : At(x, o)
        /\ o \in DOMAIN buffers' => buffers'[o] = WithText(old, frame)
    BY <1>8, <1>11
<1>14. Moved(buffers, buffers', o)
    BY <1>8, <1>9, <1>10, <1>11
<1>15. frame.kind # "directed" \/ Waits(HeaderOf(frame)) => commands' = commands
    BY <1>5
<1>. QED
    BY <1>7, <1>9, <1>10, <1>12, <1>13, <1>14, <1>15 DEF old

(* An ellipsis goes into a buffer of an idle offset, nowhere else.         *)
LEMMA FilledView ==
    ASSUME Places, Sound, OneEach(band), DOMAIN buffers \subseteq DOMAIN band
    PROVE  /\ DOMAIN Filled = DOMAIN buffers
           /\ \A o \in DOMAIN buffers :
                Filled[o] = IF o \in IdleOffsets THEN WithEllipsis(buffers[o], band[o].age)
                            ELSE buffers[o]
<1> DEFINE R == Reached(buffers, IdleOffsets)
<1>1. DOMAIN band \subseteq Offset /\ Offset \subseteq Nat /\ RxThreshold \in Nat
    BY SoundIs, Constants DEF IsMap
<1>2. IdleOffsets \subseteq DOMAIN band
    BY DEF IdleOffsets
<1>3. ASSUME NEW some \in SUBSET IdleOffsets, NEW o \in some,
             Near(buffers, o) # {} \/ \E r \in some : o - RxThreshold =< r /\ r < o
      PROVE  o \in DOMAIN buffers
    <2>1. CASE Near(buffers, o) # {}
        <3>1. PICK x \in DOMAIN buffers : At(o, x)
            BY <2>1 DEF Near, At
        <3>2. x = o
            BY <1>2, <3>1 DEF OneEach
        <3>. QED
            BY <3>1, <3>2
    <2>2. CASE \E r \in some : o - RxThreshold =< r /\ r < o
        <3>1. PICK r \in some : o - RxThreshold =< r /\ r < o
            BY <2>2
        <3>2. o \in Nat /\ r \in Nat /\ o \in DOMAIN band /\ r \in DOMAIN band
            BY <1>1, <1>2
        <3>3. At(o, r) /\ o # r
            BY <1>1, <3>1, <3>2 DEF At
        <3>. QED
            BY <3>2, <3>3 DEF OneEach
    <2>. QED
        BY <1>3, <2>1, <2>2
<1>4. R \subseteq DOMAIN buffers
    BY <1>3 DEF Reached
<1>5. ASSUME NEW o \in DOMAIN buffers, o \in IdleOffsets PROVE o \in R
    <2>1. o \in Near(buffers, o)
        <3>1. o \in Nat
            BY <1>1, <1>2, <1>5
        <3>2. o - RxThreshold =< o /\ o =< o + RxThreshold
            BY <1>1, <3>1
        <3>. QED
            BY <3>2 DEF Near
    <2>2. {o} \in SUBSET IdleOffsets
        BY <1>5
    <2>3. \A x \in {o} : Near(buffers, x) # {} \/ \E r \in {o} : x - RxThreshold =< r /\ r < x
        BY <2>1
    <2>. QED
        BY <2>2, <2>3 DEF Reached
<1>6. R \subseteq IdleOffsets
    BY DEF Reached
<1>7. Filled = [o \in DOMAIN buffers \cup R |->
                  IF o \notin R THEN buffers[o]
                  ELSE WithEllipsis(BufferAt(o, buffers), band[o].age)]
    BY DEF Filled, AddEllipses, WithEllipsis
<1> HIDE DEF R
<1>. QED
    BY <1>4, <1>5, <1>6, <1>7 DEF BufferAt

(* Of the stations of a place one sends at a time.                         *)
Quiet ==
    \A s, t \in Station : s # t /\ NearStations(s, t) /\ Sending(s) => ~Sending(t)

(* Whoever sent a frame of this half period is not sending the next one.   *)
Paused == \A f \in seen : station[f.message.from].wait > 0

Spread ==
    /\ OneEach(buffers) /\ OneEach(band) /\ DOMAIN buffers \subseteq DOMAIN band
    /\ Quiet /\ Paused

LEMMA CharactersOf ==
    ASSUME NEW f
    PROVE  /\ f.kind = "compound" => Characters(f) = <<"compound", f.message.from>>
           /\ f.kind = "directed" =>
                Characters(f) = <<"directed", HeaderOf(f).from, f.message.checked,
                                  Words[f.message.number][0]>>
           /\ f.kind = "data" => Characters(f) = <<"data", Words[f.message.number][f.part]>>
<1>1. CASE f.kind = "compound"
    <2>1. f.kind # "directed" /\ f.kind # "data"
        BY <1>1, SMT
    <2>. QED
        BY <1>1, <2>1, Zenon DEF Characters
<1>2. CASE f.kind = "directed"
    <2>1. f.kind # "compound" /\ f.kind # "data"
        BY <1>2, SMT
    <2>. QED
        BY <1>2, <2>1, Zenon DEF Characters
<1>3. CASE f.kind = "data"
    <2>1. f.kind # "compound" /\ f.kind # "directed"
        BY <1>3, SMT
    <2>. QED
        BY <1>3, <2>1, Zenon DEF Characters
<1>. QED
    BY <1>1, <1>2, <1>3

(* A first frame has its sender's callsign, and no other frame of this     *)
(* half period is his.                                                     *)
LEMMA FirstIsNew ==
    ASSUME Sound, Paused, NEW s \in Station, Sending(s), station[s].wait = 0,
           station[s].sent = 0
    PROVE  ~IsDuplicate(NextFrame(s))
<1> SUFFICES ASSUME NEW g \in seen, Characters(g) = Characters(NextFrame(s))
             PROVE  FALSE
    BY DEF IsDuplicate
<1> DEFINE f == NextFrame(s)
           m == station[s].message
<1>1. m \in Message /\ m.from = s
    BY StationIs
<1>2. f.message = m /\ f.kind = KindOf(m, 1)
    <2>1. station[s].sent + 1 = 1
        OBVIOUS
    <2>. QED
        BY <2>1, NextFrameIs
<1>3. IF s \in Compound THEN f.kind = "compound" ELSE f.kind = "directed"
    BY <1>1, <1>2, MessageIs DEF KindOf
<1>4. g \in Frame /\ g.message \in Message /\ g.message.from \in Station
      /\ g.kind \in {"compound", "directed", "data"}
    BY SoundIs, MessageIs DEF Frame
<1>5. station[g.message.from].wait > 0
    BY DEF Paused
<1> HIDE DEF f, m
<1>6. CASE s \in Compound
    <2>1. Characters(f) = <<"compound", s>>
        BY <1>1, <1>2, <1>3, <1>6, CharactersOf
    <2>3. Characters(g) = <<"compound", s>>
        BY <2>1 DEF f
    <2>2. g.kind = "compound" /\ g.message.from = s
        BY <1>4, <2>3, CharactersOf
    <2>. QED
        BY <1>5, <2>2
<1>7. CASE s \notin Compound
    <2>1. /\ f.kind = "directed" /\ HeaderOf(f).from = s
          /\ Characters(f) = <<"directed", s, m.checked, Words[m.number][0]>>
        BY <1>1, <1>2, <1>3, <1>7, CharactersOf DEF HeaderOf
    <2>4. Characters(g) = <<"directed", s, m.checked, Words[m.number][0]>>
        BY <2>1 DEF f
    <2>2. g.kind = "directed" /\ HeaderOf(g).from = s
        BY <1>4, <2>4, CharactersOf
    <2>3. g.message.from = s
        BY <2>2, Constants DEF HeaderOf
    <2>. QED
        BY <1>5, <2>3
<1>. QED
    BY <1>6, <1>7

LEMMA SentPaused ==
    ASSUME Sound, Paused, Quiet, NEW s \in Station, Sending(s), NEW o \in Nat, Sent(s, o),
           seen' \subseteq seen \cup {NextFrame(s)}
    PROVE  Paused' /\ Quiet' /\ \A t \in Station : Sending(t)' => Sending(t)
<1>1. /\ \A t \in Station : t # s => station'[t] = station[t]
      /\ station'[s].wait = 2
      /\ station'[s].message \in {None, station[s].message}
    BY SentIs
<1>2. NextFrame(s).message.from = s
    BY NextFrameIs, StationIs
<1>3. ASSUME NEW g \in seen' PROVE station'[g.message.from].wait > 0
    <2>1. CASE g = NextFrame(s)
        BY <1>1, <1>2, <2>1
    <2>2. CASE g \in seen
        <3>1. g.message.from \in Station /\ station[g.message.from].wait > 0
            BY <2>2, SoundIs, MessageIs DEF Paused, Frame
        <3>. QED
            BY <1>1, <3>1
    <2>. QED
        BY <2>1, <2>2
<1>4. Paused'
    BY <1>3 DEF Paused
<1>5. \A t \in Station : Sending(t)' => Sending(t)
    BY <1>1 DEF Sending
<1>6. Quiet'
    BY <1>5 DEF Quiet, NearStations
<1>. QED
    BY <1>4, <1>5, <1>6

LEMMA StepSpread ==
    ASSUME Places, Sound, Once, Spread, [Next]_vars
    PROVE  Spread'
<1>0. OneEach(buffers) /\ OneEach(band) /\ DOMAIN buffers \subseteq DOMAIN band /\ Quiet /\ Paused
    BY DEF Spread
<1>1. ASSUME NEW s \in Station, NEW checked \in BOOLEAN, NEW parts \in 0 .. MaxText,
             Begin(s, checked, parts)
      PROVE  Spread'
    <2>0. PICK m \in Message : m = NewMessage(s, checked, parts)
        BY <1>1, BeginIs
    <2>1. /\ m.number = begun + 1 /\ begun \in Nat
          /\ \A t \in Station : t # s => station'[t] = station[t]
          /\ station'[s].message = m /\ begun' = begun + 1
          /\ \A t \in Station \ {s} : NearStations(s, t) => ~Sending(t)
          /\ UNCHANGED <<seen, band, buffers>>
        BY <1>1, <2>0, BeginIs, SoundIs
    <2>2. ASSUME NEW x \in Station, NEW y \in Station, x # y, NearStations(x, y), Sending(x)'
          PROVE  ~Sending(y)'
        <3>1. NearStations(y, x)
            BY <2>2, NearIs
        <3>2. CASE x = s
            BY <2>1, <2>2, <3>2 DEF Sending
        <3>3. CASE y = s
            BY <2>1, <2>2, <3>1, <3>3 DEF Sending
        <3>4. CASE x # s /\ y # s
            BY <1>0, <2>1, <2>2, <3>4 DEF Sending, Quiet
        <3>. QED
            BY <3>2, <3>3, <3>4
    <2>3. Quiet'
        BY <2>2 DEF Quiet, NearStations
    <2>5. Paused'
        <3>1. \A t \in Station : station'[t].wait = station[t].wait
            BY <1>1, <2>1, BeginIs
        <3>2. \A f \in seen : f.message.from \in Station
            BY SoundIs, MessageIs DEF Frame
        <3>. QED
            BY <1>0, <2>1, <3>1, <3>2 DEF Paused
    <2>. QED
        BY <1>0, <2>1, <2>3, <2>5 DEF Spread, OneEach
<1>2. ASSUME NEW s \in Station, Misses(s) PROVE Spread'
    <2>1. /\ Sending(s) /\ Sent(s, 0) /\ UNCHANGED <<begun, seen, band, buffers>>
        BY <1>2 DEF Misses
    <2>2. Paused' /\ Quiet'
        BY <1>0, <2>1, SentPaused
    <2>. QED
        BY <1>0, <2>1, <2>2 DEF Spread, OneEach
<1>3. ASSUME NEW s \in Station, NEW o \in Offsets[s], Takes(s, o) PROVE Spread'
    <2> DEFINE frame == NextFrame(s)
    <2>1. /\ o \in Offset /\ o \in Nat /\ Sending(s) /\ ProcessDecodeEvent(frame, o)
          /\ Sent(s, o) /\ ~IsDuplicate(frame)
        BY <1>3, TakesIs
    <2>2. frame \in Frame
        BY <2>1, NextFrameIs
    <2>3. seen' = seen \cup {frame}
        BY <2>1, <2>2, ReceiveIs
    <2>4. Paused' /\ Quiet'
        BY <1>0, <2>1, <2>3, SentPaused
    <2> HIDE DEF frame
    <2>5. Moved(buffers, buffers', o) /\ Moved(band, band', o) /\ o \in DOMAIN band'
        BY <1>0, <2>1, <2>2, DecodeView
    <2>6. OneEach(buffers') /\ OneEach(band')
        BY <2>5 DEF Moved
    <2>7. DOMAIN buffers' \subseteq DOMAIN band'
        BY <1>0, <2>5 DEF Moved
    <2>. QED
        BY <2>4, <2>6, <2>7 DEF Spread, OneEach
<1>4. CASE ProcessActivity
    <2>1. /\ band' = [o \in DOMAIN band |->
                        IF o \in IdleOffsets THEN [idle |-> TRUE, age |-> 0] ELSE band[o]]
          /\ buffers' = [o \in DOMAIN Settled \ (Dropped \cup Closed) |-> Settled[o]]
          /\ UNCHANGED <<station, begun, seen>>
        BY <1>4, ProcessActivityIs
    <2>2. DOMAIN Settled \subseteq DOMAIN buffers
        BY <1>0, FilledView, MadeOf
    <2>3. DOMAIN buffers' \subseteq DOMAIN buffers /\ DOMAIN band' = DOMAIN band
        BY <2>1, <2>2
    <2>4. Paused' /\ Quiet'
        BY <1>0, <2>1 DEF Paused, Quiet, Sending, NearStations
    <2>. QED
        BY <1>0, <2>3, <2>4 DEF Spread, OneEach
<1>5. CASE Tick
    <2>1. /\ \A s \in Station : station'[s].message = station[s].message
          /\ DOMAIN buffers' = DOMAIN buffers /\ DOMAIN band' = DOMAIN band /\ seen' = {}
        BY <1>5, TickIs
    <2>2. Paused' /\ Quiet'
        BY <1>0, <2>1 DEF Paused, Quiet, Sending, NearStations
    <2>. QED
        BY <1>0, <2>1, <2>2 DEF Spread, OneEach
<1>6. CASE UNCHANGED vars
    <2>1. UNCHANGED <<station, begun, seen, band, buffers>>
        BY <1>6 DEF vars
    <2>2. Paused' /\ Quiet'
        BY <1>0, <2>1 DEF Paused, Quiet, Sending, NearStations
    <2>. QED
        BY <1>0, <2>1, <2>2 DEF Spread, OneEach
<1>7. ASSUME NEW frame \in seen, NEW o \in Offset, DecodeAgain(frame, o)
      PROVE  UNCHANGED vars
    BY <1>7, AgainChangesNothing
<1>8. \A s \in Station : SendLost(s) => Misses(s)
    BY LostMisses
<1>9. \A s \in Station : \A o \in Offsets[s] : SendDecoded(s, o) => Takes(s, o) \/ Misses(s)
    BY DecodedIs
<1>. QED
    BY <1>1, <1>2, <1>3, <1>4, <1>5, <1>6, <1>7, <1>8, <1>9 DEF Next

LEMMA InitSpread == Init => Spread
<1> SUFFICES ASSUME Init PROVE Spread
    OBVIOUS
<1>1. /\ DOMAIN buffers = {} /\ DOMAIN band = {} /\ seen = {}
      /\ \A s \in Station : station[s].message = None
    BY DEF Init
<1>. QED
    BY <1>1 DEF Spread, OneEach, Quiet, Paused, Sending

-----------------------------------------------------------------------------
(* The buffer of a message of which every frame has come so far.           *)

(* The callsign of its sender has come, and no other.                      *)
Called(b, m, age) ==
    /\ Len(b.compound) = 1
    /\ b.compound[1].call = m.from /\ b.compound[1].age =< age

(* Its callsign waits for its header, or has been put into it.             *)
Signed(b, m, age) ==
    \/ b.cmd.from = m.from /\ b.compound = << >>
    \/ b.cmd.from = Unresolved /\ Called(b, m, age)

(* It has k frames, and the last of them has this age at most.             *)
Tracks(b, m, k, age) ==
    /\ ~b.last
    /\ k < HeaderAt(m) => b.cmd = None /\ b.msgs = << >> /\ Called(b, m, age)
    /\ k >= HeaderAt(m) =>
         /\ b.cmd # None /\ b.cmd.message = m /\ ~b.cmd.last
         /\ Signed(b, m, IF k = HeaderAt(m) THEN age + 2 ELSE MaxAge)
         /\ Len(b.msgs) = k - HeaderAt(m)
         /\ \A i \in 1 .. Len(b.msgs) : b.msgs[i] = Text(m)[i]
         /\ IF k = HeaderAt(m) THEN b.cmd.age =< age + 2 ELSE b.age =< age

LEMMA CalledIs ==
    ASSUME NEW b \in Buffer, NEW m, NEW age, Called(b, m, age)
    PROVE  /\ b.compound # << >> /\ Last(b.compound) = b.compound[1]
           /\ Tail(b.compound) = << >> /\ 1 \in DOMAIN b.compound
           /\ b.compound[1] \in Call
<1> DEFINE q == b.compound
<1>1. q \in Seq(Call) /\ Len(q) = 1
    BY BufferIs DEF Called
<1> HIDE DEF q
<1>2. q # << >> /\ Last(q) = q[1] /\ DOMAIN q = 1 .. 1
    BY <1>1, LenProperties, EmptySeq DEF Last
<1>3. Tail(q) \in Seq(Call) /\ Len(Tail(q)) = 0
    BY <1>1, <1>2, HeadTailProperties
<1>4. Tail(q) = << >>
    BY <1>3, EmptySeq
<1>5. 1 \in DOMAIN q
    BY <1>2
<1>6. q[1] \in Call
    BY <1>1, <1>5, ElementOfSeq, LenProperties
<1>. QED
    BY <1>2, <1>4, <1>5, <1>6 DEF q

LEMMA YoungestIs ==
    ASSUME TypeOK, NEW b \in Buffer
    PROVE  /\ Youngest(b) \in Nat
           /\ b.cmd # None => Youngest(b) =< b.cmd.age
           /\ b.compound # << >> => Youngest(b) =< Last(b.compound).age
           /\ b.msgs # << >> => Youngest(b) =< b.age
<1> DEFINE S == IF b.cmd = None THEN {} ELSE {b.cmd.age}
           U == IF b.compound = << >> THEN {} ELSE {Last(b.compound).age}
           V == IF b.msgs = << >> THEN {} ELSE {b.age}
           T == {MaxAge} \cup S \cup U \cup V
<1>1. Youngest(b) = Min(T)
    BY DEF Youngest
<1>2. MaxAge \in Nat /\ Age \subseteq Nat
    BY AgesAre
<1>3. S \subseteq Nat /\ V \subseteq Nat
    BY <1>2, BufferIs
<1>4. U \subseteq Nat
    <2>1. CASE b.compound # << >>
        <3>1. b.compound \in Seq(Call) /\ Len(b.compound) \in Nat
              /\ DOMAIN b.compound = 1 .. Len(b.compound) /\ Len(b.compound) # 0
            BY <2>1, BufferIs, LenProperties, EmptySeq
        <3>2. Len(b.compound) \in DOMAIN b.compound
            BY <3>1
        <3>3. Last(b.compound).age \in Age
            BY <3>2, BufferIs DEF Last
        <3>. QED
            BY <1>2, <3>3
    <2>. QED
        BY <2>1
<1>5. T \subseteq Nat /\ T # {}
    BY <1>2, <1>3, <1>4
<1>6. Min(T) \in T /\ \A y \in T : Min(T) =< y
    <2> HIDE DEF T
    <2>. QED
        BY <1>5, LeastIsIn
<1>. QED
    BY <1>1, <1>5, <1>6

(* processActivity keeps it, and puts the callsign into the header.        *)
LEMMA TracksSettled ==
    ASSUME TypeOK, NEW b \in Ending, NEW m \in Message, NEW k \in Nat, NEW age \in 0 .. 2,
           k >= 1, Tracks(b, m, k, age)
    PROVE  /\ ~CompoundComplete(b) /\ Tracks(Resolved(b), m, k, age)
           /\ ~Drops(Resolved(b)) /\ ~Closes(Resolved(b))
<1> DEFINE r == Resolved(b)
<1>1. b \in Buffer /\ \A i \in DOMAIN b.compound : ~b.compound[i].last
    BY DEF Ending
<1>2. /\ r \in Buffer /\ r.msgs = b.msgs /\ r.last = b.last /\ r.age = b.age
      /\ r.cmd = None <=> b.cmd = None
      /\ r.cmd # None => r.cmd.message = b.cmd.message
      /\ IF b.compound = << >> \/ b.cmd = None \/ b.cmd.from # Unresolved
         THEN r = b
         ELSE /\ r.compound = Tail(b.compound)
              /\ r.cmd.from = b.compound[1].call
              /\ r.cmd.last = (b.cmd.last \/ b.compound[1].last)
              /\ r.cmd.age = IF b.compound[1].age > b.cmd.age
                             THEN b.compound[1].age ELSE b.cmd.age
    BY <1>1, ResolvedIs
<1>3. CompoundComplete(b) <=> b.compound # << >> /\ b.cmd # None /\ r.cmd.last
    BY DEF CompoundComplete
<1>4. HeaderAt(m) \in {1, 2} /\ DropAfter \in Nat /\ DropAfter >= 6
      /\ CloseAfter \in Nat /\ CloseAfter >= 4 /\ MaxAge \in Nat /\ MaxAge >= 6
    BY MessageIs, AgesAre
<1> HIDE DEF r
<1>5. /\ Youngest(r) \in Nat
      /\ r.cmd # None => Youngest(r) =< r.cmd.age
      /\ r.compound # << >> => Youngest(r) =< Last(r.compound).age
      /\ r.msgs # << >> => Youngest(r) =< r.age
      /\ Youngest(r) < DropAfter => ~Drops(r)
      /\ ~r.last /\ Youngest(r) < CloseAfter => ~Closes(r)
      /\ r.msgs = << >> => ~Closes(r)
    BY <1>2, <1>4, YoungestIs DEF Drops, Closes
<1>6. ~b.last
    BY DEF Tracks
<1>7. CASE k < HeaderAt(m)
    <2>1. b.cmd = None /\ b.msgs = << >> /\ Called(b, m, age)
        BY <1>7 DEF Tracks
    <2>2. r = b
        BY <1>2, <2>1
    <2>3. b.compound # << >> /\ Last(b.compound) = b.compound[1] /\ b.compound[1] \in Call
          /\ b.compound[1].age =< age
        BY <1>1, <2>1, CalledIs DEF Called
    <2>4. b.compound[1].age \in Nat
        BY <2>3, AgesAre DEF Call
    <2>5. Youngest(r) =< 2
        BY <1>5, <2>2, <2>3, <2>4
    <2>. QED
        BY <1>3, <1>4, <1>5, <2>1, <2>2, <2>5 DEF r
<1>8. CASE k >= HeaderAt(m)
    <2> DEFINE a == IF k = HeaderAt(m) THEN age + 2 ELSE MaxAge
    <2>1. /\ b.cmd # None /\ b.cmd.message = m /\ ~b.cmd.last
          /\ Signed(b, m, a)
          /\ Len(b.msgs) = k - HeaderAt(m)
          /\ \A i \in 1 .. Len(b.msgs) : b.msgs[i] = Text(m)[i]
          /\ k = HeaderAt(m) => b.cmd.age =< age + 2
          /\ k # HeaderAt(m) => b.age =< age
        BY <1>8 DEF Tracks
    <2>2. b.cmd.age \in Nat /\ b.age \in Nat
        BY <1>1, <2>1, BufferIs, AgesAre
    <2>3. a = IF k = HeaderAt(m) THEN age + 2 ELSE MaxAge
        OBVIOUS
    <2> HIDE DEF a
    <2>4. /\ r.cmd # None /\ r.cmd.message = m /\ ~r.cmd.last
          /\ r.cmd.from = m.from /\ r.compound = << >>
          /\ k = HeaderAt(m) => r.cmd.age =< age + 2
          /\ ~CompoundComplete(b)
        <3>1. CASE b.cmd.from = m.from /\ b.compound = << >>
            BY <1>2, <1>3, <2>1, <3>1
        <3>2. CASE b.cmd.from = Unresolved /\ Called(b, m, a)
            <4>1. b.compound # << >> /\ Tail(b.compound) = << >> /\ 1 \in DOMAIN b.compound
                  /\ b.compound[1] \in Call /\ b.compound[1].call = m.from
                  /\ b.compound[1].age =< a
                BY <1>1, <3>2, CalledIs DEF Called
            <4>2. b.compound[1].age \in Nat /\ ~b.compound[1].last
                BY <1>1, <4>1, AgesAre DEF Call
            <4>. QED
                BY <1>2, <1>3, <2>1, <2>2, <2>3, <3>2, <4>1, <4>2
        <3>. QED
            BY <2>1, <3>1, <3>2 DEF Signed
    <2>5. r.msgs \in Seq(Part) /\ (k = HeaderAt(m) => r.msgs = << >>)
          /\ (k # HeaderAt(m) => r.msgs # << >>)
        <3>1. r.msgs \in Seq(Part) /\ Len(r.msgs) = k - HeaderAt(m)
            BY <1>2, <2>1, BufferIs
        <3>2. k # HeaderAt(m) => Len(r.msgs) # 0
            BY <1>4, <1>8, <3>1
        <3>3. k = HeaderAt(m) => Len(r.msgs) = 0
            BY <1>4, <3>1
        <3>. QED
            BY <3>1, <3>2, <3>3, EmptySeq
    <2>6. ~Drops(r) /\ ~Closes(r)
        <3>1. CASE k = HeaderAt(m)
            <4>1. Youngest(r) =< 4 /\ r.msgs = << >>
                <5>1. r.cmd.age \in Nat
                    BY <1>2, <2>4, BufferIs, AgesAre
                <5>. QED
                    BY <1>5, <2>4, <2>5, <3>1, <5>1
            <4>. QED
                BY <1>4, <1>5, <4>1
        <3>2. CASE k # HeaderAt(m)
            <4>1. Youngest(r) =< 2
                BY <1>2, <1>5, <2>1, <2>2, <2>5, <3>2
            <4>. QED
                BY <1>2, <1>4, <1>5, <1>6, <4>1
        <3>. QED
            BY <3>1, <3>2
    <2>7. Tracks(r, m, k, age)
        BY <1>2, <1>4, <1>6, <1>8, <2>1, <2>4 DEF Tracks, Signed
    <2>. QED
        BY <2>4, <2>6, <2>7 DEF r
<1>. QED
    BY <1>4, <1>7, <1>8

(* Half a period makes it older.                                           *)
LEMMA TracksAged ==
    ASSUME TypeOK, NEW b \in Buffer, NEW m \in Message, NEW k \in Nat, NEW age \in 0 .. 2,
           Tracks(b, m, k, age)
    PROVE  Tracks(AgedBuffer(b), m, k, age + 1)
<1> DEFINE c == AgedBuffer(b)
<1>1. /\ c \in Buffer /\ c.msgs = b.msgs /\ c.last = b.last
      /\ c.age = IF b.msgs = << >> THEN 0 ELSE Older(b.age)
      /\ c.cmd = None <=> b.cmd = None
      /\ b.cmd # None =>
           /\ c.cmd.message = b.cmd.message /\ c.cmd.from = b.cmd.from
           /\ c.cmd.last = b.cmd.last /\ c.cmd.age = Older(b.cmd.age)
      /\ Len(c.compound) = Len(b.compound)
      /\ \A i \in DOMAIN b.compound :
           /\ c.compound[i].call = b.compound[i].call
           /\ c.compound[i].age = Older(b.compound[i].age)
    BY AgedIs
<1>2. \A x \in Age : x \in Nat /\ Older(x) \in Nat /\ Older(x) =< x + 1 /\ Older(x) =< MaxAge
    <2>1. \A x \in Age : x \in Nat /\ Older(x) \in Age /\ Older(x) =< x + 1
        BY AgesAre
    <2>2. \A x \in Age : x \in Nat /\ x =< MaxAge
        BY AgesAre
    <2>. QED
        BY <2>1, <2>2
<1>3. HeaderAt(m) \in {1, 2} /\ MaxAge \in Nat
    BY MessageIs, AgesAre
<1> HIDE DEF c
<1>4. ASSUME NEW a \in Nat, Called(b, m, a)
      PROVE  Called(c, m, a + 1) /\ Called(c, m, MaxAge)
    <2>1. 1 \in DOMAIN b.compound /\ b.compound[1].age \in Age /\ b.compound[1].age =< a
        BY <1>4, CalledIs DEF Called, Call
    <2>2. c.compound[1].age =< a + 1 /\ c.compound[1].age =< MaxAge
        BY <1>1, <1>2, <2>1
    <2>. QED
        BY <1>1, <1>4, <2>1, <2>2 DEF Called
<1>5. ASSUME b.compound = << >> PROVE c.compound = << >>
    <2>1. Len(b.compound) = 0 /\ c.compound \in Seq(Call)
        BY <1>1, <1>5, BufferIs, EmptySeq
    <2>. QED
        BY <1>1, <2>1, EmptySeq
<1>6. CASE k < HeaderAt(m)
    <2>1. ~b.last /\ b.cmd = None /\ b.msgs = << >> /\ Called(b, m, age)
        BY <1>6 DEF Tracks
    <2>2. ~(k >= HeaderAt(m))
        BY <1>3, <1>6
    <2>3. Called(c, m, age + 1)
        BY <1>4, <2>1
    <2>. QED
        BY <1>1, <2>1, <2>2, <2>3 DEF Tracks, c
<1>7. CASE k >= HeaderAt(m)
    <2>1. /\ b.cmd # None /\ b.cmd.message = m /\ ~b.cmd.last
          /\ Signed(b, m, IF k = HeaderAt(m) THEN age + 2 ELSE MaxAge)
          /\ Len(b.msgs) = k - HeaderAt(m)
          /\ \A i \in 1 .. Len(b.msgs) : b.msgs[i] = Text(m)[i]
          /\ IF k = HeaderAt(m) THEN b.cmd.age =< age + 2 ELSE b.age =< age
          /\ ~b.last
        BY <1>7 DEF Tracks
    <2>2. ~(k < HeaderAt(m))
        BY <1>3, <1>7
    <2>3. Signed(c, m, IF k = HeaderAt(m) THEN (age + 1) + 2 ELSE MaxAge)
        <3>1. CASE b.cmd.from = m.from /\ b.compound = << >>
            BY <1>1, <1>5, <2>1, <3>1 DEF Signed
        <3>2. CASE b.cmd.from = Unresolved /\ k = HeaderAt(m) /\ Called(b, m, age + 2)
            <4>1. Called(c, m, (age + 2) + 1) /\ (age + 2) + 1 = (age + 1) + 2
                BY <1>4, <3>2
            <4>. QED
                BY <1>1, <2>1, <3>2, <4>1 DEF Signed
        <3>3. CASE b.cmd.from = Unresolved /\ k # HeaderAt(m) /\ Called(b, m, MaxAge)
            <4>1. Called(c, m, MaxAge)
                BY <1>3, <1>4, <3>3
            <4>. QED
                BY <1>1, <2>1, <3>3, <4>1 DEF Signed
        <3>. QED
            BY <2>1, <3>1, <3>2, <3>3 DEF Signed
    <2>4. IF k = HeaderAt(m) THEN c.cmd.age =< (age + 1) + 2 ELSE c.age =< age + 1
        <3>1. b.cmd.age \in Age /\ b.age \in Age
            BY <2>1, BufferIs
        <3>. QED
            BY <1>1, <1>2, <2>1, <3>1
    <2>. QED
        BY <1>1, <2>1, <2>2, <2>3, <2>4 DEF Tracks, c
<1>. QED
    BY <1>3, <1>6, <1>7

(* It has the whole message, and is done with when processActivity comes.  *)
Delivers(b, m) ==
    /\ b.cmd # None /\ b.cmd.message = m /\ b.msgs = Text(m)
    /\ Signed(b, m, MaxAge)
    /\ IF m.parts = 0 THEN b.cmd.last /\ b.cmd.from = Unresolved
       ELSE ~b.cmd.last /\ b.last /\ b.age = 0

(* What the buffer has when the frame k + 1 comes.                         *)
Awaits(b, m, k) ==
    IF k = 0 THEN b = NoBuffer ELSE Tracks(b, m, k, 2)

LEMMA AppendText ==
    ASSUME NEW S, NEW q \in Seq(S), NEW n \in Nat, Len(q) = n, NEW t, t \in [1 .. n + 1 -> S],
           \A i \in 1 .. n : q[i] = t[i]
    PROVE  LET r == Append(q, t[n + 1])
           IN  Len(r) = n + 1 /\ \A i \in 1 .. n + 1 : r[i] = t[i]
<1> DEFINE r == Append(q, t[n + 1])
<1>1. n + 1 \in 1 .. n + 1
    OBVIOUS
<1>2. t[n + 1] \in S
    BY <1>1
<1>3. Len(r) = n + 1 /\ r[n + 1] = t[n + 1] /\ \A i \in 1 .. n : r[i] = q[i]
    BY <1>2, AppendProperties
<1> HIDE DEF r
<1>5. \A i \in 1 .. n + 1 : i = n + 1 \/ i \in 1 .. n
    OBVIOUS
<1>. QED
    BY <1>3, <1>5 DEF r

LEMMA CallComes ==
    ASSUME TypeOK, NEW m \in Message, NEW frame, frame = Frames(m)[1],
           frame.kind = "compound"
    PROVE  Tracks(WithCall(NoBuffer, frame), m, 1, 0) /\ ~frame.last
<1> DEFINE c == WithCall(NoBuffer, frame)
           call == CallOf(frame)
<1>0. HeaderAt(m) \in {1, 2} /\ LastAt(m) = HeaderAt(m) + m.parts /\ m.parts \in Nat
    BY MessageIs
<1>1. /\ 0 < LastAt(m) /\ 0 + 1 = 1
    BY <1>0
<1>2. /\ frame \in Frame /\ frame.message = m /\ frame.last = (1 = LastAt(m))
      /\ frame.kind = KindOf(m, 1)
    BY <1>1, FrameIs
<1>3. HeaderAt(m) = 2
    BY <1>1, <1>2, KindIs
<1>4. NoBuffer \in Buffer /\ NoBuffer.cmd = None /\ NoBuffer.msgs = << >> /\ ~NoBuffer.last
      /\ NoBuffer.compound = << >>
    BY NoBufferIs DEF NoBuffer
<1>5. /\ c \in Buffer /\ c.cmd = None /\ c.compound = Append(<< >>, call)
      /\ c.msgs = << >> /\ ~c.last /\ call \in Call
    BY <1>2, <1>4, WithCallIs
<1>6. call.call = m.from /\ call.age = 0
    BY <1>2 DEF CallOf
<1>10. 1 # LastAt(m)
    BY <1>0, <1>3
<1> HIDE DEF c, call
<1>7. Len(c.compound) = 1 /\ c.compound[1] = call
    <2>1. << >> \in Seq(Call)
        BY EmptySeq
    <2>. QED
        BY <1>5, <2>1
<1>8. Called(c, m, 0)
    BY <1>6, <1>7 DEF Called
<1>9. 1 < HeaderAt(m) /\ ~(1 >= HeaderAt(m))
    BY <1>3
<1>11. ~frame.last
    BY <1>2, <1>10, Zenon
<1>. QED
    BY <1>5, <1>8, <1>9, <1>11 DEF Tracks, c

LEMMA HeaderComes ==
    ASSUME TypeOK, NEW m \in Message, NEW k \in Nat, k < LastAt(m), NEW frame,
           frame = Frames(m)[k + 1], frame.kind = "directed",
           NEW b \in Buffer, Awaits(b, m, k)
    PROVE  LET c == WithHeader(b, frame)
           IN  /\ k + 1 < LastAt(m) => Waits(HeaderOf(frame)) /\ Tracks(c, m, k + 1, 0)
               /\ k + 1 = LastAt(m) =>
                    IF k = 0
                    THEN /\ ~Waits(HeaderOf(frame))
                         /\ CommandOf(HeaderOf(frame), << >>) =
                                CommandOf([message |-> m, from |-> m.from], Text(m))
                    ELSE Waits(HeaderOf(frame)) /\ Delivers(c, m)
<1> DEFINE c == WithHeader(b, frame)
           header == HeaderOf(frame)
<1>0. /\ HeaderAt(m) \in {1, 2} /\ (HeaderAt(m) = 2 <=> m.from \in Compound)
      /\ LastAt(m) = HeaderAt(m) + m.parts /\ m.parts \in Nat /\ m.from \in Station
    BY MessageIs
<1>1. /\ frame \in Frame /\ frame.message = m /\ frame.last = (k + 1 = LastAt(m))
      /\ frame.kind = KindOf(m, k + 1)
    BY FrameIs
<1>2. k + 1 = HeaderAt(m)
    BY <1>1, KindIs
<1>3. /\ header # None /\ header.message = m /\ header.last = frame.last /\ header.age = 0
      /\ header.from = IF HeaderAt(m) = 2 THEN Unresolved ELSE m.from
    BY <1>0, <1>1, HeaderOfIs
<1>4. /\ c \in Buffer /\ c.cmd = header /\ c.compound = b.compound
      /\ c.msgs = << >> /\ c.last = FALSE /\ c.age = 0
    BY <1>1, WithHeaderIs
<1>5. Waits(header) <=> ~header.last \/ header.from = Unresolved
    BY DEF Waits
<1>6. Unresolved \notin Station /\ MaxAge \in Nat /\ MaxAge >= 6
    BY Constants, AgesAre
<1> HIDE DEF c, header
<1>7. Signed(c, m, 2)
    <2>1. CASE k = 0
        <3>1. b.compound = << >> /\ header.from = m.from
            BY <1>2, <1>3, <2>1 DEF Awaits, NoBuffer
        <3>. QED
            BY <1>4, <3>1 DEF Signed
    <2>2. CASE k # 0
        <3>1. k = 1 /\ HeaderAt(m) = 2 /\ k < HeaderAt(m)
            BY <1>0, <1>2, <2>2
        <3>2. Called(b, m, 2)
            BY <2>2, <3>1 DEF Awaits, Tracks
        <3>. QED
            BY <1>3, <1>4, <3>1, <3>2 DEF Signed, Called
    <2>. QED
        BY <2>1, <2>2
<1>8. ASSUME k + 1 < LastAt(m) PROVE Waits(header) /\ Tracks(c, m, k + 1, 0)
    <2>1. k + 1 # LastAt(m)
        BY <1>0, <1>8
    <2>2. ~header.last
        BY <1>1, <1>3, <2>1, Zenon
    <2>3. /\ ~(k + 1 < HeaderAt(m)) /\ Len(c.msgs) = (k + 1) - HeaderAt(m)
          /\ 0 + 2 = 2 /\ DOMAIN c.msgs = {} /\ 1 .. Len(c.msgs) = {}
        BY <1>2, <1>4
    <2>4. c.cmd.age =< 0 + 2
        BY <1>3, <1>4
    <2>. QED
        BY <1>2, <1>3, <1>4, <1>5, <1>7, <2>2, <2>3, <2>4 DEF Tracks
<1>9. ASSUME k + 1 = LastAt(m)
      PROVE  IF k = 0
             THEN /\ ~Waits(header)
                  /\ CommandOf(header, << >>) =
                        CommandOf([message |-> m, from |-> m.from], Text(m))
             ELSE Waits(header) /\ Delivers(c, m)
    <2>1. m.parts = 0
        BY <1>0, <1>2, <1>9
    <2>2. Text(m) = << >>
        BY <2>1, NoText
    <2>3. header.last
        BY <1>1, <1>3, <1>9, Zenon
    <2>4. CASE k = 0
        <3>1. header.from = m.from
            BY <1>2, <1>3, <2>4
        <3>. QED
            BY <1>0, <1>3, <1>5, <1>6, <2>2, <2>3, <2>4, <3>1 DEF CommandOf
    <2>5. CASE k # 0
        <3>1. header.from = Unresolved
            BY <1>0, <1>2, <1>3, <2>5
        <3>2. Signed(c, m, MaxAge)
            <4>1. Called(c, m, 2)
                BY <1>0, <1>4, <1>6, <1>7, <3>1 DEF Signed
            <4>2. c.compound[1].age \in Nat
                BY <1>4, <4>1, CalledIs, AgesAre DEF Call
            <4>. QED
                BY <1>4, <1>6, <3>1, <4>1, <4>2 DEF Signed, Called
        <3>. QED
            BY <1>3, <1>4, <1>5, <2>1, <2>2, <2>3, <2>5, <3>1, <3>2 DEF Delivers
    <2>. QED
        BY <2>4, <2>5
<1>. QED
    BY <1>8, <1>9 DEF c, header

LEMMA TextComes ==
    ASSUME TypeOK, NEW m \in Message, NEW k \in Nat, k < LastAt(m), NEW frame,
           frame = Frames(m)[k + 1], frame.kind = "data",
           NEW b \in Buffer, Awaits(b, m, k)
    PROVE  LET c == WithText(b, frame)
           IN  /\ k # 0 /\ ~frame.first
               /\ k + 1 < LastAt(m) => Tracks(c, m, k + 1, 0)
               /\ k + 1 = LastAt(m) => Delivers(c, m)
<1> DEFINE c == WithText(b, frame)
           n == k - HeaderAt(m)
<1>0. /\ HeaderAt(m) \in {1, 2} /\ LastAt(m) = HeaderAt(m) + m.parts /\ m.parts \in Nat
      /\ m.from \in Station
    BY MessageIs
<1>1. /\ frame \in Frame /\ frame.message = m /\ frame.last = (k + 1 = LastAt(m))
      /\ frame.kind = KindOf(m, k + 1) /\ frame.part = k + 1 - HeaderAt(m)
      /\ frame.first = (k = 0)
    BY FrameIs
<1>2. k + 1 > HeaderAt(m)
    BY <1>1, KindIs
<1>3. k # 0 /\ k >= HeaderAt(m) /\ n \in Nat /\ frame.part = n + 1 /\ frame.part \in 1 .. m.parts
    BY <1>0, <1>1, <1>2
<1>4. /\ Text(m) \in Seq(Part) /\ Len(Text(m)) = m.parts /\ DOMAIN Text(m) = 1 .. m.parts
    BY TextIs
<1>5. /\ c \in Buffer /\ c.cmd = b.cmd /\ c.compound = b.compound
      /\ c.msgs = Append(b.msgs, Text(m)[n + 1])
      /\ c.last = frame.last /\ c.age = 0
    BY <1>1, <1>3, WithTextIs
<1>6. /\ b.cmd # None /\ b.cmd.message = m /\ ~b.cmd.last
      /\ Signed(b, m, IF k = HeaderAt(m) THEN 4 ELSE MaxAge)
      /\ Len(b.msgs) = n
      /\ \A i \in 1 .. n : b.msgs[i] = Text(m)[i]
    BY <1>3 DEF Awaits, Tracks
<1>7. n = k - HeaderAt(m)
    OBVIOUS
<1> HIDE DEF c, n
<1>8. Signed(c, m, MaxAge)
    <2>1. CASE b.cmd.from = m.from /\ b.compound = << >>
        BY <1>5, <2>1 DEF Signed
    <2>2. ASSUME NEW a, b.cmd.from = Unresolved, Called(b, m, a)
          PROVE  Signed(c, m, MaxAge)
        <3>1. b.compound[1].age =< MaxAge
            BY <2>2, CalledIs, AgesAre DEF Call
        <3>. QED
            BY <1>5, <2>2, <3>1 DEF Signed, Called
    <2>. QED
        BY <1>6, <2>1, <2>2 DEF Signed
<1>9. Len(c.msgs) = n + 1 /\ \A i \in 1 .. n + 1 : c.msgs[i] = Text(m)[i]
    <2> DEFINE t == [i \in 1 .. n + 1 |-> Text(m)[i]]
    <2>1. n + 1 \in 1 .. m.parts
        BY <1>3
    <2>2. ASSUME NEW i \in 1 .. n + 1 PROVE Text(m)[i] \in Part
        <3>1. i \in DOMAIN Text(m)
            BY <1>0, <1>3, <1>4, <2>1
        <3>. QED
            BY <1>4, <3>1, ElementOfSeq
    <2>3. t \in [1 .. n + 1 -> Part] /\ t[n + 1] = Text(m)[n + 1]
          /\ \A i \in 1 .. n : b.msgs[i] = t[i]
        <3>1. n + 1 \in 1 .. n + 1 /\ \A i \in 1 .. n : i \in 1 .. n + 1
            BY <1>3
        <3>. QED
            BY <1>6, <2>2, <3>1
    <2>4. \A i \in 1 .. n + 1 : t[i] = Text(m)[i]
        OBVIOUS
    <2> HIDE DEF t
    <2>5. b.msgs \in Seq(Part) /\ n \in Nat /\ c.msgs = Append(b.msgs, t[n + 1])
        BY <1>3, <1>5, <2>3, BufferIs
    <2>6. Len(c.msgs) = n + 1 /\ \A i \in 1 .. n + 1 : c.msgs[i] = t[i]
        BY <1>6, <2>3, <2>5, AppendText
    <2>. QED
        BY <2>4, <2>6
<1>10. ASSUME k + 1 < LastAt(m) PROVE Tracks(c, m, k + 1, 0)
    <2>1. /\ k + 1 # LastAt(m) /\ ~(k + 1 < HeaderAt(m)) /\ k + 1 # HeaderAt(m)
          /\ Len(c.msgs) = (k + 1) - HeaderAt(m) /\ c.age =< 0
        BY <1>0, <1>3, <1>5, <1>7, <1>9, <1>10
    <2>2. ~c.last
        BY <1>1, <1>5, <2>1, Zenon
    <2>3. \A i \in 1 .. Len(c.msgs) : c.msgs[i] = Text(m)[i]
        BY <1>9
    <2>. QED
        BY <1>5, <1>6, <1>8, <2>1, <2>2, <2>3 DEF Tracks
<1>11. ASSUME k + 1 = LastAt(m) PROVE Delivers(c, m)
    <2>1. n + 1 = m.parts /\ m.parts # 0
        BY <1>0, <1>3, <1>7, <1>11
    <2>2. c.last
        BY <1>1, <1>5, <1>11, Zenon
    <2>3. c.msgs = Text(m)
        <3>1. c.msgs \in Seq(Part)
            BY <1>5, BufferIs
        <3>2. Len(c.msgs) = Len(Text(m))
              /\ \A i \in 1 .. Len(c.msgs) : c.msgs[i] = Text(m)[i]
            BY <1>4, <1>9, <2>1
        <3>. QED
            BY <1>4, <3>1, <3>2, SeqEqual
    <2>. QED
        BY <1>5, <1>6, <1>8, <2>1, <2>2, <2>3 DEF Delivers
<1>12. ~frame.first
    BY <1>1, <1>3, Zenon
<1>. QED
    BY <1>3, <1>10, <1>11, <1>12 DEF c

-----------------------------------------------------------------------------
(* A message of which every frame is decoded is handed over.               *)

(* What station s has sent so far is in the buffer at o.                   *)
Follows(s, o) ==
    /\ o \in DOMAIN buffers /\ Here(s, o)
    /\ Tracks(buffers[o], station[s].message, station[s].sent, 2 - station[s].wait)
    /\ ~band[o].idle /\ band[o].age =< 2 - station[s].wait

Tracked ==
    \A s \in Station : Sending(s) /\ station[s].whole /\ station[s].sent >= 1 =>
        \E o \in Offset : Follows(s, o)

(* A message waits for processActivity, which comes before the next frame. *)
Pending(m, o) ==
    /\ o \in DOMAIN buffers /\ Here(m.from, o) /\ Delivers(buffers[o], m)
    /\ band[o].idle /\ station[m.from].wait > 0 /\ ~processed
    /\ \A t \in Station : NearStations(m.from, t) => ~Sending(t)

Whole(m) == CommandOf([message |-> m, from |-> m.from], Text(m))

Commanded(m) == \E i \in DOMAIN commands : commands[i] = Whole(m)

Arrives ==
    \A r \in received :
        \/ Arrived(r.message) \/ Commanded(r.message)
        \/ \E o \in Offset : Pending(r.message, o)

Steady == Tracked /\ Arrives

LEMMA FollowsAgain ==
    ASSUME minute' = minute, NEW s \in Station, NEW o \in DOMAIN buffers', Here(s, o),
           Tracks(buffers'[o], station'[s].message, station'[s].sent, 2 - station'[s].wait),
           ~band'[o].idle, band'[o].age =< 2 - station'[s].wait
    PROVE  Follows(s, o)'
<1>1. MaxAge' = MaxAge
    BY TypesStay
<1>. QED
    BY <1>1 DEF Follows, Tracks, Signed, Called, Here, At

LEMMA PendingAgain ==
    ASSUME minute' = minute, NEW m, NEW o \in DOMAIN buffers', Here(m.from, o),
           Delivers(buffers'[o], m), band'[o].idle, station'[m.from].wait > 0, ~processed',
           \A t \in Station : NearStations(m.from, t) => ~Sending(t)'
    PROVE  Pending(m, o)'
<1>1. MaxAge' = MaxAge
    BY TypesStay
<1>. QED
    BY <1>1 DEF Pending, Delivers, Signed, Called, Here, At, NearStations

(* What is far from a station that sends stays as it is.                   *)
LEMMA FarStays ==
    ASSUME Places, Sound, Spread, NEW s \in Station, NEW o \in Offsets[s], Takes(s, o),
           NEW t \in Station, ~NearStations(t, s), NEW x \in DOMAIN buffers, Here(t, x)
    PROVE  /\ x \in DOMAIN buffers' /\ buffers'[x] = buffers[x] /\ band'[x] = band[x]
           /\ station'[t] = station[t]
<1>1. /\ o \in Offset /\ o \in Nat /\ Sending(s) /\ ProcessDecodeEvent(NextFrame(s), o)
      /\ Sent(s, o) /\ ~IsDuplicate(NextFrame(s))
    BY TakesIs
<1>2. NextFrame(s) \in Frame
    BY <1>1, NextFrameIs
<1>3. Moved(buffers, buffers', o) /\ Moved(band, band', o)
    BY <1>1, <1>2, DecodeView DEF Spread
<1>4. x \in Offset /\ x \in DOMAIN band
    BY SoundIs DEF Spread, IsMap
<1>5. ~At(x, o) /\ t # s
    BY <1>4, NearIs
<1>. QED
    BY <1>1, <1>3, <1>4, <1>5, SentIs DEF Moved

(* The buffer of a message that was decoded so far is found by its next    *)
(* frame.                                                                  *)
LEMMA SenderAwaits ==
    ASSUME Places, Sound, Spread, Tracked, NEW s \in Station, Sending(s), station[s].whole,
           station[s].wait = 0, NEW o \in Offsets[s]
    PROVE  LET b == Before(NextFrame(s), o)
           IN  /\ b \in Buffer /\ Awaits(b, station[s].message, station[s].sent)
               /\ station[s].sent # 0 =>
                    ~NextFrame(s).first /\ \E x \in DOMAIN buffers : At(x, o)
<1> DEFINE frame == NextFrame(s)
           m == station[s].message
           k == station[s].sent
           b == Before(frame, o)
<1>1. frame.first = (k = 0)
    BY NextFrameIs
<1>2. k \in Nat /\ o \in Offset
    BY StationIs, Constants
<1>3. /\ b \in Buffer /\ (frame.first => b = NoBuffer)
      /\ ~frame.first => \A x \in DOMAIN buffers : At(x, o) => b = buffers[x]
    BY <1>2, BeforeIs DEF Spread
<1>4. k # 0 => ~frame.first
    BY <1>1, Zenon
<1>5. k = 0 => frame.first
    BY <1>1, Zenon
<1>6. ASSUME k # 0
      PROVE  \E x \in DOMAIN buffers : At(x, o) /\ Tracks(buffers[x], m, k, 2)
    <2>1. k >= 1
        BY <1>2, <1>6
    <2>2. PICK x \in Offset : Follows(s, x)
        BY <2>1 DEF Tracked
    <2>3. x \in DOMAIN buffers /\ Here(s, x) /\ Tracks(buffers[x], m, k, 2 - station[s].wait)
        BY <2>2 DEF Follows
    <2>4. At(x, o)
        BY <2>2, <2>3, NearIs
    <2>5. 2 - station[s].wait = 2
        OBVIOUS
    <2>. QED
        BY <2>3, <2>4, <2>5
<1> HIDE DEF frame, m, k, b
<1>7. Awaits(b, m, k)
    BY <1>3, <1>4, <1>5, <1>6 DEF Awaits
<1>. QED
    BY <1>3, <1>4, <1>6, <1>7 DEF b, frame, m, k

LEMMA SenderReceives ==
    ASSUME Places, Sound, Spread, Tracked, NEW s \in Station, NEW o \in Offsets[s],
           Takes(s, o), station[s].whole
    PROVE  LET m == station[s].message
               k == station[s].sent
           IN  /\ k + 1 < LastAt(m) =>
                    /\ o \in DOMAIN buffers' /\ Tracks(buffers'[o], m, k + 1, 0)
                    /\ ~band'[o].idle
               /\ k + 1 = LastAt(m) =>
                    /\ band'[o].idle
                    /\ \/ commands' = Append(commands, Whole(m)) /\ o \notin DOMAIN buffers'
                       \/ o \in DOMAIN buffers' /\ Delivers(buffers'[o], m)
               /\ band'[o].age = 0
<1> DEFINE frame == NextFrame(s)
           m == station[s].message
           k == station[s].sent
           b == Before(frame, o)
<1>1. /\ o \in Offset /\ Sending(s) /\ station[s].wait = 0 /\ ProcessDecodeEvent(frame, o)
    BY TakesIs
<1>2. frame \in Frame /\ ~IsDuplicate(frame) /\ frame.kind = KindOf(m, k + 1)
      /\ frame.last = (k + 1 = LastAt(m)) /\ frame = Frames(m)[k + 1]
    BY <1>1, NextFrameIs, TakesIs DEF NextFrame
<1>3. m \in Message /\ k \in Nat /\ k < LastAt(m) /\ TypeOK
    BY <1>1, StationIs DEF Sound
<1>14. k = 0 => frame.first
    <2>1. frame.first = (k = 0)
        BY <1>1, NextFrameIs
    <2>. QED
        BY <2>1, Zenon
<1>4. b \in Buffer /\ Awaits(b, m, k)
      /\ (k # 0 => ~frame.first /\ \E x \in DOMAIN buffers : At(x, o))
    BY <1>1, SenderAwaits
<1>5. /\ frame.kind \in {"compound", "directed", "data"}
      /\ frame.kind = "compound" => k = 0 /\ HeaderAt(m) = 2
      /\ LastAt(m) = HeaderAt(m) + m.parts /\ m.parts \in Nat
    BY <1>2, <1>3, KindIs, MessageIs
<1> HIDE DEF frame, b
<1>6. /\ band'[o] = [idle |-> frame.last, age |-> 0]
      /\ frame.kind = "compound" => o \in DOMAIN buffers' /\ buffers'[o] = WithCall(b, frame)
      /\ frame.kind = "directed" /\ Waits(HeaderOf(frame)) =>
           o \in DOMAIN buffers' /\ buffers'[o] = WithHeader(b, frame)
      /\ frame.kind = "directed" /\ ~Waits(HeaderOf(frame)) =>
           /\ commands' = Append(commands, CommandOf(HeaderOf(frame), << >>))
           /\ frame.first => o \notin DOMAIN buffers'
      /\ frame.kind = "data" =>
           /\ o \in DOMAIN buffers' <=> ~frame.first /\ \E x \in DOMAIN buffers : At(x, o)
           /\ o \in DOMAIN buffers' => buffers'[o] = WithText(b, frame)
    BY <1>1, <1>2, DecodeView DEF Spread, b
<1> HIDE DEF m, k
<1>10. /\ k + 1 < LastAt(m) =>
            o \in DOMAIN buffers' /\ Tracks(buffers'[o], m, k + 1, 0)
       /\ k + 1 = LastAt(m) =>
            \/ commands' = Append(commands, Whole(m)) /\ o \notin DOMAIN buffers'
            \/ o \in DOMAIN buffers' /\ Delivers(buffers'[o], m)
    <2>1. CASE frame.kind = "compound"
        <3>1. b = NoBuffer /\ k + 1 = 1 /\ k + 1 < LastAt(m)
            BY <1>3, <1>4, <1>5, <2>1 DEF Awaits
        <3>2. Tracks(WithCall(NoBuffer, frame), m, 1, 0)
            BY <1>2, <1>3, <2>1, <3>1, CallComes
        <3>. QED
            BY <1>3, <1>6, <2>1, <3>1, <3>2
    <2>2. CASE frame.kind = "directed"
        <3>1. /\ k + 1 < LastAt(m) =>
                    Waits(HeaderOf(frame)) /\ Tracks(WithHeader(b, frame), m, k + 1, 0)
              /\ k + 1 = LastAt(m) =>
                    IF k = 0
                    THEN /\ ~Waits(HeaderOf(frame))
                         /\ CommandOf(HeaderOf(frame), << >>) = Whole(m)
                    ELSE Waits(HeaderOf(frame)) /\ Delivers(WithHeader(b, frame), m)
            BY <1>2, <1>3, <1>4, <2>2, HeaderComes DEF Whole
        <3>. QED
            BY <1>6, <1>14, <2>2, <3>1
    <2>3. CASE frame.kind = "data"
        <3>1. /\ k # 0 /\ ~frame.first
              /\ k + 1 < LastAt(m) => Tracks(WithText(b, frame), m, k + 1, 0)
              /\ k + 1 = LastAt(m) => Delivers(WithText(b, frame), m)
            BY <1>2, <1>3, <1>4, <2>3, TextComes
        <3>. QED
            BY <1>4, <1>6, <2>3, <3>1
    <2>. QED
        BY <1>5, <2>1, <2>2, <2>3
<1>11. k + 1 < LastAt(m) => ~(k + 1 = LastAt(m))
    BY <1>3, <1>5
<1>12. band'[o].idle = (k + 1 = LastAt(m)) /\ band'[o].age = 0
    BY <1>2, <1>6
<1>13. (k + 1 < LastAt(m) => ~band'[o].idle) /\ (k + 1 = LastAt(m) => band'[o].idle)
    BY <1>11, <1>12, Zenon
<1>. QED
    BY <1>10, <1>12, <1>13 DEF m, k

LEMMA PendingStays ==
    ASSUME Places, Sound, Spread, NEW s \in Station, NEW o \in Offsets[s], Takes(s, o),
           NEW m \in Message, NEW x \in Offset, Pending(m, x)
    PROVE  Pending(m, x)'
<1> DEFINE t == m.from
<1>1. /\ o \in Nat /\ Sending(s) /\ Sent(s, o) /\ processed' = FALSE /\ minute' = minute
    BY TakesIs
<1>2. t \in Station
    BY MessageIs
<1>3. /\ x \in DOMAIN buffers /\ Here(t, x) /\ Delivers(buffers[x], m)
      /\ band[x].idle /\ station[t].wait > 0
      /\ \A u \in Station : NearStations(t, u) => ~Sending(u)
    BY DEF Pending
<1> HIDE DEF t
<1>4. ~NearStations(t, s)
    BY <1>1, <1>2, <1>3
<1>5. /\ x \in DOMAIN buffers' /\ buffers'[x] = buffers[x] /\ band'[x] = band[x]
      /\ station'[t] = station[t]
    BY <1>2, <1>3, <1>4, FarStays
<1>6. \A u \in Station : u # s => station'[u] = station[u]
    BY <1>1, SentIs
<1>7. \A u \in Station : NearStations(t, u) => ~Sending(u)'
    BY <1>3, <1>4, <1>6 DEF Sending
<1>. QED
    BY <1>1, <1>3, <1>5, <1>7, PendingAgain DEF t

LEMMA SenderPending ==
    ASSUME Places, Sound, Spread, Tracked, NEW s \in Station, NEW o \in Offsets[s],
           Takes(s, o), station[s].whole, NEW m \in Message, m = station[s].message,
           station[s].sent + 1 = LastAt(m), o \in DOMAIN buffers', Delivers(buffers'[o], m)
    PROVE  Pending(m, o)'
<1>1. /\ o \in Nat /\ o \in Offset /\ Sending(s) /\ Sent(s, o) /\ processed' = FALSE
      /\ minute' = minute
    BY TakesIs
<1>2. /\ \A t \in Station : t # s => station'[t] = station[t]
      /\ station'[s].wait = 2 /\ station'[s].message = None
    BY <1>1, SentIs
<1>3. m.from = s /\ Here(s, o) /\ Quiet
    BY <1>1, StationIs, NearIs DEF Spread
<1>4. ASSUME NEW u \in Station, NearStations(s, u) PROVE ~Sending(u)'
    <2>1. CASE u = s
        BY <1>2, <2>1 DEF Sending
    <2>2. CASE u # s
        BY <1>1, <1>2, <1>3, <1>4, <2>2 DEF Quiet, Sending
    <2>. QED
        BY <2>1, <2>2
<1>5. band'[o].idle
    BY SenderReceives
<1>. QED
    BY <1>1, <1>2, <1>3, <1>4, <1>5, PendingAgain

LEMMA DecodedSteady ==
    ASSUME Places, Sound, Spread, Steady, NEW s \in Station, NEW o \in Offsets[s],
           Takes(s, o)
    PROVE  Steady'
<1>0. PICK m \in Message : m = station[s].message
    BY TakesIs, StationIs
<1> DEFINE k == station[s].sent
<1>1. /\ o \in Offset /\ o \in Nat /\ o # 0 /\ Sending(s) /\ station[s].wait = 0
      /\ ProcessDecodeEvent(NextFrame(s), o) /\ Sent(s, o)
      /\ processed' = FALSE /\ UNCHANGED <<minute, handled>>
    BY TakesIs
<1>2. /\ \A t \in Station : t # s => station'[t] = station[t]
      /\ station'[s].wait = 2
      /\ IF k + 1 = LastAt(m)
         THEN /\ station'[s].message = None
              /\ received' = IF station[s].whole /\ o # 0
                             THEN received \cup
                                    {[message |-> m, drift |-> DriftTo(station[s], o)]}
                             ELSE received
         ELSE /\ station'[s].message = m /\ station'[s].sent = k + 1
              /\ station'[s].whole = (station[s].whole /\ o # 0)
              /\ received' = received
    BY <1>0, <1>1, SentIs
<1>3. k \in Nat /\ k < LastAt(m) /\ LastAt(m) \in Nat /\ m.from = s
    BY <1>0, <1>1, StationIs, MessageIs
<1>4. Tracked /\ Arrives /\ Quiet
    BY DEF Steady, Spread
<1>5. station[s].whole =>
        /\ k + 1 < LastAt(m) =>
             /\ o \in DOMAIN buffers' /\ Tracks(buffers'[o], m, k + 1, 0)
             /\ ~band'[o].idle
        /\ k + 1 = LastAt(m) =>
             /\ band'[o].idle
             /\ \/ commands' = Append(commands, Whole(m)) /\ o \notin DOMAIN buffers'
                \/ o \in DOMAIN buffers' /\ Delivers(buffers'[o], m)
        /\ band'[o].age = 0
    BY <1>0, <1>4, SenderReceives
<1>6. Here(s, o)
    BY NearIs
<1>7. \A t \in Station : Sending(t)' => Sending(t)
    BY <1>1, <1>2 DEF Sending
<1> HIDE DEF k
<1>8. ASSUME NEW t \in Station, Sending(t)', station'[t].whole, station'[t].sent >= 1
      PROVE  \E x \in Offset : Follows(t, x)'
    <2>1. CASE t = s
        <3>1. k + 1 # LastAt(m)
            BY <1>2, <1>8, <2>1 DEF Sending
        <3>5. station[s].whole
            BY <1>2, <1>8, <2>1, <3>1, Zenon
        <3>2. k + 1 < LastAt(m) /\ station[s].whole
            BY <1>3, <3>1, <3>5
        <3>3. 2 - station'[s].wait = 0
            BY <1>2
        <3>. QED
            BY <1>1, <1>2, <1>5, <1>6, <2>1, <3>1, <3>2, <3>3, FollowsAgain
    <2>2. CASE t # s
        <3>1. Sending(t) /\ station'[t] = station[t]
            BY <1>2, <1>7, <1>8, <2>2
        <3>2. PICK x \in Offset : Follows(t, x)
            BY <1>4, <1>8, <3>1 DEF Tracked
        <3>3. ~NearStations(t, s)
            BY <1>1, <1>4, <2>2, <3>1 DEF Quiet
        <3>4. /\ x \in DOMAIN buffers /\ Here(t, x) /\ ~band[x].idle
              /\ Tracks(buffers[x], station[t].message, station[t].sent, 2 - station[t].wait)
              /\ band[x].age =< 2 - station[t].wait
            BY <3>2 DEF Follows
        <3>5. x \in DOMAIN buffers' /\ buffers'[x] = buffers[x] /\ band'[x] = band[x]
            BY <3>3, <3>4, FarStays
        <3>. QED
            BY <1>1, <3>1, <3>4, <3>5, FollowsAgain
    <2>. QED
        BY <2>1, <2>2
<1>9. ASSUME NEW r \in received', r \in received
      PROVE  \/ Arrived(r.message)' \/ Commanded(r.message)'
             \/ \E x \in Offset : Pending(r.message, x)'
    <2>1. CASE Arrived(r.message)
        BY <1>1, <2>1 DEF Arrived
    <2>2. CASE Commanded(r.message)
        <3>1. PICK i \in DOMAIN commands : commands[i] = Whole(r.message)
            BY <2>2 DEF Commanded
        <3>2. i \in DOMAIN commands' /\ commands'[i] = commands[i]
            <4>1. NextFrame(s) \in Frame
                BY <1>1, NextFrameIs
            <4>2. \/ commands' = commands
                  \/ \E c \in Command : commands' = Append(commands, c)
                BY <1>1, <4>1, ReceiveIs
            <4>3. commands \in Seq(Command)
                BY SoundIs
            <4>4. ASSUME NEW c \in Command, commands' = Append(commands, c)
                  PROVE  i \in DOMAIN commands' /\ commands'[i] = commands[i]
                <5>1. /\ DOMAIN commands' = 1 .. Len(commands) + 1 /\ Len(commands) \in Nat
                      /\ DOMAIN commands = 1 .. Len(commands)
                      /\ \A j \in DOMAIN commands : commands'[j] = commands[j]
                    BY <4>3, <4>4, AppendIs
                <5>. QED
                    BY <5>1
            <4>. QED
                BY <4>2, <4>4
        <3>. QED
            BY <3>1, <3>2 DEF Commanded, Whole, CommandOf, Text
    <2>3. ASSUME NEW x \in Offset, Pending(r.message, x) PROVE Pending(r.message, x)'
        <3>1. r.message \in Message
            BY <1>9, SoundIs DEF Receipt
        <3>. QED
            BY <2>3, <3>1, PendingStays
    <2>. QED
        BY <1>4, <1>9, <2>1, <2>2, <2>3 DEF Arrives
<1>10. ASSUME NEW r \in received', r \notin received
       PROVE  Commanded(r.message)' \/ Pending(r.message, o)'
    <2>1. r.message = m /\ k + 1 = LastAt(m) /\ station[s].whole /\ station'[s].message = None
        BY <1>2, <1>10
    <2>2. CASE commands' = Append(commands, Whole(m))
        <3>1. commands \in Seq(Command) /\ Whole(m) \in Command
            <4>1. Text(m) \in Seq(Part) /\ m.from \in Station
                BY TextIs, MessageIs
            <4>. QED
                BY <4>1, SoundIs DEF Whole, CommandOf, Command
        <3>2. Len(commands) + 1 \in DOMAIN commands' /\ commands'[Len(commands) + 1] = Whole(m)
            <4>1. DOMAIN commands' = 1 .. Len(commands) + 1 /\ Len(commands) \in Nat
                  /\ commands'[Len(commands) + 1] = Whole(m)
                BY <2>2, <3>1, AppendIs
            <4>. QED
                BY <4>1
        <3>. QED
            BY <2>1, <3>2 DEF Commanded, Whole, CommandOf, Text
    <2>3. CASE o \in DOMAIN buffers' /\ Delivers(buffers'[o], m)
        BY <1>0, <1>4, <2>1, <2>3, SenderPending DEF k
    <2>. QED
        BY <1>5, <2>1, <2>2, <2>3
<1>11. Tracked'
    BY <1>8 DEF Tracked
<1>12. Arrives'
    BY <1>1, <1>9, <1>10 DEF Arrives
<1>. QED
    BY <1>11, <1>12 DEF Steady

(* A step that leaves the buffers and queues alone.                        *)
LEMMA StaySteady ==
    ASSUME Steady, minute' = minute,
           UNCHANGED <<band, buffers, commands, handled, received>>,
           processed' => processed,
           \A t \in Station :
                Sending(t)' /\ station'[t].whole /\ station'[t].sent >= 1 =>
                    Sending(t) /\ station'[t] = station[t],
           \A t \in Station : station[t].wait > 0
                /\ (\A u \in Station : NearStations(t, u) => ~Sending(u)) =>
                /\ station'[t].wait > 0
                /\ \A u \in Station : NearStations(t, u) => ~Sending(u)',
           Sound
    PROVE  Steady'
<1>1. Tracked /\ Arrives
    BY DEF Steady
<1>2. ASSUME NEW t \in Station, Sending(t)', station'[t].whole, station'[t].sent >= 1
      PROVE  \E x \in Offset : Follows(t, x)'
    <2>1. Sending(t) /\ station'[t] = station[t]
        BY <1>2
    <2>2. PICK x \in Offset : Follows(t, x)
        BY <1>1, <1>2, <2>1 DEF Tracked
    <2>3. /\ x \in DOMAIN buffers /\ Here(t, x) /\ ~band[x].idle
          /\ Tracks(buffers[x], station[t].message, station[t].sent, 2 - station[t].wait)
          /\ band[x].age =< 2 - station[t].wait
        BY <2>2 DEF Follows
    <2>. QED
        BY <2>1, <2>3, FollowsAgain
<1>3. ASSUME NEW r \in received
      PROVE  \/ Arrived(r.message)' \/ Commanded(r.message)'
             \/ \E x \in Offset : Pending(r.message, x)'
    <2>1. CASE Arrived(r.message)
        BY <2>1 DEF Arrived
    <2>2. CASE Commanded(r.message)
        BY <2>2 DEF Commanded, Whole, CommandOf, Text
    <2>3. ASSUME NEW x \in Offset, Pending(r.message, x) PROVE Pending(r.message, x)'
        <3> DEFINE t == r.message.from
        <3>0. t \in Station
            BY SoundIs, MessageIs DEF Receipt
        <3>1. /\ x \in DOMAIN buffers /\ Here(t, x) /\ Delivers(buffers[x], r.message)
              /\ band[x].idle /\ station[t].wait > 0 /\ ~processed
              /\ \A u \in Station : NearStations(t, u) => ~Sending(u)
            BY <2>3 DEF Pending
        <3> HIDE DEF t
        <3>2. /\ station'[t].wait > 0
              /\ \A u \in Station : NearStations(t, u) => ~Sending(u)'
            BY <3>0, <3>1
        <3>. QED
            BY <3>1, <3>2, PendingAgain DEF t
    <2>. QED
        BY <1>1, <2>1, <2>2, <2>3 DEF Arrives
<1>4. Tracked'
    BY <1>2 DEF Tracked
<1>5. Arrives'
    BY <1>3 DEF Arrives
<1>. QED
    BY <1>4, <1>5 DEF Steady

(* What has the whole message becomes a command.                           *)
LEMMA DeliversTaken ==
    ASSUME Places, Sound, Ends, Spread, NEW m \in Message, NEW x \in DOMAIN buffers,
           Delivers(buffers[x], m), band[x].idle
    PROVE  /\ \E i \in DOMAIN Queue : Queue[i] = Whole(m)
           /\ x \in Ready \/ x \in Closed
<1> DEFINE b == buffers[x]
           r == Resolved(b)
<1>1. x \notin IdleOffsets
    BY DEF IdleOffsets
<1>2. DOMAIN Filled = DOMAIN buffers /\ Filled[x] = b
    BY <1>1, FilledView DEF Spread
<1>3. b \in Ending /\ b \in Buffer /\ TypeOK
    BY DEF Ends, IsMap, Ending, Sound
<1>4. \A i \in DOMAIN b.compound : ~b.compound[i].last
    BY <1>3 DEF Ending
<1>5. /\ b.cmd # None /\ b.cmd.message = m /\ b.msgs = Text(m)
      /\ Signed(b, m, MaxAge)
      /\ IF m.parts = 0 THEN b.cmd.last /\ b.cmd.from = Unresolved
         ELSE ~b.cmd.last /\ b.last /\ b.age = 0
    BY DEF Delivers
<1>6. /\ r \in Buffer /\ r.msgs = b.msgs /\ r.last = b.last /\ r.age = b.age
      /\ r.cmd # None /\ r.cmd.message = m
      /\ IF b.compound = << >> \/ b.cmd = None \/ b.cmd.from # Unresolved
         THEN r = b
         ELSE /\ r.cmd.from = b.compound[1].call
              /\ r.cmd.last = (b.cmd.last \/ b.compound[1].last)
    BY <1>3, <1>5, ResolvedIs
<1>7. CompoundComplete(b) <=> b.compound # << >> /\ b.cmd # None /\ r.cmd.last
    BY DEF CompoundComplete
<1>8. x \in Ready <=> CompoundComplete(b)
    BY <1>2 DEF Ready
<1>9. m.from \in Station /\ Unresolved \notin Station
    BY MessageIs, Constants
<1> HIDE DEF b, r
<1>10. /\ r.cmd.from = m.from
       /\ m.parts = 0 => CompoundComplete(b)
       /\ m.parts # 0 => ~CompoundComplete(b)
    <2>1. CASE b.cmd.from = m.from /\ b.compound = << >>
        BY <1>5, <1>6, <1>7, <1>9, <2>1
    <2>2. CASE b.cmd.from = Unresolved /\ Called(b, m, MaxAge)
        <3>1. /\ b.compound # << >> /\ 1 \in DOMAIN b.compound
              /\ b.compound[1].call = m.from
            BY <1>3, <2>2, CalledIs DEF Called
        <3>2. ~b.compound[1].last
            BY <1>4, <3>1
        <3>. QED
            BY <1>5, <1>6, <1>7, <2>2, <3>1, <3>2
    <2>. QED
        BY <1>5, <2>1, <2>2 DEF Signed
<1>11. CASE m.parts = 0
    <2>1. Text(m) = << >>
        BY <1>11, NoText
    <2>2. x \in Ready
        BY <1>8, <1>10, <1>11
    <2>3. EarlyCommand(x) = Whole(m)
        BY <1>2, <1>6, <1>10, <2>1 DEF EarlyCommand, Whole, CommandOf, r
    <2>. QED
        BY <2>2, <2>3, QueueIs
<1>12. CASE m.parts # 0
    <2>1. x \in DOMAIN Settled /\ Settled[x] = r
        BY <1>2, <1>8, <1>10, <1>12, ProcessedMaps DEF r
    <2>2. r.msgs # << >>
        <3>1. m.parts \in Nat /\ Text(m) \in Seq(Part) /\ Len(Text(m)) = m.parts
            BY TextIs, MessageIs
        <3>2. Len(Text(m)) # 0
            BY <1>12, <3>1
        <3>. QED
            BY <1>5, <1>6, <3>1, <3>2, EmptySeq
    <2>3. Youngest(r) \in Nat /\ Youngest(r) =< 0 /\ DropAfter >= 6 /\ DropAfter \in Nat
        BY <1>3, <1>5, <1>6, <1>12, <2>2, YoungestIs, AgesAre
    <2>4. ~Drops(r) /\ Closes(r)
        BY <1>5, <1>6, <1>12, <2>2, <2>3 DEF Drops, Closes
    <2>5. x \in Closed
        BY <2>1, <2>4 DEF Closed, Dropped
    <2>6. Valid(r)
        BY <1>5, <1>6 DEF Valid
    <2>7. IsLate(x)
        BY <1>6, <2>1, <2>5, <2>6 DEF IsLate
    <2>8. LateCommand(x) = Whole(m)
        BY <1>5, <1>6, <1>10, <2>1 DEF LateCommand, Whole, CommandOf
    <2>. QED
        BY <2>5, <2>7, <2>8, QueueIs
<1>. QED
    BY <1>11, <1>12

LEMMA ProcessSteady ==
    ASSUME Places, Sound, Ends, Spread, Steady, ProcessActivity
    PROVE  Steady'
<1>1. /\ band' = [o \in DOMAIN band |->
                    IF o \in IdleOffsets THEN [idle |-> TRUE, age |-> 0] ELSE band[o]]
      /\ buffers' = [o \in DOMAIN Settled \ (Dropped \cup Closed) |-> Settled[o]]
      /\ UNCHANGED <<minute, station, received>>
    BY ProcessActivityIs
<1>2. Tracked /\ Arrives /\ TypeOK
    BY DEF Steady, Sound
<1>3. ASSUME NEW s \in Station, Sending(s), station[s].whole, station[s].sent >= 1
      PROVE  \E x \in Offset : Follows(s, x)'
    <2> DEFINE m == station[s].message
               k == station[s].sent
               age == 2 - station[s].wait
    <2>1. PICK x \in Offset : Follows(s, x)
        BY <1>2, <1>3 DEF Tracked
    <2>2. /\ x \in DOMAIN buffers /\ Here(s, x) /\ Tracks(buffers[x], m, k, age)
          /\ ~band[x].idle /\ band[x].age =< age
        BY <2>1 DEF Follows
    <2>3. m \in Message /\ k \in Nat /\ k >= 1 /\ age \in 0 .. 2
        BY <1>3, StationIs
    <2>4. x \in DOMAIN band /\ buffers[x] \in Ending
        BY <2>2 DEF Spread, Ends, IsMap
    <2> HIDE DEF m, k, age
    <2>5. x \notin IdleOffsets
        <3>1. band[x].age \in Nat
            BY <1>2, <2>4, SoundIs, AgesAre DEF IsMap, Activity
        <3>2. ~(band[x].age >= 3)
            BY <2>2, <2>3, <3>1
        <3>. QED
            BY <3>2 DEF IdleOffsets, IdleAfter
    <2>6. DOMAIN Filled = DOMAIN buffers /\ Filled[x] = buffers[x]
        BY <2>2, <2>5, FilledView DEF Spread
    <2> DEFINE b == buffers[x]
    <2>7. b = buffers[x]
        OBVIOUS
    <2> HIDE DEF b
    <2>8. /\ ~CompoundComplete(b) /\ Tracks(Resolved(b), m, k, age)
          /\ ~Drops(Resolved(b)) /\ ~Closes(Resolved(b))
        BY <1>2, <2>2, <2>3, <2>4, <2>7, TracksSettled
    <2>9. x \in DOMAIN Settled /\ Settled[x] = Resolved(b)
        BY <2>2, <2>6, <2>7, <2>8, ProcessedMaps DEF Ready
    <2>10. x \notin Dropped /\ x \notin Closed
        BY <2>8, <2>9 DEF Dropped, Closed
    <2>11. x \in DOMAIN buffers' /\ buffers'[x] = Resolved(b) /\ band'[x] = band[x]
        BY <1>1, <2>4, <2>5, <2>9, <2>10
    <2>12. station' = station
        BY <1>1
    <2>. QED
        BY <1>1, <2>2, <2>8, <2>11, <2>12, FollowsAgain DEF m, k, age
<1>4. Tracked'
    BY <1>1, <1>3 DEF Tracked, Sending
<1>5. ASSUME NEW r \in received PROVE Arrived(r.message)'
    <2>0. r.message \in Message /\ r.message.from \in Station /\ Unresolved \notin Station
        BY SoundIs, MessageIs, Constants DEF Receipt
    <2>1. CASE Arrived(r.message)
        <3>1. PICK j \in DOMAIN handled : handled[j] = Whole(r.message)
            BY <2>1 DEF Arrived, Whole
        <3>2. \E i \in DOMAIN handled' : handled'[i] = Whole(r.message)
            BY <3>1, HandledIs
        <3>. QED
            BY <3>2 DEF Arrived, Whole, CommandOf, Text
    <2>2. CASE \E j \in DOMAIN Queue : Queue[j] = Whole(r.message)
        <3>1. Whole(r.message).from # Unresolved
            BY <2>0 DEF Whole, CommandOf
        <3>2. \E i \in DOMAIN handled' : handled'[i] = Whole(r.message)
            BY <2>2, <3>1, HandledIs
        <3>. QED
            BY <3>2 DEF Arrived, Whole, CommandOf, Text
    <2>3. CASE Commanded(r.message)
        BY <2>2, <2>3, QueueIs DEF Commanded
    <2>4. CASE \E x \in Offset : Pending(r.message, x)
        <3>1. PICK x \in Offset : Pending(r.message, x)
            BY <2>4
        <3>2. x \in DOMAIN buffers /\ Delivers(buffers[x], r.message) /\ band[x].idle
            BY <3>1 DEF Pending
        <3>3. \E j \in DOMAIN Queue : Queue[j] = Whole(r.message)
            BY <2>0, <3>2, DeliversTaken
        <3>. QED
            BY <2>2, <3>3
    <2>. QED
        BY <1>2, <2>1, <2>3, <2>4 DEF Arrives
<1>6. Arrives'
    BY <1>1, <1>5 DEF Arrives
<1>. QED
    BY <1>4, <1>6 DEF Steady

LEMMA TickSteady ==
    ASSUME Places, Sound, Spread, Steady, Tick
    PROVE  Steady'
<1>1. /\ \A s \in Station :
            /\ station'[s].message = station[s].message
            /\ station'[s].sent = station[s].sent /\ station'[s].whole = station[s].whole
            /\ station'[s].wait = IF station[s].wait = 0 THEN 0 ELSE station[s].wait - 1
            /\ Sending(s) => station[s].wait > 0
      /\ DOMAIN buffers' = DOMAIN buffers
      /\ \A o \in DOMAIN buffers : buffers'[o] = AgedBuffer(buffers[o])
      /\ \A o \in DOMAIN band :
            /\ band'[o].idle = band[o].idle
            /\ ~band[o].idle => band'[o].age = Older(band[o].age)
      /\ processed /\ UNCHANGED <<minute, commands, handled, received>>
    BY TickIs
<1>2. Tracked /\ Arrives /\ TypeOK
    BY DEF Steady, Sound
<1>3. ASSUME NEW s \in Station, Sending(s), station[s].whole, station[s].sent >= 1
      PROVE  \E x \in Offset : Follows(s, x)'
    <2> DEFINE m == station[s].message
               k == station[s].sent
               age == 2 - station[s].wait
    <2>1. PICK x \in Offset : Follows(s, x)
        BY <1>2, <1>3 DEF Tracked
    <2>2. /\ x \in DOMAIN buffers /\ Here(s, x) /\ Tracks(buffers[x], m, k, age)
          /\ ~band[x].idle /\ band[x].age =< age
        BY <2>1 DEF Follows
    <2>3. m \in Message /\ k \in Nat /\ k >= 1 /\ age \in 0 .. 2
          /\ 2 - station'[s].wait = age + 1
        BY <1>1, <1>3, StationIs
    <2>4. x \in DOMAIN band /\ buffers[x] \in Buffer
        BY <2>2, SoundIs DEF Spread, IsMap
    <2>9. m = station'[s].message /\ k = station'[s].sent
        BY <1>1
    <2> HIDE DEF m, k, age
    <2>5. band'[x].age =< age + 1 /\ ~band'[x].idle
        <3>1. band[x].age \in Age
            BY <2>4, SoundIs DEF IsMap, Activity
        <3>2. band[x].age \in Nat /\ Older(band[x].age) =< band[x].age + 1
              /\ Older(band[x].age) \in Nat
            BY <1>2, <3>1, AgesAre
        <3>3. band'[x].age = Older(band[x].age) /\ ~band'[x].idle
            BY <1>1, <2>2, <2>4
        <3>. QED
            BY <2>2, <2>3, <3>2, <3>3
    <2> DEFINE b == buffers[x]
    <2>7. b = buffers[x]
        OBVIOUS
    <2> HIDE DEF b
    <2>8. Tracks(AgedBuffer(b), m, k, age + 1)
        BY <1>2, <2>2, <2>3, <2>4, <2>7, TracksAged
    <2>10. Tracks(buffers'[x], station'[s].message, station'[s].sent, 2 - station'[s].wait)
        BY <1>1, <2>2, <2>3, <2>7, <2>8, <2>9
    <2>. QED
        BY <1>1, <2>2, <2>3, <2>5, <2>10, FollowsAgain
<1>4. Tracked'
    BY <1>1, <1>3 DEF Tracked, Sending
<1>5. ASSUME NEW r \in received PROVE Arrived(r.message)' \/ Commanded(r.message)'
    <2>1. \A x \in Offset : ~Pending(r.message, x)
        BY <1>1 DEF Pending
    <2>2. Arrived(r.message) \/ Commanded(r.message)
        BY <1>2, <2>1 DEF Arrives
    <2>. QED
        BY <1>1, <2>2 DEF Arrived, Commanded, Whole, CommandOf, Text
<1>6. Arrives'
    BY <1>1, <1>5 DEF Arrives
<1>. QED
    BY <1>4, <1>6 DEF Steady

LEMMA StepSteady ==
    ASSUME Places, Sound, Ends, Spread, Steady, [Next]_vars
    PROVE  Steady'
<1>1. ASSUME NEW s \in Station, NEW checked \in BOOLEAN, NEW parts \in 0 .. MaxText,
             Begin(s, checked, parts)
      PROVE  Steady'
    <2>1. /\ \A t \in Station : t # s => station'[t] = station[t]
          /\ station'[s].sent = station[s].sent /\ station'[s].wait = station[s].wait
          /\ ~Sending(s) /\ station[s].wait = 0
          /\ \A t \in Station \ {s} : NearStations(s, t) => station[t].wait = 0
          /\ UNCHANGED <<minute, band, buffers, commands, processed, handled, received>>
        BY <1>1, BeginIs
    <2>2. station[s].sent = 0
        BY <2>1, StationIs
    <2>3. ASSUME NEW t \in Station, Sending(t)', station'[t].sent >= 1
          PROVE  Sending(t) /\ station'[t] = station[t]
        <3>1. t # s
            BY <2>1, <2>2, <2>3
        <3>. QED
            BY <2>1, <2>3, <3>1 DEF Sending
    <2>4. ASSUME NEW t \in Station, station[t].wait > 0,
                 \A u \in Station : NearStations(t, u) => ~Sending(u)
          PROVE  /\ station'[t].wait > 0
                 /\ \A u \in Station : NearStations(t, u) => ~Sending(u)'
        <3>1. t # s /\ ~NearStations(s, t)
            BY <2>1, <2>4
        <3>2. ~NearStations(t, s)
            BY <3>1, NearIs
        <3>. QED
            BY <2>1, <2>4, <3>1, <3>2 DEF Sending
    <2>. QED
        BY <2>1, <2>3, <2>4, StaySteady
<1>2. ASSUME NEW s \in Station, Misses(s) PROVE Steady'
    <2>1. /\ Sending(s) /\ Sent(s, 0) /\ station[s].wait = 0
          /\ UNCHANGED <<minute, band, buffers, commands, handled>>
          /\ processed' => processed
        BY <1>2 DEF Misses
    <2>2. /\ \A t \in Station : t # s => station'[t] = station[t]
          /\ station'[s].wait = 2 /\ received' = received
          /\ station'[s].message = None \/ station'[s].whole = FALSE
          /\ station'[s].message \in {None, station[s].message}
        <3> DEFINE m == station[s].message
                   k == station[s].sent
        <3>0. PICK o \in Nat : o = 0
            OBVIOUS
        <3>1. /\ \A t \in Station : t # s => station'[t] = station[t]
              /\ station'[s].wait = 2
              /\ IF k + 1 = LastAt(m)
                 THEN /\ station'[s].message = None
                      /\ received' = IF station[s].whole /\ o # 0
                                     THEN received \cup
                                            {[message |-> m, drift |-> DriftTo(station[s], o)]}
                                     ELSE received
                 ELSE /\ station'[s].message = m
                      /\ station'[s].whole = (station[s].whole /\ o # 0)
                      /\ received' = received
            BY <2>1, <3>0, SentIs
        <3>2. CASE k + 1 = LastAt(m)
            BY <3>0, <3>1, <3>2
        <3>3. CASE k + 1 # LastAt(m)
            BY <3>0, <3>1, <3>3
        <3>. QED
            BY <3>1, <3>2, <3>3
    <2>3. ASSUME NEW t \in Station, Sending(t)', station'[t].whole
          PROVE  Sending(t) /\ station'[t] = station[t]
        BY <2>2, <2>3 DEF Sending
    <2>4. \A t \in Station : Sending(t)' => Sending(t)
        BY <2>1, <2>2 DEF Sending
    <2>5. ASSUME NEW t \in Station, station[t].wait > 0,
                 \A u \in Station : NearStations(t, u) => ~Sending(u)
          PROVE  /\ station'[t].wait > 0
                 /\ \A u \in Station : NearStations(t, u) => ~Sending(u)'
        BY <2>1, <2>2, <2>4, <2>5
    <2>. QED
        BY <2>1, <2>2, <2>3, <2>5, StaySteady
<1>3. ASSUME NEW s \in Station, NEW o \in Offsets[s], Takes(s, o) PROVE Steady'
    BY <1>3, DecodedSteady
<1>4. CASE UNCHANGED vars
    <2>1. UNCHANGED <<minute, station, band, buffers, commands, processed, handled, received>>
        BY <1>4 DEF vars
    <2>. QED
        BY <2>1, StaySteady DEF Sending
<1>5. ASSUME NEW frame \in seen, NEW o \in Offset, DecodeAgain(frame, o)
      PROVE  UNCHANGED vars
    BY <1>5, AgainChangesNothing
<1>6. \A s \in Station : SendLost(s) => Misses(s)
    BY LostMisses
<1>7. \A s \in Station : \A o \in Offsets[s] : SendDecoded(s, o) => Takes(s, o) \/ Misses(s)
    BY DecodedIs
<1>. QED
    BY <1>1, <1>2, <1>3, <1>4, <1>5, <1>6, <1>7, ProcessSteady, TickSteady DEF Next

LEMMA InitSteady == Init => Steady
<1> SUFFICES ASSUME Init PROVE Steady
    OBVIOUS
<1>1. received = {} /\ \A s \in Station : station[s].message = None
    BY DEF Init
<1>. QED
    BY <1>1 DEF Steady, Tracked, Arrives, Sending

(* Where stations keep to places, a message of which every frame is        *)
(* decoded, and none is dropped as a duplicate of one from far away, is    *)
(* handed over whole, at one offset or while it drifts, and whatever was   *)
(* lost or dropped of other messages, and whatever they say.               *)
THEOREM SteadyCorrect == ASSUME Places PROVE Spec => [](SteadyArrives /\ DriftingArrives)
<1> DEFINE Inv == Sound /\ Ends /\ Once /\ Spread /\ Steady
<1>1. Init => Inv
    BY InitSound, InitEnds, InitOnce, InitSpread, InitSteady
<1>2. Inv /\ [Next]_vars => Inv'
    BY StepSound, StepEnds, StepOnce, StepSpread, StepSteady
<1>3. Inv => SteadyArrives /\ DriftingArrives
    <2> SUFFICES ASSUME Inv, AtRest, NEW r \in received PROVE Arrived(r.message)
        BY DEF SteadyArrives, DriftingArrives
    <2>1. DOMAIN buffers = {} /\ DOMAIN commands = {}
        BY DEF AtRest
    <2>. QED
        BY <2>1 DEF Steady, Arrives, Commanded, Pending
<1>. QED
    BY <1>1, <1>2, <1>3, PTL DEF Spec

-----------------------------------------------------------------------------
(* Nobody else's text.                                                     *)

(* A text of frames of m up to the n-th, in their order.                   *)
Excerpt(text, m, n) ==
    /\ \A i \in DOMAIN text : text[i] # Ellipsis =>
         \E k \in 1 .. m.parts : k =< n /\ text[i] = <<m.from, m.number, k>>
    /\ \A i, j \in DOMAIN text :
         i < j /\ Ellipsis \notin {text[i], text[j]} => text[i][3] < text[j][3]

LEMMA ExcerptIs ==
    ASSUME NEW m \in Message, NEW text, NEW n, Excerpt(text, m, n)
    PROVE  IsExcerpt(text, Text(m))
<1>1. ASSUME NEW k \in 1 .. m.parts PROVE <<m.from, m.number, k>> \in ToSet(Text(m))
    <2>1. k \in DOMAIN Text(m) /\ Text(m)[k] = <<m.from, m.number, k>>
        BY TextIs
    <2>. QED
        BY <2>1 DEF ToSet
<1>2. \A i \in DOMAIN text : text[i] # Ellipsis => text[i] \in ToSet(Text(m))
    BY <1>1 DEF Excerpt
<1>. QED
    BY <1>2 DEF Excerpt, IsExcerpt

LEMMA ExcerptEmpty ==
    ASSUME NEW m, NEW n
    PROVE  Excerpt(<< >>, m, n)
<1>1. DOMAIN << >> = {}
    OBVIOUS
<1>. QED
    BY <1>1 DEF Excerpt

LEMMA ExcerptMore ==
    ASSUME NEW m \in Message, NEW text, NEW n \in Int, NEW p \in Int,
           n =< p \/ m.parts =< p, Excerpt(text, m, n)
    PROVE  Excerpt(text, m, p)
<1>1. \A k \in 1 .. m.parts : k =< n => k =< p
    BY MessageIs
<1>. QED
    BY <1>1 DEF Excerpt

LEMMA ExcerptAppend ==
    ASSUME NEW m \in Message, NEW text \in Seq(Part), NEW n \in Nat, n + 1 \in 1 .. m.parts,
           Excerpt(text, m, n)
    PROVE  Excerpt(Append(text, Text(m)[n + 1]), m, n + 1)
<1> DEFINE part == Text(m)[n + 1]
           r == Append(text, part)
<1>1. /\ part = <<m.from, m.number, n + 1>> /\ part \in Part
      /\ m.parts \in Nat
    <2>1. part = <<m.from, m.number, n + 1>>
        BY TextIs
    <2>2. m.from \in Station /\ m.number \in 1 .. MaxMessages /\ n + 1 \in 1 .. MaxText
        BY MessageIs, Constants
    <2>3. part \in Part
        BY <2>1, <2>2 DEF Part
    <2>. QED
        BY <2>1, <2>3, MessageIs
<1> HIDE DEF part
<1>2. /\ DOMAIN r = 1 .. Len(text) + 1 /\ Len(text) \in Nat /\ DOMAIN text = 1 .. Len(text)
      /\ r[Len(text) + 1] = part
      /\ \A i \in DOMAIN text : r[i] = text[i]
    BY <1>1, AppendIs
<1> HIDE DEF r
<1>3. \A i \in DOMAIN r : i \in DOMAIN text \/ i = Len(text) + 1
    BY <1>2
<1>4. ASSUME NEW i \in DOMAIN r, r[i] # Ellipsis
      PROVE  \E k \in 1 .. m.parts : k =< n + 1 /\ r[i] = <<m.from, m.number, k>>
    <2>1. CASE i \in DOMAIN text
        <3>1. PICK k \in 1 .. m.parts : k =< n /\ r[i] = <<m.from, m.number, k>>
            BY <1>2, <1>4, <2>1 DEF Excerpt
        <3>2. k =< n + 1
            BY <1>1, <3>1
        <3>. QED
            BY <3>1, <3>2
    <2>2. CASE i = Len(text) + 1
        BY <1>1, <1>2, <2>2
    <2>. QED
        BY <1>3, <2>1, <2>2
<1>5. ASSUME NEW i \in DOMAIN r, NEW j \in DOMAIN r, i < j, Ellipsis \notin {r[i], r[j]}
      PROVE  r[i][3] < r[j][3]
    <2>0. i \in DOMAIN text
        BY <1>2, <1>5
    <2>1. CASE j \in DOMAIN text
        BY <1>2, <1>5, <2>0, <2>1 DEF Excerpt
    <2>2. CASE j = Len(text) + 1
        <3>1. r[j] = <<m.from, m.number, n + 1>>
            BY <1>1, <1>2, <2>2
        <3>2. PICK k \in 1 .. m.parts : k =< n /\ r[i] = <<m.from, m.number, k>>
            BY <1>2, <1>5, <2>0 DEF Excerpt
        <3>3. r[i][3] = k /\ r[j][3] = n + 1
            BY <3>1, <3>2
        <3>. QED
            BY <1>1, <3>2, <3>3
    <2>. QED
        BY <1>3, <2>1, <2>2
<1>6. Excerpt(r, m, n + 1)
    BY <1>4, <1>5 DEF Excerpt
<1>. QED
    BY <1>6 DEF r, part

LEMMA ExcerptEllipsis ==
    ASSUME NEW m, NEW text \in Seq(Part), NEW n, Excerpt(text, m, n)
    PROVE  Excerpt(Append(text, Ellipsis), m, n)
<1> DEFINE r == Append(text, Ellipsis)
<1>1. Ellipsis \in Part
    BY DEF Part
<1>2. /\ DOMAIN r = 1 .. Len(text) + 1 /\ Len(text) \in Nat /\ DOMAIN text = 1 .. Len(text)
      /\ r[Len(text) + 1] = Ellipsis
      /\ \A i \in DOMAIN text : r[i] = text[i]
    BY <1>1, AppendIs
<1> HIDE DEF r
<1>3. \A i \in DOMAIN r : r[i] # Ellipsis => i \in DOMAIN text
    BY <1>2
<1>4. Excerpt(r, m, n)
    BY <1>2, <1>3 DEF Excerpt
<1>. QED
    BY <1>4 DEF r

(* What m has put into a buffer by its n-th frame of text.                 *)
Belongs(b, m, n) ==
    /\ b.cmd # None => b.cmd.message = m /\ b.cmd.from \in {m.from, Unresolved}
    /\ \A i \in DOMAIN b.compound : b.compound[i].call = m.from
    /\ Excerpt(b.msgs, m, n)

LEMMA NoBufferBelongs ==
    ASSUME NEW m, NEW n
    PROVE  Belongs(NoBuffer, m, n)
<1>1. NoBuffer.cmd = None /\ NoBuffer.compound = << >> /\ NoBuffer.msgs = << >>
    BY DEF NoBuffer
<1>2. DOMAIN NoBuffer.compound = {}
    BY <1>1
<1>. QED
    BY <1>1, <1>2, ExcerptEmpty DEF Belongs

LEMMA BelongsMore ==
    ASSUME NEW m \in Message, NEW b, NEW n \in Int, NEW p \in Int,
           n =< p \/ m.parts =< p, Belongs(b, m, n)
    PROVE  Belongs(b, m, p)
<1>1. Excerpt(b.msgs, m, p)
    BY ExcerptMore DEF Belongs
<1>. QED
    BY <1>1 DEF Belongs

LEMMA WithEllipsisBelongs ==
    ASSUME NEW b \in Buffer, NEW age \in Age, NEW m, NEW n, Belongs(b, m, n)
    PROVE  Belongs(WithEllipsis(b, age), m, n)
<1> DEFINE c == WithEllipsis(b, age)
<1>1. c.cmd = b.cmd /\ c.compound = b.compound /\ c.msgs = Append(b.msgs, Ellipsis)
    BY WithEllipsisIs
<1>2. Excerpt(Append(b.msgs, Ellipsis), m, n)
    BY BufferIs, ExcerptEllipsis DEF Belongs
<1> HIDE DEF c
<1>3. Belongs(c, m, n)
    BY <1>1, <1>2 DEF Belongs
<1>. QED
    BY <1>3 DEF c

LEMMA ResolvedBelongs ==
    ASSUME NEW b \in Buffer, NEW m, NEW n, Belongs(b, m, n)
    PROVE  Belongs(Resolved(b), m, n)
<1> DEFINE r == Resolved(b)
           q == b.compound
<1>1. /\ r.msgs = b.msgs /\ (r.cmd = None <=> b.cmd = None)
      /\ r.cmd # None => r.cmd.message = b.cmd.message
      /\ IF q = << >> \/ b.cmd = None \/ b.cmd.from # Unresolved
         THEN r = b
         ELSE 1 \in DOMAIN q /\ r.compound = Tail(q) /\ r.cmd.from = q[1].call
    BY ResolvedIs
<1>2. q \in Seq(Call)
    BY BufferIs
<1>3. /\ b.cmd # None => b.cmd.message = m /\ b.cmd.from \in {m.from, Unresolved}
      /\ \A i \in DOMAIN q : q[i].call = m.from
      /\ Excerpt(b.msgs, m, n)
    BY DEF Belongs
<1> HIDE DEF r, q
<1>4. CASE r = b
    BY <1>4 DEF r
<1>5. CASE 1 \in DOMAIN q /\ r.compound = Tail(q) /\ r.cmd.from = q[1].call
    <2>1. q # << >>
        BY <1>5
    <2>2. \A i \in DOMAIN Tail(q) : i + 1 \in DOMAIN q /\ Tail(q)[i] = q[i + 1]
        <3>1. /\ Len(q) \in Nat /\ Len(q) >= 1 /\ DOMAIN q = 1 .. Len(q)
              /\ DOMAIN Tail(q) = 1 .. Len(q) - 1
              /\ \A i \in 1 .. Len(q) - 1 : Tail(q)[i] = q[i + 1]
            BY <1>2, <2>1, <1>5
        <3>. QED
            BY <3>1
    <2>3. \A i \in DOMAIN r.compound : r.compound[i].call = m.from
        BY <1>3, <1>5, <2>2
    <2>4. Belongs(r, m, n)
        BY <1>1, <1>3, <1>5, <2>3 DEF Belongs
    <2>. QED
        BY <2>4 DEF r
<1>. QED
    BY <1>1, <1>4, <1>5

LEMMA AgedBelongs ==
    ASSUME TypeOK, NEW b \in Buffer, NEW m, NEW n, Belongs(b, m, n)
    PROVE  Belongs(AgedBuffer(b), m, n)
<1> DEFINE c == AgedBuffer(b)
<1>1. /\ c.msgs = b.msgs /\ (c.cmd = None <=> b.cmd = None)
      /\ b.cmd # None => c.cmd.message = b.cmd.message /\ c.cmd.from = b.cmd.from
      /\ DOMAIN c.compound = DOMAIN b.compound
      /\ \A i \in DOMAIN b.compound : c.compound[i].call = b.compound[i].call
    BY AgedIs
<1> HIDE DEF c
<1>2. Belongs(c, m, n)
    BY <1>1 DEF Belongs
<1>. QED
    BY <1>2 DEF c

-----------------------------------------------------------------------------
(* Every buffer is one sender's, and that of a place where a station sends *)
(* is that station's.                                                      *)
Excerpts(queue) ==
    \A i \in DOMAIN queue :
        /\ queue[i].from \in {queue[i].message.from, Unresolved}
        /\ Excerpt(queue[i].text, queue[i].message, queue[i].message.parts)

SoFar(s) == station[s].sent - HeaderAt(station[s].message)

Owned ==
    /\ \A o \in DOMAIN buffers : \E m \in Message : Belongs(buffers[o], m, m.parts)
    /\ \A s \in Station, o \in DOMAIN buffers :
         Sending(s) /\ station[s].sent >= 1 /\ Here(s, o) =>
            Belongs(buffers[o], station[s].message, SoFar(s))

Unmixed ==
    /\ Owned
    /\ Excerpts(commands) /\ Excerpts(handled)
    /\ \A i \in DOMAIN handled : handled[i].from # Unresolved

LEMMA UnmixedAgain ==
    ASSUME Unmixed, Owned', UNCHANGED <<commands, handled>>
    PROVE  Unmixed'
<1>1. Excerpts(commands') /\ Excerpts(handled')
    BY DEF Unmixed
<1>. QED
    BY <1>1 DEF Unmixed, Excerpts, Excerpt

(* What is there when the next frame of s is decoded.                      *)
LEMMA SenderOwns ==
    ASSUME Places, Sound, Spread, Owned, NEW s \in Station, Sending(s), NEW o \in Offsets[s]
    PROVE  Belongs(Before(NextFrame(s), o), station[s].message, SoFar(s))
<1> DEFINE f == NextFrame(s)
           b == Before(f, o)
           m == station[s].message
<1>1. o \in Offset /\ OneEach(buffers) /\ DOMAIN buffers \subseteq Offset
    BY Constants, SoundIs DEF Spread, IsMap
<1>2. /\ f.first => b = NoBuffer
      /\ (\A x \in DOMAIN buffers : ~At(x, o)) => b = NoBuffer
      /\ ~f.first => \A x \in DOMAIN buffers : At(x, o) => b = buffers[x]
    BY <1>1, BeforeIs
<1>3. (station[s].sent = 0 => f.first) /\ station[s].sent \in Nat
    <2>1. f.first = (station[s].sent = 0)
        BY NextFrameIs
    <2>. QED
        BY <2>1, StationIs, Zenon
<1> HIDE DEF f, b
<1>4. CASE b = NoBuffer
    BY <1>4, NoBufferBelongs DEF b, f
<1>5. ASSUME b # NoBuffer PROVE Belongs(b, m, SoFar(s))
    <2>1. ~f.first /\ station[s].sent >= 1
        BY <1>2, <1>3, <1>5
    <2>2. PICK x \in DOMAIN buffers : At(x, o)
        BY <1>2, <1>5
    <2>3. Here(s, x) /\ b = buffers[x]
        BY <1>2, <2>1, <2>2 DEF Here
    <2>. QED
        BY <2>1, <2>3 DEF Owned
<1>. QED
    BY <1>4, <1>5 DEF b, f

(* And afterwards.                                                         *)
LEMMA SenderBuffer ==
    ASSUME Places, Sound, Spread, Owned, NEW s \in Station, Sending(s), NEW o \in Offsets[s],
           ProcessDecodeEvent(NextFrame(s), o), ~IsDuplicate(NextFrame(s)),
           o \in DOMAIN buffers'
    PROVE  Belongs(buffers'[o], station[s].message, SoFar(s) + 1)
<1>0. PICK m \in Message : m = station[s].message
    BY StationIs
<1> DEFINE f == NextFrame(s)
           b == Before(f, o)
           k == station[s].sent
           n == SoFar(s)
           c == buffers'[o]
<1>1. o \in Offset /\ OneEach(buffers) /\ OneEach(band) /\ TypeOK
    BY Constants DEF Spread, Sound
<1>2. /\ f \in Frame /\ ~IsDuplicate(f) /\ f.message = m /\ f.kind = KindOf(m, k + 1)
      /\ f.part = k + 1 - HeaderAt(m)
      /\ f.kind = "data" => f.part \in 1 .. m.parts
    BY <1>0, NextFrameIs
<1>3. /\ m.from = s /\ k \in Nat /\ k < LastAt(m) /\ HeaderAt(m) \in {1, 2}
      /\ m.parts \in Nat /\ n = k - HeaderAt(m)
    BY <1>0, StationIs, MessageIs DEF SoFar
<1>4. b \in Buffer
    BY <1>1, BeforeIs
<1>5. Belongs(b, m, n)
    BY <1>0, SenderOwns
<1>6. /\ f.kind = "compound" => c = WithCall(b, f)
      /\ f.kind = "directed" /\ Waits(HeaderOf(f)) => c = WithHeader(b, f)
      /\ f.kind = "directed" /\ ~Waits(HeaderOf(f)) => c = b
      /\ f.kind = "data" => c = WithText(b, f)
    BY <1>1, <1>2, DecodeView
<1>7. f.kind \in {"compound", "directed", "data"}
    BY <1>2, <1>3, KindIs
<1> HIDE DEF f, b, k, n, c
<1>8. /\ n \in Int /\ Belongs(b, m, n + 1)
    <2>1. n \in Int /\ n + 1 \in Int /\ n =< n + 1
        BY <1>3
    <2>. QED
        BY <1>5, <2>1, BelongsMore
<1>9. CASE f.kind = "compound"
    <2>1. /\ c.cmd = b.cmd /\ c.msgs = b.msgs
          /\ c.compound = Append(b.compound, CallOf(f)) /\ CallOf(f) \in Call
        BY <1>1, <1>2, <1>4, <1>6, <1>9, WithCallIs
    <2>2. b.compound \in Seq(Call) /\ CallOf(f).call = m.from
        BY <1>2, <1>4, BufferIs DEF CallOf
    <2>3. \A i \in DOMAIN c.compound : c.compound[i].call = m.from
        <3>1. /\ DOMAIN c.compound = 1 .. Len(b.compound) + 1 /\ Len(b.compound) \in Nat
              /\ DOMAIN b.compound = 1 .. Len(b.compound)
              /\ c.compound[Len(b.compound) + 1] = CallOf(f)
              /\ \A i \in DOMAIN b.compound : c.compound[i] = b.compound[i]
            BY <2>1, <2>2, AppendIs
        <3>2. \A i \in DOMAIN c.compound : i \in DOMAIN b.compound \/ i = Len(b.compound) + 1
            BY <3>1
        <3>. QED
            BY <1>8, <2>2, <3>1, <3>2 DEF Belongs
    <2>4. Belongs(c, m, n + 1)
        BY <1>8, <2>1, <2>3 DEF Belongs
    <2>. QED
        BY <1>0, <2>4 DEF c, n
<1>10. CASE f.kind = "directed" /\ Waits(HeaderOf(f))
    <2> DEFINE d == WithHeader(b, f)
    <2>0. d.cmd = HeaderOf(f) /\ d.compound = b.compound /\ d.msgs = << >>
        BY <1>1, <1>2, <1>4, WithHeaderIs
    <2>1. c.cmd = HeaderOf(f) /\ c.compound = b.compound /\ c.msgs = << >>
        BY <1>6, <1>10, <2>0
    <2>2. HeaderOf(f).message = m /\ HeaderOf(f).from \in {m.from, Unresolved}
        BY <1>1, <1>2, HeaderOfIs
    <2>3. Belongs(c, m, n + 1)
        BY <1>8, <2>1, <2>2, ExcerptEmpty DEF Belongs
    <2>. QED
        BY <1>0, <2>3 DEF c, n
<1>11. CASE f.kind = "directed" /\ ~Waits(HeaderOf(f))
    BY <1>0, <1>6, <1>8, <1>11 DEF c, n
<1>12. CASE f.kind = "data"
    <2>1. /\ c.cmd = b.cmd /\ c.compound = b.compound
          /\ c.msgs = Append(b.msgs, Text(m)[f.part])
        BY <1>1, <1>2, <1>4, <1>6, <1>12, WithTextIs
    <2>2. n \in Nat /\ n + 1 = f.part /\ n + 1 \in 1 .. m.parts
        BY <1>2, <1>3, <1>12
    <2>3. Excerpt(Append(b.msgs, Text(m)[n + 1]), m, n + 1)
        BY <1>4, <1>5, <2>2, BufferIs, ExcerptAppend DEF Belongs
    <2>4. Belongs(c, m, n + 1)
        BY <1>8, <2>1, <2>2, <2>3 DEF Belongs
    <2>. QED
        BY <1>0, <2>4 DEF c, n
<1>. QED
    BY <1>7, <1>9, <1>10, <1>11, <1>12

(* The first frame of a message is not lost where something was left.      *)
FirstClears(s) ==
    station[s].sent = 0 => \A o \in DOMAIN buffers : ~Here(s, o)

(* The stations go on in their messages, and buffers stay as they were.    *)
LEMMA OwnedOn ==
    ASSUME Owned, DOMAIN buffers' \subseteq DOMAIN buffers,
           \A o \in DOMAIN buffers', m \in Message, n \in Int :
                Belongs(buffers[o], m, n) => Belongs(buffers'[o], m, n),
           Sound,
           \A s \in Station : Sending(s)' /\ station'[s].sent >= 1 =>
                /\ Sending(s) /\ station'[s].message = station[s].message
                /\ station'[s].sent \in Nat /\ station'[s].sent >= station[s].sent
                /\ station[s].sent >= 1 \/ \A o \in DOMAIN buffers : ~Here(s, o)
    PROVE  Owned'
<1>1. ASSUME NEW o \in DOMAIN buffers'
      PROVE  \E m \in Message : Belongs(buffers'[o], m, m.parts)
    <2>1. PICK m \in Message : Belongs(buffers[o], m, m.parts)
        BY DEF Owned
    <2>2. m.parts \in Int
        BY MessageIs
    <2>. QED
        BY <2>1, <2>2
<1>2. ASSUME NEW s \in Station, NEW o \in DOMAIN buffers', Sending(s)', station'[s].sent >= 1,
             Here(s, o)
      PROVE  Belongs(buffers'[o], station'[s].message, station'[s].sent
                                                       - HeaderAt(station'[s].message))
    <2> DEFINE n == SoFar(s)
               p == station'[s].sent - HeaderAt(station'[s].message)
    <2>1. /\ Sending(s) /\ station'[s].message = station[s].message
          /\ station'[s].sent \in Nat /\ station'[s].sent >= station[s].sent
          /\ station[s].sent >= 1
        BY <1>2
    <2>2. PICK m \in Message : m = station[s].message
        BY <2>1, StationIs
    <2>3. station[s].sent \in Nat /\ HeaderAt(m) \in {1, 2}
        BY <2>1, StationIs, MessageIs
    <2>4. n \in Int /\ p \in Int /\ n =< p
        BY <2>1, <2>2, <2>3 DEF SoFar
    <2>5. Belongs(buffers[o], m, n)
        BY <1>2, <2>1, <2>2 DEF Owned
    <2> HIDE DEF n, p
    <2>6. Belongs(buffers'[o], m, n)
        BY <2>4, <2>5
    <2>7. Belongs(buffers'[o], m, p)
        BY <2>4, <2>6, BelongsMore
    <2>. QED
        BY <2>1, <2>2, <2>7 DEF p
<1>. QED
    BY <1>1, <1>2 DEF Owned, SoFar

LEMMA DecodedUnmixed ==
    ASSUME Places, Sound, Spread, Unmixed, NEW s \in Station, NEW o \in Offsets[s],
           Takes(s, o)
    PROVE  Unmixed'
<1>0. PICK m \in Message : m = station[s].message
    BY TakesIs, StationIs
<1> DEFINE f == NextFrame(s)
           k == station[s].sent
           n == SoFar(s)
<1>1. /\ o \in Offset /\ o \in Nat /\ Sending(s) /\ ProcessDecodeEvent(f, o)
      /\ Sent(s, o) /\ handled' = handled /\ ~IsDuplicate(f)
    BY TakesIs
<1>2. /\ f \in Frame /\ f.message = m
    BY <1>0, <1>1, NextFrameIs
<1>3. /\ \A t \in Station : t # s => station'[t] = station[t]
      /\ IF k + 1 = LastAt(m) THEN station'[s].message = None
         ELSE station'[s].message = m /\ station'[s].sent = k + 1
    BY <1>0, <1>1, SentIs
<1>4. /\ k \in Nat /\ k < LastAt(m) /\ m.from = s /\ HeaderAt(m) \in {1, 2}
      /\ m.parts \in Nat /\ LastAt(m) = HeaderAt(m) + m.parts /\ n = k - HeaderAt(m)
    BY <1>0, <1>1, StationIs, MessageIs DEF SoFar
<1>5. Moved(buffers, buffers', o)
    BY <1>1, <1>2, DecodeView DEF Spread
<1>6. /\ Owned /\ Excerpts(commands) /\ Excerpts(handled) /\ Quiet
      /\ \A i \in DOMAIN handled : handled[i].from # Unresolved
    BY DEF Unmixed, Spread
<1>7. o \in DOMAIN buffers' => Belongs(buffers'[o], m, n + 1)
    BY <1>0, <1>1, <1>6, SenderBuffer
<1> HIDE DEF k, n
<1>8. \A x \in DOMAIN buffers' :
        \/ x = o
        \/ /\ ~At(x, o) /\ x \in DOMAIN buffers /\ buffers'[x] = buffers[x]
    BY <1>5 DEF Moved
<1>9. n \in Int /\ n + 1 \in Int /\ n + 1 =< m.parts
    BY <1>4
<1>10. ASSUME NEW x \in DOMAIN buffers'
       PROVE  \E r \in Message : Belongs(buffers'[x], r, r.parts)
    <2>1. CASE x = o
        <3>1. m.parts \in Int
            BY <1>4
        <3>2. Belongs(buffers'[o], m, m.parts)
            BY <1>7, <1>9, <1>10, <2>1, <3>1, BelongsMore
        <3>. QED
            BY <2>1, <3>2
    <2>2. CASE x # o
        BY <1>6, <1>8, <1>10, <2>2 DEF Owned
    <2>. QED
        BY <2>1, <2>2
<1>11. ASSUME NEW t \in Station, NEW x \in DOMAIN buffers', Sending(t)',
              station'[t].sent >= 1, Here(t, x)
       PROVE  Belongs(buffers'[x], station'[t].message, station'[t].sent
                                                        - HeaderAt(station'[t].message))
    <2>0. x \in Offset
        BY <1>5 DEF Moved
    <2>1. CASE t = s
        <3>1. station'[s].message = m /\ station'[s].sent = k + 1
            BY <1>3, <1>11, <2>1 DEF Sending
        <3>2. At(x, o)
            BY <1>1, <1>11, <2>0, <2>1, NearIs
        <3>3. x = o
            BY <1>8, <3>2
        <3>4. station'[s].sent - HeaderAt(station'[s].message) = n + 1
            BY <1>4, <3>1
        <3>. QED
            BY <1>7, <2>1, <3>1, <3>3, <3>4
    <2>2. CASE t # s
        <3>1. Sending(t) /\ station'[t] = station[t]
            BY <1>3, <1>11, <2>2 DEF Sending
        <3>2. ~NearStations(t, s)
            BY <1>1, <1>6, <2>2, <3>1 DEF Quiet
        <3>3. ~At(x, o)
            BY <1>11, <2>0, <3>2, NearIs
        <3>4. At(o, o)
            BY <1>1, AtIs
        <3>5. x \in DOMAIN buffers /\ buffers'[x] = buffers[x]
            BY <1>8, <3>3, <3>4
        <3>. QED
            BY <1>6, <1>11, <3>1, <3>5 DEF Owned, SoFar
    <2>. QED
        BY <2>1, <2>2
<1>12. Owned'
    BY <1>10, <1>11 DEF Owned, SoFar
<1>13. ASSUME NEW i \in DOMAIN commands'
       PROVE  /\ commands'[i].from \in {commands'[i].message.from, Unresolved}
              /\ Excerpt(commands'[i].text, commands'[i].message, commands'[i].message.parts)
    <2> DEFINE c == CommandOf(HeaderOf(f), << >>)
    <2>1. \/ commands' = commands
          \/ commands' = Append(commands, c) /\ c \in Command
        BY <1>1, <1>2, ReceiveIs
    <2>2. CASE commands' = commands
        BY <1>6, <1>13, <2>2 DEF Excerpts
    <2>3. CASE commands' = Append(commands, c) /\ c \in Command
        <3>1. c.message = m /\ c.from \in {m.from, Unresolved} /\ c.text = << >>
            BY <1>2, HeaderOfIs DEF CommandOf, Sound
        <3>2. Excerpt(c.text, m, m.parts)
            BY <3>1, ExcerptEmpty
        <3> HIDE DEF c
        <3>3. /\ DOMAIN commands' = 1 .. Len(commands) + 1 /\ Len(commands) \in Nat
              /\ DOMAIN commands = 1 .. Len(commands)
              /\ commands'[Len(commands) + 1] = c
              /\ \A j \in DOMAIN commands : commands'[j] = commands[j]
            BY <2>3, AppendIs, SoundIs
        <3>4. i \in DOMAIN commands \/ i = Len(commands) + 1
            BY <1>13, <3>3
        <3>. QED
            BY <1>6, <3>1, <3>2, <3>3, <3>4 DEF Excerpts
    <2>. QED
        BY <2>1, <2>2, <2>3
<1>14. Excerpts(commands')
    BY <1>13 DEF Excerpts
<1>15. Excerpts(handled') /\ \A i \in DOMAIN handled' : handled'[i].from # Unresolved
    BY <1>1, <1>6
<1>. QED
    BY <1>12, <1>14, <1>15 DEF Unmixed, Excerpts, Excerpt

LEMMA LostUnmixed ==
    ASSUME Sound, Unmixed, NEW s \in Station, Misses(s), FirstClears(s)
    PROVE  Unmixed'
<1>0. PICK m \in Message : m = station[s].message
    BY StationIs DEF Misses
<1>1. /\ Sending(s) /\ Sent(s, 0) /\ UNCHANGED <<buffers, commands, handled>>
    BY DEF Misses
<1>2. /\ \A t \in Station : t # s => station'[t] = station[t]
      /\ \/ station'[s].message = None
         \/ station'[s].message = m /\ station'[s].sent = station[s].sent + 1
    <2>1. PICK o \in Nat : o = 0
        OBVIOUS
    <2>2. Sent(s, o)
        BY <1>1, <2>1
    <2>3. /\ \A t \in Station : t # s => station'[t] = station[t]
          /\ IF station[s].sent + 1 = LastAt(m) THEN station'[s].message = None
             ELSE station'[s].message = m /\ station'[s].sent = station[s].sent + 1
        BY <1>0, <1>1, <2>2, SentIs
    <2>. QED
        BY <2>3
<1>3. ASSUME NEW t \in Station, Sending(t)', station'[t].sent >= 1
      PROVE  /\ Sending(t) /\ station'[t].message = station[t].message
             /\ station'[t].sent \in Nat /\ station'[t].sent >= station[t].sent
             /\ station[t].sent >= 1 \/ \A o \in DOMAIN buffers : ~Here(t, o)
    <2>0. station[t].sent \in Nat
        BY StationIs
    <2>1. CASE t = s
        <3>1. station'[s].message = m /\ station'[s].sent = station[s].sent + 1
            BY <1>2, <1>3, <2>1 DEF Sending
        <3>2. station[s].sent = 0 \/ station[s].sent >= 1
            BY <2>0, <2>1
        <3>3. station'[s].sent \in Nat /\ station'[s].sent >= station[s].sent
            BY <2>0, <2>1, <3>1
        <3>. QED
            BY <1>0, <1>1, <2>1, <3>1, <3>2, <3>3 DEF FirstClears
    <2>2. CASE t # s
        BY <1>2, <1>3, <2>0, <2>2 DEF Sending
    <2>. QED
        BY <2>1, <2>2
<1>4. Owned'
    BY <1>1, <1>3, OwnedOn DEF Unmixed
<1>. QED
    BY <1>1, <1>4, UnmixedAgain

(* What processActivity makes of a buffer of m, and takes from it.         *)
LEMMA ProcessOwned ==
    ASSUME Places, Sound, Spread, NEW o \in DOMAIN buffers, NEW m \in Message, NEW n,
           Belongs(buffers[o], m, n)
    PROVE  /\ o \in DOMAIN Filled /\ Filled[o] \in Buffer
           /\ Belongs(Filled[o], m, n) /\ Belongs(Resolved(Filled[o]), m, n)
<1>1. /\ o \in DOMAIN Filled
      /\ Filled[o] = IF o \in IdleOffsets THEN WithEllipsis(buffers[o], band[o].age)
                     ELSE buffers[o]
    BY FilledView DEF Spread
<1>2. buffers[o] \in Buffer /\ Filled[o] \in Buffer
    BY <1>1, SoundIs, ProcessedMaps DEF IsMap
<1>3. Belongs(Filled[o], m, n)
    <2>1. CASE o \in IdleOffsets
        <3>1. band[o].age \in Age
            BY <2>1, SoundIs DEF IdleOffsets, IsMap, Activity
        <3>. QED
            BY <1>1, <1>2, <2>1, <3>1, WithEllipsisBelongs
    <2>2. CASE o \notin IdleOffsets
        BY <1>1, <2>2
    <2>. QED
        BY <2>1, <2>2
<1>. QED
    BY <1>1, <1>2, <1>3, ResolvedBelongs

LEMMA ProcessUnmixed ==
    ASSUME Places, Sound, Spread, Unmixed, ProcessActivity
    PROVE  Unmixed'
<1>1. /\ commands' = << >>
      /\ buffers' = [o \in DOMAIN Settled \ (Dropped \cup Closed) |-> Settled[o]]
      /\ UNCHANGED station
    BY ProcessActivityIs
<1>2. /\ DOMAIN Settled = DOMAIN Filled \ Ready /\ Ready \subseteq DOMAIN Filled
      /\ \A o \in DOMAIN Settled : Settled[o] = Resolved(Filled[o])
      /\ \A o \in Ready : Resolved(Filled[o]).cmd # None
      /\ Closed \subseteq DOMAIN Settled
    BY ProcessedMaps
<1>3. DOMAIN Filled = DOMAIN buffers
    BY FilledView DEF Spread
<1>4. /\ DOMAIN buffers' \subseteq DOMAIN buffers
      /\ \A o \in DOMAIN buffers' : buffers'[o] = Resolved(Filled[o])
    BY <1>1, <1>2, <1>3
<1>5. \A o \in DOMAIN buffers', m \in Message, n \in Int :
        Belongs(buffers[o], m, n) => Belongs(buffers'[o], m, n)
    BY <1>4, ProcessOwned
<1>6. ASSUME NEW s \in Station, Sending(s)', station'[s].sent >= 1
      PROVE  /\ Sending(s) /\ station'[s].message = station[s].message
             /\ station'[s].sent \in Nat /\ station'[s].sent >= station[s].sent
             /\ station[s].sent >= 1
    BY <1>1, <1>6, StationIs DEF Sending
<1>7. Owned'
    BY <1>4, <1>5, <1>6, OwnedOn DEF Unmixed
<1>8. ASSUME NEW o \in DOMAIN buffers, Resolved(Filled[o]).cmd # None
      PROVE  LET r == Resolved(Filled[o])
             IN  /\ r.cmd.message \in Message
                 /\ r.cmd.from \in {r.cmd.message.from, Unresolved}
                 /\ Excerpt(r.msgs, r.cmd.message, r.cmd.message.parts)
    <2>1. PICK m \in Message : Belongs(buffers[o], m, m.parts)
        BY DEF Unmixed, Owned
    <2>2. Belongs(Resolved(Filled[o]), m, m.parts)
        BY <2>1, ProcessOwned
    <2>. QED
        BY <1>8, <2>2 DEF Belongs
<1>9. ASSUME NEW i \in DOMAIN Queue
      PROVE  /\ Queue[i].from \in {Queue[i].message.from, Unresolved}
             /\ Excerpt(Queue[i].text, Queue[i].message, Queue[i].message.parts)
    <2>1. \/ \E j \in DOMAIN commands : Queue[i] = commands[j]
          \/ \E o \in Ready : Queue[i] = EarlyCommand(o)
          \/ \E o \in Closed : IsLate(o) /\ Queue[i] = LateCommand(o)
        BY QueueIs
    <2>2. CASE \E j \in DOMAIN commands : Queue[i] = commands[j]
        BY <2>2 DEF Unmixed, Excerpts
    <2>3. ASSUME NEW o \in Ready, Queue[i] = EarlyCommand(o)
          PROVE  /\ Queue[i].from \in {Queue[i].message.from, Unresolved}
                 /\ Excerpt(Queue[i].text, Queue[i].message, Queue[i].message.parts)
        <3> DEFINE r == Resolved(Filled[o])
        <3>1. /\ Queue[i].message = r.cmd.message /\ Queue[i].from = r.cmd.from
              /\ Queue[i].text = << >>
            BY <2>3 DEF EarlyCommand, CommandOf
        <3>2. o \in DOMAIN buffers /\ r.cmd # None
            BY <1>2, <1>3
        <3>3. r.cmd.from \in {r.cmd.message.from, Unresolved}
            BY <1>8, <3>2
        <3> HIDE DEF r
        <3>. QED
            BY <3>1, <3>3, ExcerptEmpty
    <2>4. ASSUME NEW o \in Closed, IsLate(o), Queue[i] = LateCommand(o)
          PROVE  /\ Queue[i].from \in {Queue[i].message.from, Unresolved}
                 /\ Excerpt(Queue[i].text, Queue[i].message, Queue[i].message.parts)
        <3> DEFINE r == Resolved(Filled[o])
        <3>1. Settled[o] = r /\ o \in DOMAIN buffers
            BY <1>2, <1>3
        <3> HIDE DEF r
        <3>2. /\ Queue[i].message = r.cmd.message /\ Queue[i].from = r.cmd.from
              /\ Queue[i].text = r.msgs /\ r.cmd # None
            BY <2>4, <3>1 DEF LateCommand, CommandOf, IsLate
        <3>3. /\ r.cmd.from \in {r.cmd.message.from, Unresolved}
              /\ Excerpt(r.msgs, r.cmd.message, r.cmd.message.parts)
            BY <1>8, <3>1, <3>2 DEF r
        <3>. QED
            BY <3>2, <3>3
    <2>. QED
        BY <2>1, <2>2, <2>3, <2>4
<1>10. \A i \in DOMAIN handled' :
        \/ \E j \in DOMAIN handled : handled'[i] = handled[j]
        \/ \E j \in DOMAIN Queue : handled'[i] = Queue[j] /\ Queue[j].from # Unresolved
    BY HandledIs
<1>11. ASSUME NEW i \in DOMAIN handled'
       PROVE  /\ handled'[i].from \in {handled'[i].message.from, Unresolved}
              /\ Excerpt(handled'[i].text, handled'[i].message, handled'[i].message.parts)
              /\ handled'[i].from # Unresolved
    <2>1. CASE \E j \in DOMAIN handled : handled'[i] = handled[j]
        BY <2>1 DEF Unmixed, Excerpts
    <2>2. CASE \E j \in DOMAIN Queue : handled'[i] = Queue[j] /\ Queue[j].from # Unresolved
        BY <1>9, <2>2
    <2>. QED
        BY <1>10, <2>1, <2>2
<1>12. Excerpts(handled') /\ \A i \in DOMAIN handled' : handled'[i].from # Unresolved
    BY <1>11 DEF Excerpts
<1>13. Excerpts(commands')
    BY <1>1 DEF Excerpts
<1>. QED
    BY <1>7, <1>12, <1>13 DEF Unmixed, Excerpts, Excerpt

LEMMA StepUnmixed ==
    ASSUME Places, Sound, Spread, Unmixed, [Next]_vars,
           \A s \in Station : SendLost(s) => FirstClears(s)
    PROVE  Unmixed'
<1>1. ASSUME NEW s \in Station, NEW o \in Offsets[s], SendDecoded(s, o) PROVE Unmixed'
    <2>1. CASE Takes(s, o)
        BY <2>1, DecodedUnmixed
    <2>2. CASE IsDuplicate(NextFrame(s)) /\ Misses(s)
        <3>1. station[s].sent # 0
            BY <2>2, FirstIsNew DEF Misses, Spread
        <3>. QED
            BY <2>2, <3>1, LostUnmixed DEF FirstClears
    <2>. QED
        BY <1>1, <2>1, <2>2, DecodedIs
<1>2. ASSUME NEW s \in Station, SendLost(s) PROVE Unmixed'
    BY <1>2, LostMisses, LostUnmixed
<1>3. CASE ProcessActivity
    BY <1>3, ProcessUnmixed
<1>4. CASE Tick
    <2>1. /\ \A s \in Station :
                station'[s].message = station[s].message /\ station'[s].sent = station[s].sent
          /\ DOMAIN buffers' = DOMAIN buffers
          /\ \A o \in DOMAIN buffers : buffers'[o] = AgedBuffer(buffers[o])
          /\ UNCHANGED <<commands, handled>>
        BY <1>4, TickIs
    <2>2. \A o \in DOMAIN buffers : buffers[o] \in Buffer
        BY SoundIs DEF IsMap
    <2>3. \A o \in DOMAIN buffers', m \in Message, n \in Int :
            Belongs(buffers[o], m, n) => Belongs(buffers'[o], m, n)
        BY <2>1, <2>2, AgedBelongs DEF Sound
    <2>4. ASSUME NEW s \in Station, Sending(s)', station'[s].sent >= 1
          PROVE  /\ Sending(s) /\ station'[s].message = station[s].message
                 /\ station'[s].sent \in Nat /\ station'[s].sent >= station[s].sent
                 /\ station[s].sent >= 1
        BY <2>1, <2>4, StationIs DEF Sending
    <2>5. Owned'
        BY <2>1, <2>3, <2>4, OwnedOn DEF Unmixed
    <2>. QED
        BY <2>1, <2>5, UnmixedAgain
<1>5. ASSUME NEW s \in Station, NEW checked \in BOOLEAN, NEW parts \in 0 .. MaxText,
             Begin(s, checked, parts)
      PROVE  Unmixed'
    <2>1. /\ \A t \in Station : t # s => station'[t] = station[t]
          /\ station'[s].sent = 0
          /\ UNCHANGED <<buffers, commands, handled>>
        BY <1>5, BeginIs, StationIs
    <2>2. ASSUME NEW t \in Station, Sending(t)', station'[t].sent >= 1
          PROVE  /\ Sending(t) /\ station'[t].message = station[t].message
                 /\ station'[t].sent \in Nat /\ station'[t].sent >= station[t].sent
                 /\ station[t].sent >= 1
        <3>1. t # s
            BY <2>1, <2>2
        <3>. QED
            BY <2>1, <2>2, <3>1, StationIs DEF Sending
    <2>3. Owned'
        BY <2>1, <2>2, OwnedOn DEF Unmixed
    <2>. QED
        BY <2>1, <2>3, UnmixedAgain
<1>6. CASE UNCHANGED vars
    BY <1>6 DEF vars, Unmixed, Owned, Excerpts, Excerpt, Belongs, SoFar, Sending
<1>7. ASSUME NEW frame \in seen, NEW o \in Offset, DecodeAgain(frame, o)
      PROVE  UNCHANGED vars
    BY <1>7, AgainChangesNothing
<1>. QED
    BY <1>1, <1>2, <1>3, <1>4, <1>5, <1>6, <1>7 DEF Next

LEMMA InitUnmixed == Init => Unmixed
<1> SUFFICES ASSUME Init PROVE Unmixed
    OBVIOUS
<1>1. DOMAIN buffers = {} /\ DOMAIN commands = {} /\ DOMAIN handled = {}
    BY DEF Init
<1>. QED
    BY <1>1 DEF Unmixed, Owned, Excerpts

LEMMA UnmixedIs ==
    ASSUME Sound, Unmixed
    PROVE  SentByOne
<1>1. ASSUME NEW i \in DOMAIN handled
      PROVE  /\ handled[i].from = handled[i].message.from
             /\ IsExcerpt(handled[i].text, Text(handled[i].message))
    <2>1. handled[i] \in Command
        BY SoundIs, ElementOfSeq
    <2>2. handled[i].message \in Message
        BY <2>1, CommandIs
    <2>. QED
        BY <2>2, ExcerptIs DEF Unmixed, Excerpts
<1>. QED
    BY <1>1 DEF SentByOne

(* The first frame of every message is decoded.                            *)
FirstKept == \A s \in Station : station[s].sent = 0 => ~SendLost(s)

(* As long as no first frame is lost, every command has one sender's       *)
(* header, his callsign and nobody else's text, however many of the other  *)
(* frames are lost or dropped as duplicates.                               *)
THEOREM KeptCorrect == ASSUME Places PROVE Spec /\ [][FirstKept]_vars => []HandledWasSent
<1>1. Sound /\ Spread /\ Once /\ Ends /\ Unmixed /\ [Next]_vars /\ [FirstKept]_vars
        => (Sound /\ Spread /\ Once /\ Ends /\ Unmixed)'
    <2> SUFFICES ASSUME Sound, Spread, Once, Ends, Unmixed, [Next]_vars, [FirstKept]_vars
                 PROVE  (Sound /\ Spread /\ Once /\ Ends /\ Unmixed)'
        OBVIOUS
    <2>1. Sound' /\ Spread' /\ Once' /\ Ends'
        BY StepSound, StepSpread, StepOnce, StepEnds
    <2>2. CASE FirstKept
        <3>1. \A s \in Station : SendLost(s) => FirstClears(s)
            BY <2>2 DEF FirstKept, FirstClears
        <3>. QED
            BY <2>1, <3>1, StepUnmixed
    <2>3. CASE UNCHANGED vars
        <3>1. Unmixed'
            BY <2>3 DEF vars, Unmixed, Owned, Excerpts, Excerpt, Belongs, SoFar, Sending
        <3>. QED
            BY <2>1, <3>1
    <2>. QED
        BY <2>2, <2>3
<1>2. Init => Sound /\ Spread /\ Once /\ Ends /\ Unmixed
    BY InitSound, InitSpread, InitOnce, InitEnds, InitUnmixed
<1>3. Sound /\ Once /\ Ends /\ Unmixed => HandledWasSent
    BY UnmixedIs DEF HandledWasSent, Ends, Verified, CheckedIsWhole, Once, Distinct, HandledOnce
<1>. QED
    BY <1>1, <1>2, <1>3, PTL DEF Spec

-----------------------------------------------------------------------------
(* One frame may be lost.                                                  *)

(* As long as none is, whoever begins finds no buffer: what is left where  *)
(* nobody sends is handed over before.                                     *)
Unlost ==
    lost = 0 =>
        /\ \A s \in Station : station[s].whole
        /\ \A s \in Station : Sending(s) => FirstClears(s)
        /\ \A o \in DOMAIN buffers :
             (\A s \in Station : Here(s, o) => ~Sending(s)) =>
                \E m \in Message : Pending(m, o)

LEMMA PlaceIs ==
    ASSUME Places, NEW s \in Station, NEW t \in Station, NEW x \in Offset, Here(s, x)
    PROVE  /\ Here(t, x) => NearStations(s, t)
           /\ NearStations(s, t) => Here(t, x)
<1>1. Here(t, x) => NearStations(s, t)
    <2> SUFFICES ASSUME Here(t, x) PROVE NearStations(s, t)
        OBVIOUS
    <2>1. PICK p \in Offsets[t] : At(x, p)
        BY DEF Here
    <2>. QED
        BY <2>1, NearIs
<1>2. NearStations(s, t) => Here(t, x)
    <2> SUFFICES ASSUME NearStations(s, t) PROVE Here(t, x)
        OBVIOUS
    <2>1. PICK p \in Offsets[t] : TRUE
        BY Constants
    <2>2. At(x, p)
        BY NearIs
    <2>. QED
        BY <2>2 DEF Here
<1>. QED
    BY <1>1, <1>2

LEMMA BegunUnlost ==
    ASSUME Places, Sound, Unlost, NEW s \in Station, NEW checked \in BOOLEAN,
           NEW parts \in 0 .. MaxText, Begin(s, checked, parts)
    PROVE  Unlost'
<1> SUFFICES ASSUME lost' = 0 PROVE Unlost'
    BY DEF Unlost
<1>1. /\ \A t \in Station : t # s => station'[t] = station[t]
      /\ \A t \in Station : /\ station'[t].wait = station[t].wait
                            /\ station'[t].sent = station[t].sent
                            /\ station'[t].whole = station[t].whole
      /\ ~Sending(s) /\ station[s].wait = 0
      /\ \A t \in Station \ {s} : NearStations(s, t) => ~Sending(t) /\ station[t].wait = 0
      /\ UNCHANGED <<minute, lost, band, buffers, processed>>
      /\ \A t \in Station : Sending(t) => Sending(t)'
    <2>1. /\ \A t \in Station : t # s => station'[t] = station[t]
          /\ station'[s].sent = station[s].sent
          /\ station'[s].wait = station[s].wait /\ station'[s].whole = station[s].whole
          /\ ~Sending(s) /\ station[s].wait = 0
          /\ \A t \in Station \ {s} : NearStations(s, t) => ~Sending(t) /\ station[t].wait = 0
          /\ UNCHANGED <<minute, lost, band, buffers, processed>>
        BY BeginIs
    <2>2. \A t \in Station : Sending(t) => Sending(t)'
        BY <2>1 DEF Sending
    <2>. QED
        BY <2>1, <2>2
<1>2. /\ \A t \in Station : station[t].whole
      /\ \A t \in Station : Sending(t) => FirstClears(t)
      /\ \A o \in DOMAIN buffers :
            (\A t \in Station : Here(t, o) => ~Sending(t)) => \E m \in Message : Pending(m, o)
      /\ DOMAIN buffers \subseteq Offset
    BY <1>1, SoundIs DEF Unlost, IsMap
<1>3. ASSUME NEW o \in DOMAIN buffers PROVE ~Here(s, o)
    <2> SUFFICES ASSUME Here(s, o) PROVE FALSE
        OBVIOUS
    <2>1. \A t \in Station : Here(t, o) => ~Sending(t)
        BY <1>1, <1>2, PlaceIs
    <2>2. PICK m \in Message : Pending(m, o)
        BY <1>2, <2>1
    <2>3. m.from \in Station /\ Here(m.from, o) /\ station[m.from].wait > 0
        BY <2>2, MessageIs DEF Pending
    <2>4. NearStations(s, m.from)
        BY <1>2, <2>3, PlaceIs
    <2>5. station[m.from].wait = 0
        BY <1>1, <2>3, <2>4
    <2>. QED
        BY <2>3, <2>5
<1>4. ASSUME NEW t \in Station, Sending(t)' PROVE FirstClears(t)'
    BY <1>1, <1>2, <1>3, <1>4 DEF FirstClears, Sending
<1>5. ASSUME NEW o \in DOMAIN buffers, \A t \in Station : Here(t, o) => ~Sending(t)'
      PROVE  \E m \in Message : Pending(m, o)'
    <2>1. PICK m \in Message : Pending(m, o)
        BY <1>1, <1>2, <1>5
    <2>2. /\ m.from \in Station /\ Here(m.from, o) /\ Delivers(buffers[o], m)
          /\ band[o].idle /\ station[m.from].wait > 0 /\ ~processed
        BY <2>1, MessageIs DEF Pending
    <2>3. \A u \in Station : NearStations(m.from, u) => ~Sending(u)'
        BY <1>2, <1>5, <2>2, PlaceIs
    <2>4. /\ o \in DOMAIN buffers' /\ Delivers(buffers'[o], m) /\ band'[o].idle
          /\ station'[m.from].wait > 0 /\ ~processed'
        BY <1>1, <2>2
    <2>. QED
        BY <1>1, <2>2, <2>3, <2>4, PendingAgain
<1>6. \A t \in Station : station'[t].whole
    BY <1>1, <1>2
<1>. QED
    BY <1>1, <1>4, <1>5, <1>6 DEF Unlost

LEMMA DecodedUnlost ==
    ASSUME Places, Sound, Spread, Tracked, Unlost, NEW s \in Station, NEW o \in Offsets[s],
           Takes(s, o)
    PROVE  Unlost'
<1> SUFFICES ASSUME lost' = 0 PROVE Unlost'
    BY DEF Unlost
<1>0. PICK m \in Message : m = station[s].message
    BY TakesIs, StationIs
<1> DEFINE f == NextFrame(s)
           k == station[s].sent
<1>1. /\ o \in Offset /\ o \in Nat /\ o # 0 /\ Sending(s) /\ ProcessDecodeEvent(f, o)
      /\ Sent(s, o) /\ lost = 0 /\ processed' = FALSE /\ ~IsDuplicate(f)
    BY TakesIs
<1>2. f \in Frame
    BY <1>0, <1>1, NextFrameIs
<1>3. /\ \A t \in Station : t # s => station'[t] = station[t]
      /\ IF k + 1 = LastAt(m)
         THEN station'[s].message = None /\ station'[s].whole = TRUE
         ELSE /\ station'[s].message = m /\ station'[s].sent = k + 1
              /\ station'[s].whole = (station[s].whole /\ o # 0)
    BY <1>0, <1>1, SentIs
<1>4. k \in Nat
    BY StationIs
<1>5. Moved(buffers, buffers', o)
    BY <1>1, <1>2, DecodeView DEF Spread
<1>6. /\ \A t \in Station : station[t].whole
      /\ \A t \in Station : Sending(t) => FirstClears(t)
      /\ \A x \in DOMAIN buffers :
            (\A t \in Station : Here(t, x) => ~Sending(t)) => \E r \in Message : Pending(r, x)
      /\ Quiet /\ At(o, o) /\ Here(s, o) /\ NearStations(s, s)
    BY <1>1, AtIs, NearIs DEF Unlost, Spread
<1>7. \A x \in DOMAIN buffers' :
        /\ x \in Offset
        /\ \/ x = o
           \/ ~At(x, o) /\ x \in DOMAIN buffers /\ buffers'[x] = buffers[x]
    BY <1>5 DEF Moved
<1>8. \A t \in Station : station'[t].whole
    <2>1. station'[s].whole
        BY <1>1, <1>3, <1>6, Zenon
    <2>. QED
        BY <1>3, <1>6, <2>1
<1> HIDE DEF f, k
<1>9. ASSUME NEW t \in Station, Sending(t)', station'[t].sent = 0,
             NEW x \in DOMAIN buffers', Here(t, x)
      PROVE  FALSE
    <2>1. t # s
        <3> SUFFICES ASSUME t = s PROVE FALSE
            OBVIOUS
        <3>1. station'[s].sent = k + 1
            BY <1>3, <1>9 DEF Sending
        <3>. QED
            BY <1>4, <1>9, <3>1
    <2>2. Sending(t) /\ station'[t] = station[t]
        BY <1>3, <1>9, <2>1 DEF Sending
    <2>3. ~NearStations(t, s)
        BY <1>1, <1>6, <2>1, <2>2 DEF Quiet
    <2>4. ~At(x, o)
        BY <1>7, <1>9, <2>3, NearIs
    <2>5. x \in DOMAIN buffers
        BY <1>6, <1>7, <2>4
    <2>. QED
        BY <1>6, <1>9, <2>2, <2>5 DEF FirstClears
<1>10. ASSUME NEW x \in DOMAIN buffers', \A t \in Station : Here(t, x) => ~Sending(t)'
       PROVE  \E r \in Message : Pending(r, x)'
    <2>1. CASE x = o
        <3>1. k + 1 = LastAt(m)
            BY <1>1, <1>0, <1>3, <1>6, <1>10, <2>1 DEF Sending
        <3>2. \/ commands' = Append(commands, Whole(m)) /\ o \notin DOMAIN buffers'
              \/ o \in DOMAIN buffers' /\ Delivers(buffers'[o], m)
            BY <1>0, <1>6, <3>1, SenderReceives, Zenon DEF k
        <3>3. Pending(m, o)'
            BY <1>0, <1>6, <1>10, <2>1, <3>1, <3>2, SenderPending DEF k
        <3>. QED
            BY <2>1, <3>3
    <2>2. CASE x # o
        <3>1. x \in DOMAIN buffers /\ ~At(x, o) /\ x \in Offset
            BY <1>7, <1>10, <2>2
        <3>2. ASSUME NEW t \in Station, Here(t, x) PROVE ~Sending(t)
            <4>1. t # s
                BY <1>6, <3>1, <3>2, NearIs
            <4>. QED
                BY <1>3, <1>10, <3>2, <4>1 DEF Sending
        <3>3. PICK r \in Message : Pending(r, x)
            BY <1>6, <3>1, <3>2
        <3>4. Pending(r, x)'
            BY <3>1, <3>3, PendingStays
        <3>. QED
            BY <3>4
    <2>. QED
        BY <2>1, <2>2
<1>11. \A t \in Station : Sending(t)' => FirstClears(t)'
    BY <1>9 DEF FirstClears
<1>. QED
    BY <1>8, <1>10, <1>11 DEF Unlost

(* No frame is dropped as a duplicate.                                     *)
NoneDropped ==
    \A s \in Station : \A o \in Offsets[s] : SendDecoded(s, o) => ~IsDuplicate(NextFrame(s))

LEMMA StepUnlost ==
    ASSUME Places, Sound, Ends, Spread, Tracked, Unlost, [Next]_vars, [NoneDropped]_vars
    PROVE  Unlost'
<1>1. ASSUME NEW s \in Station, NEW checked \in BOOLEAN, NEW parts \in 0 .. MaxText,
             Begin(s, checked, parts)
      PROVE  Unlost'
    BY <1>1, BegunUnlost
<1>2. ASSUME NEW s \in Station, NEW o \in Offsets[s], SendDecoded(s, o), NoneDropped
      PROVE  Unlost'
    BY <1>2, DecodedUnlost DEF NoneDropped, Takes
<1>3. ASSUME NEW s \in Station, SendLost(s) PROVE Unlost'
    <2>1. lost' = lost + 1 /\ lost \in Nat
        BY <1>3, SoundIs DEF SendLost
    <2>2. lost' # 0
        BY <2>1
    <2>. QED
        BY <2>2 DEF Unlost
<1>4. CASE ProcessActivity
    <2> SUFFICES ASSUME lost' = 0 PROVE Unlost'
        BY DEF Unlost
    <2>1. /\ buffers' = [o \in DOMAIN Settled \ (Dropped \cup Closed) |-> Settled[o]]
          /\ UNCHANGED <<minute, station, lost>>
        BY <1>4, ProcessActivityIs
    <2>2. /\ \A s \in Station : station[s].whole
          /\ \A s \in Station : Sending(s) => FirstClears(s)
          /\ \A o \in DOMAIN buffers :
                (\A s \in Station : Here(s, o) => ~Sending(s)) =>
                    \E m \in Message : Pending(m, o)
        BY <2>1 DEF Unlost
    <2>3. DOMAIN Settled = DOMAIN Filled \ Ready /\ DOMAIN Filled = DOMAIN buffers
        BY ProcessedMaps, FilledView DEF Spread
    <2>4. \A o \in DOMAIN buffers' :
            o \in DOMAIN buffers /\ o \notin Ready /\ o \notin Closed
        BY <2>1, <2>3
    <2>5. ASSUME NEW o \in DOMAIN buffers', \A s \in Station : Here(s, o) => ~Sending(s)
          PROVE  FALSE
        <3>1. PICK m \in Message : Pending(m, o)
            BY <2>2, <2>4, <2>5
        <3>2. o \in DOMAIN buffers /\ Delivers(buffers[o], m) /\ band[o].idle
            BY <3>1 DEF Pending
        <3>3. o \in Ready \/ o \in Closed
            BY <3>2, DeliversTaken
        <3>. QED
            BY <2>4, <3>3
    <2>6. \A s \in Station : Sending(s)' => FirstClears(s)'
        BY <2>1, <2>2, <2>4 DEF FirstClears, Sending
    <2>7. \A s \in Station : station'[s].whole
        BY <2>1, <2>2
    <2>8. \A o \in DOMAIN buffers' : ~\A s \in Station : Here(s, o) => ~Sending(s)'
        BY <2>1, <2>5 DEF Sending
    <2>. QED
        BY <2>6, <2>7, <2>8 DEF Unlost
<1>5. CASE Tick
    <2> SUFFICES ASSUME lost' = 0 PROVE Unlost'
        BY DEF Unlost
    <2>1. /\ \A s \in Station : /\ station'[s].message = station[s].message
                                /\ station'[s].sent = station[s].sent
                                /\ station'[s].whole = station[s].whole
          /\ DOMAIN buffers' = DOMAIN buffers /\ processed
          /\ UNCHANGED <<minute, lost>>
        BY <1>5, TickIs
    <2>2. /\ \A s \in Station : station[s].whole
          /\ \A s \in Station : Sending(s) => FirstClears(s)
          /\ \A o \in DOMAIN buffers :
                (\A s \in Station : Here(s, o) => ~Sending(s)) =>
                    \E m \in Message : Pending(m, o)
        BY <2>1 DEF Unlost
    <2>3. \A o \in DOMAIN buffers' : ~\A s \in Station : Here(s, o) => ~Sending(s)
        BY <2>1, <2>2 DEF Pending
    <2>4. \A o \in DOMAIN buffers' : ~\A s \in Station : Here(s, o) => ~Sending(s)'
        BY <2>1, <2>3 DEF Sending
    <2>5. \A s \in Station : Sending(s)' => FirstClears(s)'
        BY <2>1, <2>2 DEF FirstClears, Sending
    <2>6. \A s \in Station : station'[s].whole
        BY <2>1, <2>2
    <2>. QED
        BY <2>4, <2>5, <2>6 DEF Unlost
<1>6. CASE UNCHANGED vars
    <2> SUFFICES ASSUME lost' = 0 PROVE Unlost'
        BY DEF Unlost
    <2>1. UNCHANGED <<minute, station, lost, band, buffers, processed>>
        BY <1>6 DEF vars
    <2>2. /\ \A s \in Station : station[s].whole
          /\ \A s \in Station : Sending(s) => FirstClears(s)
          /\ \A o \in DOMAIN buffers :
                (\A s \in Station : Here(s, o) => ~Sending(s)) =>
                    \E m \in Message : Pending(m, o)
        BY <2>1 DEF Unlost
    <2>3. ASSUME NEW m \in Message, NEW o \in DOMAIN buffers, Pending(m, o)
          PROVE  Pending(m, o)'
        <3>1. /\ Here(m.from, o) /\ Delivers(buffers[o], m) /\ band[o].idle
              /\ station[m.from].wait > 0 /\ ~processed
              /\ \A t \in Station : NearStations(m.from, t) => ~Sending(t)
            BY <2>3 DEF Pending
        <3>2. \A t \in Station : NearStations(m.from, t) => ~Sending(t)'
            BY <2>1, <3>1 DEF Sending
        <3>3. o \in DOMAIN buffers'
            BY <2>1
        <3>4. /\ Delivers(buffers'[o], m) /\ band'[o].idle
              /\ station'[m.from].wait > 0 /\ ~processed'
            BY <2>1, <3>1
        <3>. QED
            BY <2>1, <3>1, <3>2, <3>3, <3>4, PendingAgain
    <2>4. \A o \in DOMAIN buffers' :
            (\A s \in Station : Here(s, o) => ~Sending(s)') => \E m \in Message : Pending(m, o)'
        BY <2>1, <2>2, <2>3 DEF Sending
    <2>5. \A s \in Station : Sending(s)' => FirstClears(s)'
        BY <2>1, <2>2 DEF FirstClears, Sending
    <2>6. \A s \in Station : station'[s].whole
        BY <2>1, <2>2
    <2>. QED
        BY <2>4, <2>5, <2>6 DEF Unlost
<1>7. ASSUME NEW frame \in seen, NEW o \in Offset, DecodeAgain(frame, o)
      PROVE  UNCHANGED vars
    BY <1>7, AgainChangesNothing
<1>. QED
    BY <1>1, <1>2, <1>3, <1>4, <1>5, <1>6, <1>7 DEF Next

LEMMA InitUnlost == Init => Unlost
<1> SUFFICES ASSUME Init PROVE Unlost
    OBVIOUS
<1>1. DOMAIN buffers = {} /\ \A s \in Station : station[s].message = None /\ station[s].whole
    BY DEF Init
<1>. QED
    BY <1>1 DEF Unlost, FirstClears, Sending

(* When at most one frame is not decoded, whichever it is, and none is     *)
(* dropped as a duplicate of one from far away, what is handed over was    *)
(* sent, by that station, and once.                                        *)
THEOREM SentCorrect ==
    ASSUME Places, MaxLost =< 1 PROVE Spec /\ [][NoneDropped]_vars => []HandledWasSent
<1> DEFINE IInv == Sound /\ Spread /\ Once /\ Ends /\ Steady /\ Unlost /\ Unmixed
<1>1. IInv /\ [Next]_vars /\ [NoneDropped]_vars => IInv'
    <2> SUFFICES ASSUME IInv, [Next]_vars, [NoneDropped]_vars PROVE IInv'
        OBVIOUS
    <2>1. Sound' /\ Spread' /\ Once' /\ Ends' /\ Steady'
        BY StepSound, StepSpread, StepOnce, StepEnds, StepSteady
    <2>2. Unlost'
        BY StepUnlost DEF Steady
    <2>3. ASSUME NEW s \in Station, SendLost(s) PROVE FirstClears(s)
        <3>1. lost < MaxLost /\ lost \in Nat /\ MaxLost \in Nat /\ Sending(s)
            BY <2>3, SoundIs, Constants DEF SendLost
        <3>2. lost = 0
            BY <3>1
        <3>. QED
            BY <3>1, <3>2 DEF Unlost
    <2>4. Unmixed'
        BY <2>3, StepUnmixed
    <2>. QED
        BY <2>1, <2>2, <2>4
<1>2. Init => IInv
    BY InitSound, InitSpread, InitOnce, InitEnds, InitSteady, InitUnlost, InitUnmixed
<1>3. IInv => HandledWasSent
    BY UnmixedIs DEF HandledWasSent, Ends, Verified, CheckedIsWhole, Once, Distinct, HandledOnce
<1> HIDE DEF IInv
<1>. QED
    BY <1>1, <1>2, <1>3, PTL DEF Spec
=============================================================================
