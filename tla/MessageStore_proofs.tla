------------------------- MODULE MessageStore_proofs -------------------------
(* Proofs about the message store, for all callsigns and groups and every  *)
(* value of the bounds: type correctness, that an offer stands, and that a *)
(* message that was transmitted is not offered again to its receiver.      *)
EXTENDS MessageStore, SequenceTheorems, TLAPS

------------------------------------------------------------------------------
(* The inductive invariant.                                                *)

(* Answers whose text is a message that was stored.                        *)
Known == {a \in Answers : a.text \in 0 .. Len(rows)}

(* A message that is not kept for its receiver any more; those of groups   *)
(* stay.                                                                   *)
Gone(i) == rows[i].to \in Groups \/ rows[i].type # "STORE"

(* The message i is for the callsign c.                                    *)
IsFor(i, c) == i \in 1 .. Len(rows) /\ rows[i].to \in Groups \cup {c, Base[c]}

AnswersKnown ==
    /\ pending \in Seq(Known)
    /\ queue \in Seq(Known)
    /\ box \in Known \cup {Nothing, Draft}

(* What is in the composer has had its callback.                           *)
ComposerMarked ==
    /\ sending => box # Nothing
    /\ box \in Answers /\ box.text # 0 => Gone(box.text)

SentGone == \A i \in sent : i \in 1 .. Len(rows) /\ Gone(i)

OffersFor == \A o \in offered : IsFor(o[1], o[2])

IInv == TypeOK /\ AnswersKnown /\ ComposerMarked /\ SentGone /\ OffersFor

(* Rows are added and never readdressed, and none is stored again.         *)
RowsKept ==
    /\ rows' \in Seq(Row)
    /\ Len(rows) <= Len(rows') /\ Len(rows') <= MaxId
    /\ \A i \in 1 .. Len(rows) : /\ rows'[i].to = rows[i].to
                                 /\ rows[i].type # "STORE" => rows'[i].type # "STORE"

------------------------------------------------------------------------------
(* Sequences and rows.                                                     *)

(* Removing an element leaves the others, one less.                        *)
LEMMA Removed ==
    ASSUME NEW S, NEW s \in Seq(S), NEW i \in DOMAIN s
    PROVE  RemoveAt(s, i) \in Seq(S) /\ Len(RemoveAt(s, i)) = Len(s) - 1
<1>. DEFINE a == SubSeq(s, 1, i - 1)
            b == SubSeq(s, i + 1, Len(s))
<1>1. Len(s) \in Nat /\ i \in 1 .. Len(s)
    BY LenProperties
<1>2. a \in Seq(S) /\ Len(a) = i - 1
    <2>1. \A j \in 1 .. i - 1 : s[j] \in S
        BY <1>1, ElementOfSeq
    <2>. QED
        BY <1>1, <2>1, SubSeqProperties
<1>3. b \in Seq(S) /\ Len(b) = Len(s) - i
    <2>1. \A j \in i + 1 .. Len(s) : s[j] \in S
        BY <1>1, ElementOfSeq
    <2>. QED
        BY <1>1, <2>1, SubSeqProperties
<1>4. RemoveAt(s, i) = a \o b
    BY DEF RemoveAt
<1>. HIDE DEF a, b
<1>. QED
    BY <1>1, <1>2, <1>3, <1>4, ConcatProperties

(* Appending a message keeps the rows.                                     *)
LEMMA StoringKeepsRows ==
    ASSUME TypeOK, NEW to \in Calls \cup Groups, Len(rows) < MaxId, rows' = WithRow(to)
    PROVE  RowsKept
<1>1. [type |-> "STORE", to |-> to] \in Row
    BY DEF Row
<1>2. rows \in Seq(Row) /\ Len(rows) \in Nat
    BY LenProperties DEF TypeOK
<1>. QED
    BY <1>1, <1>2, AppendProperties, BoundsAssumption DEF WithRow, RowsKept

(* So does giving a row another type.                                      *)
LEMMA MarkingKeepsRows ==
    ASSUME TypeOK, NEW i \in 1 .. Len(rows), NEW t \in {"DELIVERED", "deleted"},
           rows' = [rows EXCEPT ![i].type = t]
    PROVE  RowsKept /\ rows'[i].type # "STORE" /\ Len(rows') = Len(rows)
<1>. DEFINE row == [rows[i] EXCEPT !.type = t]
<1>1. rows \in Seq(Row) /\ Len(rows) \in Nat /\ Len(rows) <= MaxId
    BY LenProperties DEF TypeOK
<1>2. rows[i] \in Row
    BY <1>1, ElementOfSeq
<1>3. row \in Row /\ row.to = rows[i].to /\ row.type = t
    BY <1>2 DEF Row
<1>4. rows' = [rows EXCEPT ![i] = row]
    OBVIOUS
<1>. HIDE DEF row
<1>5. /\ rows' \in Seq(Row) /\ Len(rows') = Len(rows)
      /\ \A j \in 1 .. Len(rows) : rows'[j] = IF j = i THEN row ELSE rows[j]
    BY <1>1, <1>3, <1>4, ExceptSeq
<1>. QED
    BY <1>1, <1>3, <1>5 DEF RowsKept

(* And doing nothing to them.                                              *)
LEMMA UnchangedKeepsRows ==
    ASSUME TypeOK, rows' = rows
    PROVE  RowsKept
BY LenProperties DEF TypeOK, RowsKept

(* What the invariant says of the rows outlives every change of them.      *)
LEMMA KeptRows ==
    ASSUME IInv, RowsKept
    PROVE  /\ Len(rows) \in Nat /\ Len(rows') \in Nat
           /\ Known \subseteq Known'
           /\ pending \in Seq(Known') /\ queue \in Seq(Known')
           /\ box \in Known' \cup {Nothing, Draft}
           /\ \A i \in 1 .. Len(rows) : Gone(i) => Gone(i)'
           /\ \A i \in Id, c \in Calls : IsFor(i, c) => IsFor(i, c)'
           /\ \A i \in sent : i \in 1 .. Len(rows') /\ Gone(i)'
           /\ \A o \in offered : o \in Id \X Calls /\ IsFor(o[1], o[2])'
<1>1. Len(rows) \in Nat /\ Len(rows') \in Nat
    BY LenProperties DEF IInv, TypeOK, RowsKept
<1>2. Known \subseteq Known'
    BY <1>1 DEF Known, RowsKept
<1>3. /\ pending \in Seq(Known') /\ queue \in Seq(Known')
      /\ box \in Known' \cup {Nothing, Draft}
    BY <1>2, SeqMonotonic DEF IInv, AnswersKnown
<1>4. \A i \in 1 .. Len(rows) : Gone(i) => Gone(i)'
    BY <1>1 DEF Gone, RowsKept
<1>5. \A i \in Id, c \in Calls : IsFor(i, c) => IsFor(i, c)'
    BY <1>1 DEF IsFor, RowsKept
<1>6. \A i \in sent : i \in 1 .. Len(rows') /\ Gone(i)'
    BY <1>1, <1>4 DEF IInv, SentGone, RowsKept
<1>7. \A o \in offered : o \in Id \X Calls /\ IsFor(o[1], o[2])'
    <2>1. \A o \in offered : o \in Id \X Calls /\ IsFor(o[1], o[2])
        BY DEF IInv, TypeOK, OffersFor
    <2>. QED
        BY <2>1, <1>5
<1>. QED
    BY <1>1, <1>2, <1>3, <1>4, <1>5, <1>6, <1>7

------------------------------------------------------------------------------
(* What is offered is in the store, and for the station it is offered to.  *)
Offerable(i, c) == i = 0 \/ (IsFor(i, c) /\ rows[i].type = "STORE")

LEMMA LowestIsIn ==
    ASSUME NEW S, NEW i, i \in Lowest(S) \/ i \in First(S)
    PROVE  i = 0 \/ i \in S
BY DEF Lowest, First

LEMMA NextIsOfferable ==
    ASSUME TypeOK, NEW who \in Calls, NEW to \in {"me", "all"} \cup Groups, NEW from,
           NEW i \in NextFor(who, to, from)
    PROVE  Offerable(i, who)
<1>1. DOMAIN rows = 1 .. Len(rows)
    BY LenProperties DEF TypeOK
<1>2. \A c : \A j \in Stored(c) :
        j \in 1 .. Len(rows) /\ rows[j].type = "STORE" /\ rows[j].to = c
    BY <1>1 DEF Stored
<1>3. CASE to \in Groups /\ i \in First(GroupStored(to, from))
    <2>1. i = 0 \/ i \in GroupStored(to, from)
        BY <1>3, LowestIsIn
    <2>. QED
        BY <2>1, <1>2, <1>3 DEF Offerable, IsFor, GroupStored
<1>4. CASE i \in FirstOf(Stored(who), Stored(Base[who]))
    <2>1. i = 0 \/ i \in Stored(who) \/ i \in Stored(Base[who])
        BY <1>4, LowestIsIn DEF FirstOf
    <2>. QED
        BY <2>1, <1>2 DEF Offerable, IsFor
<1>. QED
    BY <1>3, <1>4 DEF NextFor

LEMMA LookaheadIsOfferable ==
    ASSUME TypeOK, NEW who \in Calls, NEW to \in {"me"} \cup Groups, NEW id \in DOMAIN rows,
           NEW i \in Lookahead(who, to, id)
    PROVE  Offerable(i, who)
<1>1. DOMAIN rows = 1 .. Len(rows) /\ \A j \in 1 .. Len(rows) : rows[j] \in Row
    BY LenProperties, ElementOfSeq DEF TypeOK
<1>2. \A c : \A j \in Stored(c) :
        j \in 1 .. Len(rows) /\ rows[j].type = "STORE" /\ rows[j].to = c
    BY <1>1 DEF Stored
<1>3. CASE i \in FirstOf(GroupStored(to, who) \ {id}, GroupStored(to, Base[who]) \ {id})
    <2>1. i = 0 \/ i \in Stored(to)
        BY <1>3, LowestIsIn DEF FirstOf, GroupStored
    <2>2. i \in Stored(to) => to \in Calls \cup Groups
        BY <1>1, <1>2 DEF Row
    <2>3. i \in Stored(to) => to \in Groups
        BY <2>2, CallsAssumption
    <2>. QED
        BY <2>1, <2>3, <1>2 DEF Offerable, IsFor
<1>4. CASE i \in FirstOf(Stored(who) \ {id}, Stored(Base[who]) \ {id})
    <2>1. i = 0 \/ i \in Stored(who) \/ i \in Stored(Base[who])
        BY <1>4, LowestIsIn DEF FirstOf
    <2>. QED
        BY <2>1, <1>2 DEF Offerable, IsFor
<1>. QED
    BY <1>3, <1>4 DEF Lookahead

------------------------------------------------------------------------------
(* The steps.  Each keeps the invariant, and offers nothing that is gone.  *)
NotAgain == Adds /\ Added.offer \in sent => rows[Added.offer].to \in Groups

LEMMA EnqueueStep ==
    ASSUME IInv, NEW a \in Known, Offerable(a.offer, a.to), Enqueue(a),
           UNCHANGED <<store, settings, box, sending, sent>>
    PROVE  IInv' /\ NotAgain
<1>1. Known' = Known /\ Len(rows) \in Nat
    BY LenProperties DEF Known, store, IInv, TypeOK
<1>2. a \in Answers
    BY DEF Known
<1>3. /\ pending' \in Seq(Answers) /\ queue' \in Seq(Answers)
      /\ pending' \in Seq(Known) /\ queue' \in Seq(Known)
    <2>1. /\ pending \in Seq(Answers) /\ queue \in Seq(Answers)
          /\ pending \in Seq(Known) /\ queue \in Seq(Known)
        BY DEF IInv, TypeOK, AnswersKnown
    <2>2. /\ Append(pending, a) \in Seq(Answers) /\ Append(queue, a) \in Seq(Answers)
          /\ Append(pending, a) \in Seq(Known) /\ Append(queue, a) \in Seq(Known)
        BY <1>2, <2>1, AppendProperties
    <2>3. CASE confirming
        BY <2>1, <2>2, <2>3 DEF Enqueue
    <2>4. CASE ~confirming
        BY <2>1, <2>2, <2>4 DEF Enqueue
    <2>. QED
        BY <2>3, <2>4
<1>4. offered' \subseteq Id \X Calls /\ \A o \in offered' : IsFor(o[1], o[2])
    <2>1. CASE offered' = offered
        BY <2>1 DEF IInv, TypeOK, OffersFor
    <2>2. CASE a.offer # 0 /\ offered' = {<<a.offer, a.to>>}
        <3>1. <<a.offer, a.to>> \in Id \X Calls
            BY <1>2, <2>2 DEF Answers, Id
        <3>2. IsFor(a.offer, a.to)
            BY <2>2 DEF Offerable
        <3>. QED
            BY <2>2, <3>1, <3>2
    <2>. QED
        BY <2>1, <2>2 DEF Enqueue
<1>5. TypeOK'
    BY <1>3, <1>4 DEF IInv, TypeOK, store, settings
<1>6. AnswersKnown' /\ ComposerMarked' /\ SentGone' /\ OffersFor'
    BY <1>1, <1>3, <1>4
    DEF IInv, AnswersKnown, ComposerMarked, SentGone, OffersFor, Gone, IsFor, store
<1>7. NotAgain
    <2>1. Adds => Added = a
        <3>1. /\ Len(Append(pending, a)) = Len(pending) + 1
              /\ Append(pending, a)[Len(pending) + 1] = a
              /\ Append(pending, a) # pending /\ Len(pending) \in Nat
            BY <1>2, AppendProperties, LenProperties DEF IInv, TypeOK
        <3>2. /\ Len(Append(queue, a)) = Len(queue) + 1
              /\ Append(queue, a)[Len(queue) + 1] = a
            BY <1>2, AppendProperties DEF IInv, TypeOK
        <3>. QED
            BY <3>1, <3>2 DEF Enqueue, Added, Last
    <2>2. a.offer \in sent => a.offer # 0 /\ Gone(a.offer)
        <3>1. sent \subseteq Id /\ SentGone
            BY DEF IInv, TypeOK
        <3>2. \A i \in Id : i # 0
            BY BoundsAssumption DEF Id
        <3>. QED
            BY <3>1, <3>2 DEF SentGone
    <2>. QED
        BY <2>1, <2>2 DEF NotAgain, Offerable, Gone
<1>. QED
    BY <1>5, <1>6, <1>7 DEF IInv

(* A step that only changes the store.                                     *)
LEMMA StoreStep ==
    ASSUME IInv, RowsKept, recipients' \subseteq Id \X Calls, old' \subseteq Id,
           UNCHANGED <<settings, pending, queue, box, sending, history>>
    PROVE  IInv' /\ NotAgain
<1>1. TypeOK'
    BY DEF IInv, TypeOK, RowsKept, settings, history
<1>2. AnswersKnown' /\ SentGone' /\ OffersFor'
    BY KeptRows DEF AnswersKnown, SentGone, OffersFor, history
<1>3. ComposerMarked'
    BY KeptRows, ComposerAssumption
    DEF IInv, TypeOK, ComposerMarked, AnswersKnown, Known
<1>4. NotAgain
    BY LenProperties DEF NotAgain, Adds, IInv, TypeOK
<1>. QED
    BY <1>1, <1>2, <1>3, <1>4 DEF IInv

(* A step of the answers waiting, of the composer and of the settings.     *)
LEMMA AirStep ==
    ASSUME IInv, UNCHANGED <<store, offered>>,
           autoreply' \in BOOLEAN, confirming' \in BOOLEAN, sending' \in BOOLEAN,
           pending' \in Seq(Known), queue' \in Seq(Known),
           Len(pending') + Len(queue') <= Len(pending) + Len(queue),
           box' \in {box, Nothing, Draft}, sending' => box' # Nothing,
           sent' \subseteq Id, \A i \in sent' : i \in 1 .. Len(rows) /\ Gone(i)
    PROVE  IInv' /\ NotAgain
<1>1. Known' = Known
    BY DEF Known, store
<1>2. Known \subseteq Answers
    BY DEF Known
<1>3. pending' \in Seq(Answers) /\ queue' \in Seq(Answers)
    BY <1>2, SeqMonotonic
<1>4. TypeOK'
    BY <1>3 DEF IInv, TypeOK, store
<1>5. AnswersKnown' /\ SentGone' /\ OffersFor'
    BY <1>1 DEF IInv, AnswersKnown, SentGone, OffersFor, Gone, IsFor, store
<1>6. ComposerMarked'
    BY ComposerAssumption DEF IInv, ComposerMarked, Gone, store
<1>7. NotAgain
    <2>1. /\ Len(pending) \in Nat /\ Len(queue) \in Nat
          /\ Len(pending') \in Nat /\ Len(queue') \in Nat
        BY LenProperties DEF IInv, TypeOK
    <2>. QED
        BY <2>1 DEF NotAgain, Adds
<1>. QED
    BY <1>4, <1>5, <1>6, <1>7 DEF IInv

(* The commands.                                                           *)
LEMMA CommandStep ==
    ASSUME IInv, Command
    PROVE  IInv' /\ NotAgain
<1>1. TypeOK /\ Len(rows) \in Nat /\ DOMAIN rows = 1 .. Len(rows) /\ Len(rows) <= MaxId
    BY LenProperties DEF IInv, TypeOK
<1>2. ASSUME NEW from \in Calls, NEW to \in Calls \cup Groups, MsgTo(from, to)
      PROVE  IInv' /\ NotAgain
    <2>. DEFINE a == Answer(from, 0, 0, FALSE)
    <2>1. (IF to \in Calls THEN Base[to] ELSE to) \in Calls \cup Groups
        BY CallsAssumption
    <2>2. RowsKept
        BY <1>1, <1>2, <2>1, StoringKeepsRows DEF MsgTo
    <2>3. a \in Answers /\ a.text = 0 /\ a.offer = 0
        BY DEF Answer, Answers
    <2>. HIDE DEF a
    <2>4. CASE NoReply
        BY <1>2, <2>2, <2>4, StoreStep
        DEF MsgTo, NoReply, Unchanged, history, IInv, TypeOK
    <2>5. CASE Enqueue(a)
        <3>1. a \in Known'
            <4>1. Len(rows') \in Nat
                BY <2>2, KeptRows
            <4>. QED
                BY <2>3, <4>1 DEF Known
        <3>2. offered' = offered
            BY <2>3, <2>5 DEF Enqueue
        <3>3. /\ pending' \in Seq(Known') /\ queue' \in Seq(Known')
              /\ pending' \in Seq(Answers) /\ queue' \in Seq(Answers)
            <4>1. /\ pending \in Seq(Known') /\ queue \in Seq(Known')
                  /\ pending \in Seq(Answers) /\ queue \in Seq(Answers)
                BY <2>2, KeptRows DEF IInv, TypeOK
            <4>2. /\ Append(pending, a) \in Seq(Answers) /\ Append(queue, a) \in Seq(Answers)
                  /\ Append(pending, a) \in Seq(Known') /\ Append(queue, a) \in Seq(Known')
                BY <2>3, <3>1, <4>1, AppendProperties
            <4>3. CASE confirming
                BY <2>5, <4>1, <4>2, <4>3 DEF Enqueue
            <4>4. CASE ~confirming
                BY <2>5, <4>1, <4>2, <4>4 DEF Enqueue
            <4>. QED
                BY <4>3, <4>4
        <3>4. TypeOK'
            BY <1>2, <2>2, <3>2, <3>3 DEF MsgTo, Unchanged, IInv, TypeOK, RowsKept, settings
        <3>5. AnswersKnown' /\ SentGone' /\ OffersFor'
            BY <1>2, <2>2, <3>2, <3>3, KeptRows
            DEF MsgTo, Unchanged, AnswersKnown, SentGone, OffersFor
        <3>6. ComposerMarked'
            BY <1>2, <2>2, KeptRows, ComposerAssumption
            DEF MsgTo, Unchanged, IInv, TypeOK, ComposerMarked, AnswersKnown, Known
        <3>7. NotAgain
            <4>1. /\ Len(Append(pending, a)) = Len(pending) + 1
                  /\ Append(pending, a)[Len(pending) + 1] = a
                  /\ Append(pending, a) # pending /\ Len(pending) \in Nat
                  /\ Len(Append(queue, a)) = Len(queue) + 1
                  /\ Append(queue, a)[Len(queue) + 1] = a
                <5>1. pending \in Seq(Answers) /\ queue \in Seq(Answers)
                    BY DEF IInv, TypeOK
                <5>. QED
                    BY <5>1, <2>3, AppendProperties, LenProperties
            <4>2. Added = a
                BY <2>5, <4>1 DEF Enqueue, Added, Last
            <4>. QED
                <5>1. sent \subseteq Id
                    BY DEF IInv, TypeOK
                <5>. QED
                    BY <5>1, <2>3, <4>2, BoundsAssumption DEF NotAgain, Id
        <3>. QED
            BY <3>4, <3>5, <3>6, <3>7 DEF IInv
    <2>. QED
        BY <1>2, <2>4, <2>5 DEF MsgTo, Reply, a
<1>3. ASSUME NEW who \in Calls, NEW to \in {"me"} \cup Groups, NEW id \in DOMAIN rows,
             QueryMsg(who, to, id)
      PROVE  IInv' /\ NotAgain
    <2>1. PICK next \in Lookahead(who, to, id) : Enqueue(Answer(who, id, next, FALSE))
        BY <1>3 DEF QueryMsg, Reply
    <2>2. Offerable(next, who)
        BY <1>1, LookaheadIsOfferable
    <2>3. /\ Answer(who, id, next, FALSE) \in Known
          /\ Answer(who, id, next, FALSE).offer = next
          /\ Answer(who, id, next, FALSE).to = who
        BY <1>1, <2>2, BoundsAssumption DEF Answer, Answers, Known, Offerable, IsFor, Id
    <2>. QED
        BY <1>3, <2>1, <2>2, <2>3, EnqueueStep DEF QueryMsg, Unchanged
<1>4. ASSUME NEW who \in Calls, NEW to \in {"me", "all"} \cup Groups, NEW from \in {who, Relay},
             QueryMsgs(who, to, from)
      PROVE  IInv' /\ NotAgain
    <2>1. PICK id \in NextFor(who, to, from) : Enqueue(Answer(who, 0, id, FALSE))
        BY <1>4 DEF QueryMsgs, Reply
    <2>2. Offerable(id, who)
        BY <1>1, NextIsOfferable
    <2>3. /\ Answer(who, 0, id, FALSE) \in Known
          /\ Answer(who, 0, id, FALSE).offer = id
          /\ Answer(who, 0, id, FALSE).to = who
        BY <1>1, <2>2, BoundsAssumption DEF Answer, Answers, Known, Offerable, IsFor, Id
    <2>. QED
        BY <1>4, <2>1, <2>2, <2>3, EnqueueStep DEF QueryMsgs, Unchanged
<1>5. ASSUME NEW who \in Calls, NEW to \in {"all"} \cup Groups, Heartbeat(who, to)
      PROVE  IInv' /\ NotAgain
    <2>1. PICK id \in NextFor(who, to, who) : Enqueue(Answer(who, 0, id, TRUE))
        BY <1>5 DEF Heartbeat
    <2>2. Offerable(id, who)
        BY <1>1, NextIsOfferable
    <2>3. /\ Answer(who, 0, id, TRUE) \in Known
          /\ Answer(who, 0, id, TRUE).offer = id
          /\ Answer(who, 0, id, TRUE).to = who
        BY <1>1, <2>2, BoundsAssumption DEF Answer, Answers, Known, Offerable, IsFor, Id
    <2>. QED
        BY <1>5, <2>1, <2>2, <2>3, EnqueueStep DEF Heartbeat, Unchanged
<1>. QED
    BY <1>2, <1>3, <1>4, <1>5 DEF Command

(* The answer that reaches the composer has its callback.                  *)
LEMMA ProcessTxQueueStep ==
    ASSUME IInv, ProcessTxQueue
    PROVE  IInv' /\ NotAgain
<1>1. PICK i \in DOMAIN queue :
        /\ queue' = RemoveAt(queue, i) /\ box' = queue[i]
        /\ sending' = (queue[i].anyway \/ autoreply)
        /\ Delivered(queue[i])
    BY DEF ProcessTxQueue
<1>a. PICK a : a = queue[i]
    OBVIOUS
<1>2. UNCHANGED <<settings, pending, history>>
    BY DEF ProcessTxQueue
<1>3. TypeOK /\ Len(rows) \in Nat /\ DOMAIN rows = 1 .. Len(rows)
    BY LenProperties DEF IInv, TypeOK
<1>4. a \in Known /\ a \in Answers
    BY <1>a, LenProperties, ElementOfSeq DEF IInv, AnswersKnown, Known
<1>5. a.to \in Calls /\ a.anyway \in BOOLEAN /\ (a.text # 0 => a.text \in 1 .. Len(rows))
    BY <1>3, <1>4 DEF Known, Answers
<1>6. /\ RowsKept /\ recipients' \subseteq Id \X Calls /\ old' \subseteq Id
      /\ a.text # 0 => Gone(a.text)'
    <2>1. CASE a.text = 0
        BY <1>1, <1>a, <1>3, <2>1, UnchangedKeepsRows DEF Delivered, store, TypeOK
    <2>2. CASE a.text # 0 /\ rows[a.text].to \in Groups
        <3>1. <<a.text, a.to>> \in Id \X Calls
            BY <1>3, <1>5, <2>2, BoundsAssumption DEF TypeOK, Id
        <3>2. recipients' = recipients \cup {<<a.text, a.to>>} /\ UNCHANGED <<rows, old>>
            BY <1>1, <1>a, <2>2 DEF Delivered
        <3>3. RowsKept /\ Gone(a.text)'
            BY <1>3, <2>2, <3>2, UnchangedKeepsRows DEF Gone
        <3>. QED
            BY <1>3, <3>1, <3>2, <3>3 DEF TypeOK
    <2>3. CASE a.text # 0 /\ rows[a.text].to \notin Groups /\ rows[a.text].type = "deleted"
        <3>1. UNCHANGED <<rows, recipients, old>>
            BY <1>1, <1>a, <2>3 DEF Delivered
        <3>2. RowsKept /\ Gone(a.text)'
            BY <1>3, <2>3, <3>1, UnchangedKeepsRows DEF Gone
        <3>. QED
            BY <1>3, <3>1, <3>2 DEF TypeOK
    <2>4. CASE a.text # 0 /\ rows[a.text].to \notin Groups /\ rows[a.text].type # "deleted"
        <3>1. rows' = [rows EXCEPT ![a.text].type = "DELIVERED"] /\ UNCHANGED <<recipients, old>>
            BY <1>1, <1>a, <2>4 DEF Delivered
        <3>2. RowsKept /\ rows'[a.text].type # "STORE"
            BY <1>3, <1>5, <2>4, <3>1, MarkingKeepsRows
        <3>. QED
            BY <1>3, <3>1, <3>2 DEF TypeOK, Gone
    <2>. QED
        BY <2>1, <2>2, <2>3, <2>4
<1>7. /\ queue' \in Seq(Known) /\ queue' \in Seq(Answers)
      /\ Len(queue') = Len(queue) - 1
    BY <1>1, Removed DEF IInv, TypeOK, AnswersKnown
<1>8. queue' \in Seq(Known')
    BY <1>6, <1>7, KeptRows, SeqMonotonic
<1>9. box' = a /\ sending' = (a.anyway \/ autoreply)
    BY <1>1, <1>a
<1>10. TypeOK'
    BY <1>2, <1>4, <1>5, <1>6, <1>7, <1>9 DEF IInv, TypeOK, RowsKept, settings, history
<1>11. AnswersKnown' /\ SentGone' /\ OffersFor'
    BY <1>2, <1>4, <1>6, <1>8, <1>9, KeptRows DEF AnswersKnown, SentGone, OffersFor, history
<1>12. ComposerMarked'
    BY <1>4, <1>6, <1>9, ComposerAssumption DEF ComposerMarked
<1>13. NotAgain
    <2>1. Len(pending) \in Nat /\ Len(queue) \in Nat
        BY LenProperties DEF IInv, TypeOK
    <2>. QED
        BY <1>2, <1>7, <2>1 DEF NotAgain, Adds
<1>. QED
    BY <1>10, <1>11, <1>12, <1>13 DEF IInv

(* Every step.                                                             *)
LEMMA StepIsGood ==
    ASSUME IInv, [Next]_vars
    PROVE  IInv' /\ NotAgain
<1>1. /\ TypeOK /\ AnswersKnown /\ ComposerMarked /\ SentGone /\ OffersFor
      /\ Len(rows) \in Nat /\ DOMAIN rows = 1 .. Len(rows)
      /\ Len(pending) \in Nat /\ Len(queue) \in Nat
      /\ Known \subseteq Answers
    BY LenProperties DEF IInv, TypeOK, Known
<1>2. CASE UNCHANGED vars
    <2>1. RowsKept
        BY <1>1, <1>2, UnchangedKeepsRows DEF vars, store
    <2>. QED
        BY <1>1, <1>2, <2>1, StoreStep DEF vars, store, TypeOK
<1>3. CASE Command
    BY <1>3, CommandStep
<1>4. CASE ProcessTxQueue
    BY <1>4, ProcessTxQueueStep
<1>5. CASE Confirm
    <2>1. PICK i \in DOMAIN pending :
            pending' = RemoveAt(pending, i) /\ queue' = Append(queue, pending[i])
        BY <1>5 DEF Confirm
    <2>2. pending[i] \in Known
        BY <1>1, <2>1, LenProperties, ElementOfSeq DEF AnswersKnown
    <2>3. pending' \in Seq(Known) /\ Len(pending') = Len(pending) - 1
        BY <1>1, <2>1, Removed DEF AnswersKnown
    <2>4. queue' \in Seq(Known) /\ Len(queue') = Len(queue) + 1
        BY <1>1, <2>1, <2>2, AppendProperties DEF AnswersKnown
    <2>. QED
        BY <1>1, <1>5, <2>3, <2>4, AirStep
        DEF Confirm, settings, history, TypeOK, ComposerMarked, SentGone
<1>6. CASE Reject
    <2>1. PICK i \in DOMAIN pending : pending' = RemoveAt(pending, i)
        BY <1>6 DEF Reject
    <2>2. pending' \in Seq(Known) /\ Len(pending') = Len(pending) - 1
        BY <1>1, <2>1, Removed DEF AnswersKnown
    <2>. QED
        BY <1>1, <1>6, <2>2, AirStep
        DEF Reject, settings, history, TypeOK, AnswersKnown, ComposerMarked, SentGone
<1>7. CASE Transmitted
    <2>1. sent' \subseteq Id /\ \A i \in sent' : i \in 1 .. Len(rows) /\ Gone(i)
        <3>1. CASE box = Draft \/ box.text = 0
            BY <1>1, <1>7, <3>1 DEF Transmitted, TypeOK, SentGone
        <3>2. CASE ~(box = Draft \/ box.text = 0)
            <4>1. box \in Known /\ box \in Answers
                BY <1>1, <1>7, <3>2 DEF Transmitted, ComposerMarked, AnswersKnown
            <4>2. box.text \in 1 .. Len(rows) /\ Gone(box.text)
                BY <1>1, <3>2, <4>1 DEF Known, ComposerMarked
            <4>3. box.text \in Id
                BY <1>1, <4>2, BoundsAssumption DEF TypeOK, Id
            <4>. QED
                BY <1>1, <1>7, <3>2, <4>2, <4>3 DEF Transmitted, TypeOK, SentGone
        <3>. QED
            BY <3>1, <3>2
    <2>2. UNCHANGED <<store, settings, pending, queue, offered>> /\ box' = Nothing /\ sending' = FALSE
        BY <1>7 DEF Transmitted
    <2>3. autoreply' \in BOOLEAN /\ confirming' \in BOOLEAN
        BY <1>1, <2>2 DEF settings, TypeOK
    <2>4. /\ pending' \in Seq(Known) /\ queue' \in Seq(Known)
          /\ Len(pending') + Len(queue') <= Len(pending) + Len(queue)
        BY <1>1, <2>2 DEF AnswersKnown
    <2>. QED
        BY <2>1, <2>2, <2>3, <2>4, AirStep
<1>8. CASE Halt \/ Type \/ Send \/ Clear
    <2>1. UNCHANGED <<store, settings, pending, queue, history>>
        BY <1>8 DEF Halt, Type, Send, Clear
    <2>2. box' \in {box, Nothing, Draft} /\ sending' \in BOOLEAN /\ (sending' => box' # Nothing)
        <3>1. sending \in BOOLEAN /\ (sending => box # Nothing)
            BY <1>1 DEF TypeOK, ComposerMarked
        <3>2. CASE Halt
            BY <3>2 DEF Halt
        <3>3. CASE Type
            BY <3>1, <3>3, ComposerAssumption DEF Type
        <3>4. CASE Send
            BY <3>4 DEF Send
        <3>5. CASE Clear
            BY <3>1, <3>5 DEF Clear
        <3>. QED
            BY <1>8, <3>2, <3>3, <3>4, <3>5
    <2>3. /\ autoreply' \in BOOLEAN /\ confirming' \in BOOLEAN
          /\ sent' \subseteq Id /\ \A i \in sent' : i \in 1 .. Len(rows) /\ Gone(i)
        BY <1>1, <2>1 DEF settings, history, TypeOK, SentGone
    <2>4. /\ pending' \in Seq(Known) /\ queue' \in Seq(Known)
          /\ Len(pending') + Len(queue') <= Len(pending) + Len(queue)
        BY <1>1, <2>1 DEF AnswersKnown
    <2>. QED
        BY <2>1, <2>2, <2>3, <2>4, AirStep DEF history
<1>9. CASE SwitchAutoreply \/ SwitchConfirmation
    <2>1. /\ UNCHANGED <<store, pending, queue, box, sending, history>>
          /\ autoreply' \in BOOLEAN /\ confirming' \in BOOLEAN
        BY <1>1, <1>9 DEF SwitchAutoreply, SwitchConfirmation, TypeOK
    <2>. QED
        BY <1>1, <2>1, AirStep DEF history, TypeOK, AnswersKnown, SentGone, ComposerMarked
<1>10. CASE StoreMessage
    <2>1. RowsKept
        BY <1>1, <1>10, StoringKeepsRows DEF StoreMessage
    <2>. QED
        BY <1>1, <1>10, <2>1, StoreStep DEF StoreMessage, TypeOK
<1>11. CASE DeleteMessage
    <2>1. RowsKept
        BY <1>1, <1>11, MarkingKeepsRows DEF DeleteMessage
    <2>. QED
        BY <1>1, <1>11, <2>1, StoreStep DEF DeleteMessage, TypeOK
<1>12. CASE TwoDaysPass
    <2>1. RowsKept
        BY <1>1, <1>12, UnchangedKeepsRows DEF TwoDaysPass
    <2>2. old' \subseteq Id
        <3>1. PICK i \in DOMAIN rows : old' = old \cup {i}
            BY <1>12 DEF TwoDaysPass
        <3>2. old \subseteq Id /\ Len(rows) <= MaxId
            BY <1>1 DEF TypeOK
        <3>3. i \in Id
            BY <1>1, <3>1, <3>2, BoundsAssumption DEF Id
        <3>. QED
            BY <3>1, <3>2, <3>3
    <2>. QED
        BY <1>1, <1>12, <2>1, <2>2, StoreStep DEF TwoDaysPass, TypeOK
<1>. QED
    BY <1>2, <1>3, <1>4, <1>5, <1>6, <1>7, <1>8, <1>9, <1>10, <1>11, <1>12
    DEF Next, Air, User

LEMMA InitIsGood ==
    ASSUME Init
    PROVE  IInv
<1>1. /\ << >> \in Seq(Row) /\ << >> \in Seq(Answers) /\ << >> \in Seq(Known)
      /\ Len(<< >>) = 0
    BY EmptySeq
<1>2. TypeOK
    <2>1. rows \in Seq(Row) /\ Len(rows) <= MaxId
        BY <1>1, BoundsAssumption DEF Init
    <2>. QED
        BY <1>1, <2>1 DEF Init, TypeOK
<1>3. AnswersKnown /\ SentGone /\ OffersFor
    BY <1>1 DEF Init, AnswersKnown, SentGone, OffersFor
<1>4. ComposerMarked
    BY ComposerAssumption DEF Init, ComposerMarked
<1>. QED
    BY <1>2, <1>3, <1>4 DEF IInv

(* The invariant holds in every reachable state.                           *)
LEMMA Inductive == Spec => []IInv
<1>1. Init => IInv
    BY InitIsGood
<1>2. IInv /\ [Next]_vars => IInv'
    BY StepIsGood
<1>. QED
    BY <1>1, <1>2, PTL DEF Spec

------------------------------------------------------------------------------
(* The store, the answers and the history are well typed.                  *)
THEOREM TypeCorrect == Spec => []TypeOK
<1>1. IInv => TypeOK
    BY DEF IInv
<1>. QED
    BY <1>1, Inductive, PTL

(* An id that was offered to a station may be fetched by it until the      *)
(* message is deleted.                                                     *)
THEOREM OffersCorrect == Spec => []OfferStands
<1>1. IInv => OfferStands
    BY LenProperties DEF IInv, TypeOK, OffersFor, IsFor, OfferStands, MayFetch
<1>. QED
    BY <1>1, Inductive, PTL

(* A message for a station that was transmitted is not offered again.      *)
THEOREM NotOfferedAgainCorrect == Spec => NotOfferedAgain
<1>1. IInv /\ [Next]_vars
        => [Adds /\ Added.offer \in sent => rows[Added.offer].to \in Groups]_vars
    BY StepIsGood DEF NotAgain
<1>. QED
    BY <1>1, Inductive, PTL DEF Spec, NotOfferedAgain
=============================================================================
