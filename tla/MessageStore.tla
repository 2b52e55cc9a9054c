---------------------------- MODULE MessageStore ----------------------------
(* Messages kept for other stations: the store in the inbox database       *)
(* (Inbox, addCommandToStorage), the commands that put messages into it,   *)
(* ask for them and fetch them (processCommandActivity), the answers on    *)
(* their way to the air (confirmThenEnqueueMessage, enqueueMessage,        *)
(* processTxQueue and the composer), and what the user and an API client   *)
(* do to them. The transmission of what is in the composer is one step;    *)
(* TxSequencer has its details. The order of the priority queue is left    *)
(* open, as are the conditions that make the station drop an answer or a   *)
(* heartbeat: an open message buffer, a selected callsign, lists of        *)
(* stations, the watchdog. The station's own inbox, messages without text, *)
(* the number of pending messages and the signal report are left out.      *)
EXTENDS Naturals, SequencesExt

CONSTANTS Calls,      \* callsigns of the stations that ask
          Base,       \* their base callsigns
          Groups,     \* groups this station takes part in
          Relay,      \* a station that passes on commands of others
          Nothing,    \* the empty composer
          Draft,      \* a text of the user in the composer
          MaxId,      \* bound on messages stored
          MaxQueue    \* bound on answers waiting

ASSUME CallsAssumption ==
    /\ Base \in [Calls -> Calls]
    /\ Calls \cap Groups = {}
    /\ "me" \notin Calls /\ "all" \notin Calls
ASSUME BoundsAssumption == MaxId \in Nat /\ MaxQueue \in Nat

VARIABLES
    rows,        \* the table inbox_v1, by id; deleted rows keep their place
    recipients,  \* inbox_group_recip_v1: pairs of an id and a callsign
    old,         \* ids of messages stored more than 48 hours ago
    autoreply,   \* actionModeAutoreply
    confirming,  \* autoreply_confirmation
    pending,     \* m_pendingConfirmations, in order of the request
    queue,       \* m_txMessageQueue
    box,         \* the text of the composer: an answer, a draft, or nothing
    sending,     \* the composer's text is being transmitted
    sent,        \* ids of messages whose text was transmitted
    offered      \* one of the offers made so far: an id, and to whom

store    == <<rows, recipients, old>>
settings == <<autoreply, confirming>>
history  == <<sent, offered>>
vars     == <<store, settings, pending, queue, box, sending, history>>

Id     == 1 .. MaxId
Row    == [type : {"STORE", "DELIVERED", "deleted"}, to : Calls \cup Groups]

(* An answer: to whom, the message whose text it holds, the message it     *)
(* offers (0 for none), and if it is sent without autoreply.               *)
Answer(to, text, offer, anyway) ==
    [to |-> to, text |-> text, offer |-> offer, anyway |-> anyway]
Answers == [to : Calls, text : {0} \cup Id, offer : {0} \cup Id, anyway : BOOLEAN]

ASSUME ComposerAssumption ==
    Nothing # Draft /\ Nothing \notin Answers /\ Draft \notin Answers

------------------------------------------------------------------------------
(* The database. Ids are given by AUTOINCREMENT: never twice.              *)

(* Mutant: the next id is taken from the rows that are there.              *)
WithRowReused(to) ==
    LET there == {i \in DOMAIN rows : rows[i].type # "deleted"}
        id == CHOOSE i \in 1 .. Len(rows) + 1 :
                (\A j \in there : j < i) /\ (i = 1 \/ i - 1 \in there)
    IN  IF id \in DOMAIN rows THEN [rows EXCEPT ![id] = [type |-> "STORE", to |-> to]]
                              ELSE Append(rows, [type |-> "STORE", to |-> to])

(* Inbox::append.                                                          *)
WithRow(to) == Append(rows, [type |-> "STORE", to |-> to])

Stored(to) == {i \in DOMAIN rows : rows[i].type = "STORE" /\ rows[i].to = to}

(* Messages of a group that a callsign has not been given, of 48 hours.    *)
GroupStored(group, call) ==
    {i \in Stored(group) \ old : <<i, call>> \notin recipients}

(* Mutant: one too many.                                                   *)
LowestAfter(s) == {i + 1 : i \in {j \in s : \A k \in s : j <= k}}

(* The lowest id of s or, if there is none, of t; 0 if there is none.      *)
Lowest(s) == {i \in s : \A j \in s : i <= j}
First(s) == IF s = {} THEN {0} ELSE Lowest(s)
FirstOf(s, t) == IF s = {} THEN First(t) ELSE Lowest(s)

(* getNextMessageIdForCallsign, getNextGroupMessageIdForCallsign: a        *)
(* message for the station or else one for the group that was called.      *)
NextFor(who, to, from) ==
    LET own == Stored(who) \cup Stored(Base[who])
    IN  IF own = {} /\ to \in Groups
          THEN First(GroupStored(to, from))
          ELSE FirstOf(Stored(who), Stored(Base[who]))

(* getLookaheadMessageIdForCallsign and its variant for groups.            *)
Lookahead(who, to, id) ==
    LET own == (Stored(who) \cup Stored(Base[who])) \ {id}
    IN  IF own = {} /\ rows[id].to \in Groups
          THEN FirstOf(GroupStored(to, who) \ {id}, GroupStored(to, Base[who]) \ {id})
          ELSE FirstOf(Stored(who) \ {id}, Stored(Base[who]) \ {id})

(* A message may be fetched by its receiver, one of a group by anybody.    *)
MayFetch(who, id) ==
    /\ id \in DOMAIN rows
    /\ rows[id].type # "deleted"
    /\ rows[id].to \in Groups \cup {who, Base[who]}

(* markMsgDelivered and markGroupMsgDeliveredForCallsign, the callback of  *)
(* an answer with a text. Updating a deleted row does nothing.             *)
Delivered(a) ==
    IF a.text = 0 THEN UNCHANGED store
    ELSE IF rows[a.text].to \in Groups
    THEN /\ recipients' = recipients \cup {<<a.text, a.to>>}
         /\ UNCHANGED <<rows, old>>
    ELSE /\ rows' = IF rows[a.text].type = "deleted" THEN rows
                    ELSE [rows EXCEPT ![a.text].type = "DELIVERED"]
         /\ UNCHANGED <<recipients, old>>

------------------------------------------------------------------------------
(* Commands received. An answer is dropped if there is text in the         *)
(* composer, or a message buffer open to this station; what the command    *)
(* has done before stays done.                                             *)
HasRoom == Len(pending) + Len(queue) < MaxQueue

(* confirmThenEnqueueMessage or enqueueMessage.                            *)
Enqueue(a) ==
    /\ offered' \in IF a.offer = 0 THEN {offered} ELSE {offered, {<<a.offer, a.to>>}}
    /\ IF confirming THEN pending' = Append(pending, a) /\ UNCHANGED queue
                     ELSE queue' = Append(queue, a) /\ UNCHANGED pending

Reply(a)  == box = Nothing /\ Enqueue(a)
NoReply   == UNCHANGED <<pending, queue, offered>>
Unchanged == UNCHANGED <<settings, box, sending, sent>>

(* MSG TO: to store a message, which is answered with an acknowledgement.  *)
MsgTo(from, to) ==
    /\ HasRoom /\ Len(rows) < MaxId
    /\ rows' = WithRow(IF to \in Calls THEN Base[to] ELSE to)
    /\ Reply(Answer(from, 0, 0, FALSE)) \/ NoReply
    /\ UNCHANGED <<recipients, old>> /\ Unchanged

(* QUERY MSG: the station who, heard directly or by a relay, asks for the  *)
(* text of a message; to is this station or a group.                       *)
QueryMsg(who, to, id) ==
    /\ HasRoom
    /\ MayFetch(who, id)
    /\ \E next \in Lookahead(who, to, id) : Reply(Answer(who, id, next, FALSE))
    /\ UNCHANGED store /\ Unchanged

(* QUERY MSGS: the station asks if there is a message; "no" is an answer,  *)
(* unless all stations were asked. The group is searched for the callsign  *)
(* that was heard.                                                         *)
QueryMsgs(who, to, from) ==
    /\ HasRoom /\ autoreply
    /\ \E id \in NextFor(who, to, from) :
        /\ ~(id = 0 /\ to = "all")
        /\ Reply(Answer(who, 0, id, FALSE))
    /\ UNCHANGED store /\ Unchanged

(* HB: a heartbeat is acknowledged, with an offer if there is a message,   *)
(* also when there is text in the composer.                                *)
Heartbeat(from, to) ==
    /\ HasRoom /\ autoreply
    /\ \E id \in NextFor(from, to, from) : Enqueue(Answer(from, 0, id, TRUE))
    /\ UNCHANGED store /\ Unchanged

Command ==
    \/ \E from \in Calls, to \in Calls \cup Groups : MsgTo(from, to)
    \/ \E who \in Calls :
        \/ \E to \in {"me"} \cup Groups, id \in DOMAIN rows : QueryMsg(who, to, id)
        \/ \E to \in {"me", "all"} \cup Groups, from \in {who, Relay} : QueryMsgs(who, to, from)
        \/ \E to \in {"all"} \cup Groups : Heartbeat(who, to)

------------------------------------------------------------------------------
(* Answers on their way to the air.                                        *)

(* STATION.AUTOREPLY_CONFIRM_RESPONSE, or the timer of the request.        *)
Confirm ==
    /\ \E i \in DOMAIN pending :
        /\ pending' = RemoveAt(pending, i)
        /\ queue' = Append(queue, pending[i])
    /\ UNCHANGED <<store, settings, box, sending, history>>

Reject ==
    /\ \E i \in DOMAIN pending : pending' = RemoveAt(pending, i)
    /\ UNCHANGED <<store, settings, queue, box, sending, history>>

(* Mutant: the callback runs only if the answer is sent at once.           *)
ProcessTxQueueCalling ==
    /\ box = Nothing /\ ~sending
    /\ \E i \in DOMAIN queue :
        /\ queue' = RemoveAt(queue, i)
        /\ box' = queue[i]
        /\ sending' = (queue[i].anyway \/ autoreply)
        /\ IF sending' THEN Delivered(queue[i]) ELSE UNCHANGED store
    /\ UNCHANGED <<settings, pending, history>>

(* processTxQueue: the answer becomes the text of the composer, and is     *)
(* sent at once if it may; the callback runs in either case.               *)
ProcessTxQueue ==
    /\ box = Nothing /\ ~sending
    /\ \E i \in DOMAIN queue :
        /\ queue' = RemoveAt(queue, i)
        /\ box' = queue[i]
        /\ sending' = (queue[i].anyway \/ autoreply)
        /\ Delivered(queue[i])
    /\ UNCHANGED <<settings, pending, history>>

(* The transmission ends.                                                  *)
Transmitted ==
    /\ sending
    /\ sending' = FALSE /\ box' = Nothing
    /\ sent' = IF box = Draft \/ box.text = 0 THEN sent
               ELSE sent \cup {box.text}
    /\ UNCHANGED <<store, settings, pending, queue, offered>>

------------------------------------------------------------------------------
(* The user, and a client of the API.                                      *)

(* The transmission is halted, which clears the composer.                  *)
Halt ==
    /\ sending
    /\ sending' = FALSE /\ box' = Nothing
    /\ UNCHANGED <<store, settings, pending, queue, history>>

(* A text is typed, sent, or removed.                                      *)
Type ==
    /\ box = Nothing /\ box' = Draft
    /\ UNCHANGED <<store, settings, pending, queue, sending, history>>

Send ==
    /\ box # Nothing /\ ~sending /\ sending' = TRUE
    /\ UNCHANGED <<store, settings, pending, queue, box, history>>

Clear ==
    /\ box # Nothing /\ ~sending /\ box' = Nothing
    /\ UNCHANGED <<store, settings, pending, queue, sending, history>>

SwitchAutoreply ==
    /\ autoreply' = ~autoreply
    /\ UNCHANGED <<store, confirming, pending, queue, box, sending, history>>

SwitchConfirmation ==
    /\ confirming' = ~confirming
    /\ UNCHANGED <<store, autoreply, pending, queue, box, sending, history>>

(* INBOX.STORE_MESSAGE, for the callsign as it was given.                  *)
StoreMessage ==
    /\ Len(rows) < MaxId
    /\ \E to \in Calls \cup Groups : rows' = WithRow(to)
    /\ UNCHANGED <<recipients, old, settings, pending, queue, box, sending, history>>

(* MessagePanel::deleteMessage.                                            *)
DeleteMessage ==
    /\ \E i \in DOMAIN rows :
        rows[i].type # "deleted" /\ rows' = [rows EXCEPT ![i].type = "deleted"]
    /\ UNCHANGED <<recipients, old, settings, pending, queue, box, sending, history>>

TwoDaysPass ==
    /\ \E i \in DOMAIN rows \ old : rows[i].to \in Groups /\ old' = old \cup {i}
    /\ UNCHANGED <<rows, recipients, settings, pending, queue, box, sending, history>>

------------------------------------------------------------------------------
Init ==
    /\ rows = <<>> /\ recipients = {} /\ old = {}
    /\ autoreply \in BOOLEAN /\ confirming \in BOOLEAN
    /\ pending = <<>> /\ queue = <<>>
    /\ box = Nothing /\ sending = FALSE
    /\ sent = {} /\ offered = {}

Air  == Confirm \/ Reject \/ ProcessTxQueue \/ Transmitted
User == \/ Halt \/ Type \/ Send \/ Clear \/ SwitchAutoreply \/ SwitchConfirmation
        \/ StoreMessage \/ DeleteMessage \/ TwoDaysPass
Next == Command \/ Air \/ User

Spec == Init /\ [][Next]_vars

------------------------------------------------------------------------------
TypeOK ==
    /\ rows \in Seq(Row) /\ Len(rows) <= MaxId
    /\ recipients \subseteq Id \X Calls
    /\ old \subseteq Id
    /\ autoreply \in BOOLEAN /\ confirming \in BOOLEAN
    /\ pending \in Seq(Answers)
    /\ queue \in Seq(Answers)
    /\ box \in Answers \cup {Nothing, Draft}
    /\ sending \in BOOLEAN
    /\ sent \subseteq Id
    /\ offered \subseteq Id \X Calls

(* What a station was offered it may fetch, however late it asks and       *)
(* whatever was stored, delivered or deleted in between: the id stands for *)
(* the same message as long as that is there.                              *)
OfferStands ==
    \A o \in offered : MayFetch(o[2], o[1]) \/ rows[o[1]].type = "deleted"

(* The answer that a step has added to those waiting.                      *)
Adds  == Len(pending') + Len(queue') > Len(pending) + Len(queue)
Added == IF pending' = pending THEN Last(queue') ELSE Last(pending')

(* A message for a station is not offered again after its text has been    *)
(* transmitted, by whatever way the answer went: "mark as delivered (so    *)
(* subsequent HBs and QUERY MSGS don't receive this message)".             *)
NotOfferedAgain ==
    [][Adds /\ Added.offer \in sent => rows[Added.offer].to \in Groups]_vars

(* The same for the messages of groups and the callsigns that have them.   *)
GroupNotOfferedAgain == [][Adds => <<Added.offer, Added.to>> \notin recipients]_vars

(* A message marked as delivered has been transmitted or is in the         *)
(* composer: the mark is to be made "in a callback after successful        *)
(* transmission".                                                          *)
DeliveredWasSent ==
    \A i \in DOMAIN rows : rows[i].type = "DELIVERED" =>
        \/ i \in sent
        \/ box \in Answers /\ box.text = i
=============================================================================
