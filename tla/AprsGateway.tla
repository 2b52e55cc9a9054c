---------------------------- MODULE AprsGateway ----------------------------
(* The gateway to APRS-IS: the client APRSISClient on the network thread,  *)
(* the GUI that configures it (prepareSpotting, the check box of the       *)
(* relay) and feeds it with spots, and AprsInboundRelay on the GUI thread, *)
(* which passes messages from APRS-IS on to stations heard on the air and  *)
(* acknowledges them.                                                      *)
(*                                                                         *)
(* GUI and client talk by queued signals, in order in each direction. The  *)
(* socket is Qt's: connectToHost does nothing unless unconnected, a write  *)
(* to a connected socket is buffered and does not fail, closing waits for  *)
(* unsent data. Frames and the entries of the duplicates' cache age in     *)
(* minutes, which also drive the client's timer. The text of frames, the   *)
(* passcode and the parsing of APRS lines are left out: every message has  *)
(* an identifier, as those that ask for an acknowledgement do.             *)
EXTENDS Naturals, SequencesExt

CONSTANTS Spots,          \* spot frames the GUI may report
          Messages,       \* messages the server has for stations heard here
          PacketTimeout,  \* minutes after which an unsent frame is dropped
          Window,         \* minutes during which a copy is a duplicate
          Settings,       \* the settings the user may choose
          MaxChanges,     \* bound on changes of the settings
          MaxCopies,      \* bound on copies of messages the server sends
          MaxDrops        \* bound on connections the server drops

ASSUME MinutesAssumption == PacketTimeout \in Nat /\ Window \in Nat
ASSUME BoundsAssumption == MaxChanges \in Nat /\ MaxCopies \in Nat /\ MaxDrops \in Nat
ASSUME SettingsAssumption ==
    Settings \subseteq [reporting : BOOLEAN, aprs : BOOLEAN, relay : BOOLEAN, server : BOOLEAN]

VARIABLES
    config,     \* the settings: reporting, APRS, relay, server
    calls,      \* queued signals of the GUI to the client
    received,   \* queued signals of the client to the GUI: messages
    localCall,  \* m_localCall and its passcode are set
    host,       \* m_host is not empty
    paused,     \* m_paused
    relay,      \* m_incomingRelayEnabled
    queue,      \* m_frameQueue
    tcp,        \* state of the socket, m_isLoggedIn, single shots of 5 seconds
                \* under way, and if the login asked the server for messages
    cache,      \* m_ackDedupCache: minutes since the entry of a message was made
    relayed,    \* minutes since a message was last put on the air
    fresh,      \* spots not reported yet
    changes, copies, drops

local   == <<localCall, host, paused>>
client  == <<local, relay, queue, tcp>>
inbound == <<cache, relayed>>
bounds  == <<changes, copies, drops>>
vars    == <<config, calls, received, client, inbound, fresh, bounds>>

Ack(m) == <<"ack", m>>
Spot(s) == <<"spot", s>>
Names  == {Spot(s) : s \in Spots} \cup {Ack(m) : m \in Messages}
Frame  == [name : Names, age : 0 .. PacketTimeout + 1]
Tcp    == [state : {"Unconnected", "Connecting", "Connected", "Closing"},
           loggedIn : BOOLEAN, filter : BOOLEAN, retries : Nat]

(* Queued signals; the argument of setLocalStation never changes.          *)
Signal(slot, arg) == [slot |-> slot, arg |-> arg]
Signals ==
    [slot : {"setLocalStation", "setServer", "setIncomingRelayEnabled", "setPaused"},
     arg : BOOLEAN]
    \cup [slot : {"enqueue"}, arg : Names]

(* A minute later. Ages beyond the limit are all the same, and the same as *)
(* no entry in the cache, which purges them.                               *)
Later(age, limit) == IF age > limit THEN age ELSE age + 1
LaterFrame(f)     == [f EXCEPT !.age = Later(@, PacketTimeout)]
LaterQueue        == [i \in DOMAIN queue |-> LaterFrame(queue[i])]

------------------------------------------------------------------------------
(* The client, on the network thread. What its slots do with the socket is *)
(* said of the socket t that the slot has left so far; r is the value of   *)
(* m_incomingRelayEnabled.                                                 *)

(* After the connection has ended.                                         *)
OnSocketDisconnected(t, r) ==
    [t EXCEPT !.state = "Unconnected", !.loggedIn = FALSE, !.filter = FALSE,
              !.retries = IF r THEN @ + 1 ELSE @]

(* disconnectFromHost: the socket waits for unsent data, or ends at once.  *)
Disconnected(t, r) == {[t EXCEPT !.state = "Closing"], OnSocketDisconnected(t, r)}

(* connectToHost warns and does nothing unless the socket is unconnected.  *)
ConnectToHost(t) == IF t.state = "Unconnected" THEN [t EXCEPT !.state = "Connecting"] ELSE t

(* Mutant: a frame is late one minute after the age at which it is counted *)
(* as such.                                                                *)
IsLateNever(f) == f.age > PacketTimeout + 1

IsLate(f) == f.age > PacketTimeout

(* What may be left of the queue q after a pass over it: some frames are   *)
(* put aside for a later pass, the others are written, or dropped if late. *)
Passed(q) ==
    {SelectSeq(q, LAMBDA f : f \in kept) : kept \in SUBSET {f \in ToSet(q) : ~IsLate(f)}}

(* Mutant: without a frame to send nothing is done, relay or not.          *)
ProcessQueueForFrames(q, disconnect, t, r) ==
    CASE ~localCall \/ q = <<>> ->
            queue' = q /\ tcp' = t
      [] localCall /\ q # <<>> /\ ~host ->
            queue' = <<>> /\ tcp' = t
      [] localCall /\ q # <<>> /\ host /\ ~(t.state = "Connected" /\ t.loggedIn) ->
            queue' = q /\ tcp' = ConnectToHost(t)
      [] OTHER ->
            /\ queue' \in Passed(q)
            /\ tcp' \in IF disconnect /\ ~r THEN Disconnected(t, r) ELSE {t}

(* processQueue on the queue q.                                            *)
ProcessQueue(q, disconnect, t, r) ==
    CASE ~localCall \/ (~r /\ q = <<>>) ->
            queue' = q /\ tcp' = t
      [] localCall /\ (r \/ q # <<>>) /\ ~host ->
            queue' = <<>> /\ tcp' = t
      [] localCall /\ (r \/ q # <<>>) /\ host /\ ~(t.state = "Connected" /\ t.loggedIn) ->
            queue' = q /\ tcp' = ConnectToHost(t)
      [] OTHER ->
            /\ queue' \in Passed(q)
            /\ tcp' \in IF disconnect /\ ~r THEN Disconnected(t, r) ELSE {t}

(* The signals of the GUI, handled in order.                               *)
Received(slot) == calls # <<>> /\ Head(calls).slot = slot /\ calls' = Tail(calls)

SetLocalStation ==
    /\ Received("setLocalStation")
    /\ localCall' = TRUE
    /\ UNCHANGED <<config, received, host, paused, relay, queue, tcp, inbound, fresh, bounds>>

SetServer ==
    /\ Received("setServer")
    /\ tcp' \in IF tcp.state = "Connected" THEN Disconnected(tcp, relay) ELSE {tcp}
    /\ host' = Head(calls).arg
    /\ UNCHANGED <<config, received, localCall, paused, relay, queue, inbound, fresh, bounds>>

SetPaused ==
    /\ Received("setPaused")
    /\ paused' = Head(calls).arg
    /\ UNCHANGED <<config, received, localCall, host, relay, queue, tcp, inbound, fresh, bounds>>

SetIncomingRelayEnabled ==
    /\ Received("setIncomingRelayEnabled")
    /\ relay' = Head(calls).arg
    /\ \/ /\ relay' # relay /\ relay' /\ ~paused
          /\ ProcessQueue(queue, FALSE, tcp, relay')
       \/ /\ relay' # relay /\ ~relay' /\ tcp.state = "Connected" /\ queue = <<>>
          /\ tcp' \in Disconnected(tcp, relay')
          /\ UNCHANGED queue
       \/ /\ relay' = relay \/ (relay' /\ paused)
             \/ (~relay' /\ ~(tcp.state = "Connected" /\ queue = <<>>))
          /\ UNCHANGED <<queue, tcp>>
    /\ UNCHANGED <<config, received, local, inbound, fresh, bounds>>

(* enqueueSpot and enqueueMessageAck: without a station the passcode is    *)
(* not valid and the frame is not taken.                                   *)
Enqueue ==
    /\ Received("enqueue")
    /\ queue' = IF localCall THEN Append(queue, [name |-> Head(calls).arg, age |-> 0]) ELSE queue
    /\ UNCHANGED <<config, received, local, relay, tcp, inbound, fresh, bounds>>

(* The timer of a minute: sendReports.                                     *)
SendReports ==
    /\ IF paused THEN queue' = LaterQueue /\ UNCHANGED tcp
                 ELSE ProcessQueue(LaterQueue, ~relay, tcp, relay)
    /\ cache' = [m \in Messages |-> Later(cache[m], Window)]
    /\ relayed' = [m \in Messages |-> Later(relayed[m], Window)]
    /\ UNCHANGED <<config, calls, received, local, relay, fresh, bounds>>

(* A connection is made: the login, with the filter only for a relay.      *)
OnSocketConnected ==
    /\ tcp.state = "Connecting"
    /\ ProcessQueue(queue, ~relay,
            [tcp EXCEPT !.state = "Connected", !.loggedIn = TRUE, !.filter = relay], relay)
    /\ UNCHANGED <<config, calls, received, local, relay, inbound, fresh, bounds>>

(* No connection is made; onSocketError only logs.                         *)
ConnectionFails ==
    /\ tcp.state = "Connecting"
    /\ tcp' = [tcp EXCEPT !.state = "Unconnected"]
    /\ UNCHANGED <<config, calls, received, local, relay, queue, inbound, fresh, bounds>>

(* The connection ends, because the client or the server closed it.        *)
ConnectionEnds ==
    /\ \/ tcp.state = "Closing" /\ UNCHANGED drops
       \/ tcp.state = "Connected" /\ drops < MaxDrops /\ drops' = drops + 1
    /\ tcp' = OnSocketDisconnected(tcp, relay)
    /\ UNCHANGED <<config, calls, received, local, relay, queue, inbound, fresh, changes, copies>>

(* A single shot of onSocketDisconnected.                                  *)
Reconnect ==
    /\ tcp.retries > 0
    /\ LET t == [tcp EXCEPT !.retries = @ - 1] IN
       IF relay /\ tcp.state # "Connected" THEN ProcessQueue(queue, FALSE, t, relay)
                                           ELSE tcp' = t /\ UNCHANGED queue
    /\ UNCHANGED <<config, calls, received, local, relay, inbound, fresh, bounds>>

(* onSocketReadyRead: a copy of a message the server sends, as far as the  *)
(* login asked it to.                                                      *)
OnSocketReadyRead ==
    /\ tcp.state = "Connected" /\ tcp.filter
    /\ copies < MaxCopies /\ copies' = copies + 1
    /\ \E m \in Messages : received' = Append(received, m)
    /\ UNCHANGED <<config, calls, client, inbound, fresh, changes, drops>>

------------------------------------------------------------------------------
(* The GUI.                                                                *)

AprsEnabled(c) == c.reporting /\ c.aprs
RelayWanted(c) == AprsEnabled(c) /\ c.relay

(* The signals of prepareSpotting.                                         *)
PrepareSpotting(c) ==
    IF c.reporting
    THEN (IF AprsEnabled(c)
          THEN <<Signal("setLocalStation", TRUE), Signal("setServer", c.server)>>
          ELSE <<>>)
         \o <<Signal("setIncomingRelayEnabled", RelayWanted(c)),
              Signal("setPaused", ~AprsEnabled(c))>>
    ELSE <<Signal("setPaused", TRUE), Signal("setIncomingRelayEnabled", FALSE)>>

(* The settings are accepted, or the spot button is clicked. The value of  *)
(* the relay's check box was taken when it was toggled.                    *)
AcceptSettings ==
    /\ changes < MaxChanges /\ changes' = changes + 1
    /\ config' \in {c \in Settings : c.relay = config.relay}
    /\ calls' = calls \o PrepareSpotting(config')
    /\ UNCHANGED <<received, client, inbound, fresh, copies, drops>>

(* The check box tells the client at once, before the dialog is accepted.  *)
OnEnableAprsRelayToggled ==
    /\ changes < MaxChanges /\ changes' = changes + 1
    /\ config' = [config EXCEPT !.relay = ~@]
    /\ calls' = Append(calls, Signal("setIncomingRelayEnabled", config'.relay))
    /\ UNCHANGED <<received, client, inbound, fresh, copies, drops>>

(* spotAprsGrid.                                                           *)
SpotAprs ==
    /\ AprsEnabled(config)
    /\ \E s \in fresh :
        /\ fresh' = fresh \ {s}
        /\ calls' = Append(calls, Signal("enqueue", Spot(s)))
    /\ UNCHANGED <<config, received, client, inbound, bounds>>

(* Mutant: the entry of the cache is purged when it is as old as Window.   *)
IsDuplicateBefore(m) == cache[m] < Window

IsDuplicate(m) == cache[m] <= Window

(* AprsInboundRelay::onMessageReceived. A message is refused if the relay  *)
(* is off, or its destination blocked, not heard or not heard for long.    *)
(* Any other copy is acknowledged; it is put on the air unless the cache   *)
(* holds an entry of at most Window minutes.                               *)

Refuse ==
    /\ received # <<>> /\ received' = Tail(received)
    /\ UNCHANGED <<config, calls, client, inbound, fresh, bounds>>

OnMessageReceived ==
    /\ received # <<>> /\ received' = Tail(received)
    /\ RelayWanted(config)
    /\ LET m == Head(received) IN
        /\ calls' = Append(calls, Signal("enqueue", Ack(m)))
        /\ IF IsDuplicate(m) THEN UNCHANGED inbound
           ELSE cache' = [cache EXCEPT ![m] = 0] /\ relayed' = [relayed EXCEPT ![m] = 0]
    /\ UNCHANGED <<config, client, fresh, bounds>>

------------------------------------------------------------------------------
(* The client is built with a server; the GUI starts by prepareSpotting.   *)
Init ==
    /\ config \in Settings
    /\ calls = PrepareSpotting(config)
    /\ received = <<>>
    /\ localCall = FALSE /\ host = TRUE /\ paused = FALSE /\ relay = FALSE
    /\ queue = <<>>
    /\ tcp = [state |-> "Unconnected", loggedIn |-> FALSE, filter |-> FALSE, retries |-> 0]
    /\ cache = [m \in Messages |-> Window + 1]
    /\ relayed = [m \in Messages |-> Window + 1]
    /\ fresh = Spots
    /\ changes = 0 /\ copies = 0 /\ drops = 0

Serve == SetLocalStation \/ SetServer \/ SetPaused \/ SetIncomingRelayEnabled \/ Enqueue
Socket == OnSocketConnected \/ ConnectionFails \/ ConnectionEnds \/ OnSocketReadyRead
Gui == AcceptSettings \/ OnEnableAprsRelayToggled \/ SpotAprs \/ Refuse \/ OnMessageReceived

Next == Serve \/ SendReports \/ Reconnect \/ Socket \/ Gui

Spec == Init /\ [][Next]_vars

(* The threads serve what is queued to them, the timer fires each minute,  *)
(* a closing socket ends, and the network lets a connection be made if it  *)
(* is tried again and again.                                               *)
Fairness ==
    /\ WF_vars(Serve)
    /\ WF_vars(Refuse \/ OnMessageReceived)
    /\ WF_vars(SendReports)
    /\ WF_vars(tcp.state = "Closing" /\ ConnectionEnds)
    /\ SF_vars(OnSocketConnected)

FairSpec == Spec /\ Fairness

------------------------------------------------------------------------------
TypeOK ==
    /\ config \in [reporting : BOOLEAN, aprs : BOOLEAN, relay : BOOLEAN, server : BOOLEAN]
    /\ calls \in Seq(Signals)
    /\ received \in Seq(Messages)
    /\ localCall \in BOOLEAN /\ host \in BOOLEAN /\ paused \in BOOLEAN /\ relay \in BOOLEAN
    /\ queue \in Seq(Frame)
    /\ tcp \in Tcp
    /\ cache \in [Messages -> 0 .. Window + 1]
    /\ relayed \in [Messages -> 0 .. Window + 1]
    /\ fresh \subseteq Spots
    /\ changes \in 0 .. MaxChanges /\ copies \in 0 .. MaxCopies /\ drops \in 0 .. MaxDrops

InQueue(n) == \E i \in DOMAIN queue : queue[i].name = n

(* However the settings are changed and connections are lost, once the     *)
(* relay stays on the client is logged in again and again: no order of the *)
(* signals, the single shots and the socket's events leaves it without a   *)
(* further attempt.                                                        *)
RelayWorks == relay /\ ~paused /\ localCall /\ host
RelayReconnects == <>[]RelayWorks => []<>(tcp.state = "Connected" /\ tcp.loggedIn)

(* A frame does not stay in the queue of a client that is not paused: a    *)
(* pass that keeps it back is followed by another connection, until it is  *)
(* written or is late.                                                     *)
FramesLeave == <>[](~paused /\ localCall) => \A n \in Names : []<>~InQueue(n)

(* A message is put on the air again only if more than Window minutes have *)
(* gone by, however many copies arrive over however many connections.      *)
RelaysAreApart ==
    [][\A m \in Messages :
        relayed'[m] < relayed[m] => relayed[m] > Window]_vars

(* A client that relays and is logged in has asked the server for          *)
(* messages: "When enabled, the client keeps an active connection so       *)
(* inbound APRS messages can be received and relayed."                     *)
RelayListens == relay /\ tcp.state = "Connected" /\ tcp.loggedIn => tcp.filter
=============================================================================
