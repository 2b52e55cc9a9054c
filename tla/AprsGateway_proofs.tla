------------------------- MODULE AprsGateway_proofs -------------------------
(* Proofs about the inbound relay of the APRS-IS gateway, for all messages, *)
(* windows, settings and losses of the connection: what its cache of        *)
(* duplicates knows, and how far two transmissions of a message are apart.  *)
EXTENDS AprsGateway, TLAPS

-----------------------------------------------------------------------------
(* The cache knows when each message was last put on the air, up to the    *)
(* window, beyond which the ages are all the same.                         *)
Ages == [Messages -> 0 .. Window + 1]

CacheKnows == cache \in Ages /\ relayed = cache

LEMMA LaterIs ==
    ASSUME NEW age \in 0 .. Window + 1
    PROVE  Later(age, Window) \in 0 .. Window + 1 /\ Later(age, Window) >= age
BY MinutesAssumption DEF Later

LEMMA AgedIs ==
    ASSUME NEW f \in Ages
    PROVE  [m \in Messages |-> Later(f[m], Window)] \in Ages
<1>1. ASSUME NEW m \in Messages PROVE Later(f[m], Window) \in 0 .. Window + 1
    BY LaterIs DEF Ages
<1>. QED
    BY <1>1 DEF Ages

LEMMA InitKnows ==
    ASSUME Init
    PROVE  CacheKnows
<1>1. Window + 1 \in 0 .. Window + 1
    BY MinutesAssumption
<1>. QED
    BY <1>1 DEF Init, CacheKnows, Ages

(* Only the timer and the relay touch the cache.                           *)
LEMMA InboundSteps ==
    ASSUME [Next]_vars
    PROVE  SendReports \/ OnMessageReceived \/ UNCHANGED inbound
BY DEF Next, vars, Serve, Socket, Gui, SetLocalStation, SetServer, SetPaused,
       SetIncomingRelayEnabled, Enqueue, Reconnect, OnSocketConnected, ConnectionFails,
       ConnectionEnds, OnSocketReadyRead, AcceptSettings, OnEnableAprsRelayToggled, SpotAprs,
       Refuse

(* Ages grow together, and start again together, for a message of which no *)
(* entry of at most Window minutes is left.                                *)
LEMMA StepKnows ==
    ASSUME CacheKnows, [Next]_vars
    PROVE  /\ CacheKnows'
           /\ \A m \in Messages : relayed'[m] < relayed[m] => relayed[m] > Window
<1>1. \A m \in Messages : cache[m] \in 0 .. Window + 1 /\ relayed[m] = cache[m]
    BY DEF CacheKnows, Ages
<1>2. CASE SendReports
    <2>1. /\ cache' = [m \in Messages |-> Later(cache[m], Window)]
          /\ relayed' = [m \in Messages |-> Later(relayed[m], Window)]
        BY <1>2 DEF SendReports
    <2>2. CacheKnows'
        BY <2>1, AgedIs DEF CacheKnows
    <2>3. ASSUME NEW m \in Messages PROVE ~(relayed'[m] < relayed[m])
        <3>1. relayed'[m] = Later(relayed[m], Window)
            BY <2>1
        <3>. QED
            BY <1>1, <3>1, LaterIs, MinutesAssumption DEF Later
    <2>. QED
        BY <2>2, <2>3
<1>3. CASE OnMessageReceived
    <2>. DEFINE m == Head(received)
    <2>1. CASE IsDuplicate(m)
        BY <1>1, <1>3, <2>1, MinutesAssumption DEF OnMessageReceived, inbound, CacheKnows
    <2>2. CASE ~IsDuplicate(m)
        <3>1. cache' = [cache EXCEPT ![m] = 0] /\ relayed' = [relayed EXCEPT ![m] = 0]
            BY <1>3, <2>2 DEF OnMessageReceived
        <3>2. 0 \in 0 .. Window + 1
            BY MinutesAssumption
        <3>3. CacheKnows'
            BY <3>1, <3>2 DEF CacheKnows, Ages
        <3>4. ASSUME NEW k \in Messages, relayed'[k] < relayed[k]
              PROVE  relayed[k] > Window
            <4>1. k = m
                BY <1>1, <3>1, <3>4, MinutesAssumption DEF CacheKnows, Ages
            <4>. QED
                BY <1>1, <2>2, <4>1, MinutesAssumption DEF IsDuplicate
        <3>. QED
            BY <3>3, <3>4
    <2>. QED
        BY <2>1, <2>2
<1>4. CASE UNCHANGED inbound
    BY <1>1, <1>4, MinutesAssumption DEF inbound, CacheKnows
<1>. QED
    BY <1>2, <1>3, <1>4, InboundSteps

LEMMA KnowsInductive == Spec => []CacheKnows
<1>1. Init => CacheKnows
    BY InitKnows
<1>2. CacheKnows /\ [Next]_vars => CacheKnows'
    BY StepKnows
<1>. QED
    BY <1>1, <1>2, PTL DEF Spec

(* A message is put on the air again only if more than Window minutes have *)
(* gone by, however many copies arrive over however many connections.      *)
THEOREM RelaysCorrect == Spec => RelaysAreApart
<1>1. CacheKnows /\ [Next]_vars
        => [\A m \in Messages : relayed'[m] < relayed[m] => relayed[m] > Window]_vars
    BY StepKnows
<1>. QED
    BY <1>1, KnowsInductive, PTL DEF Spec, RelaysAreApart
=============================================================================
