----------------------------- MODULE MqttClient -----------------------------
(***************************************************************************)
(* The MQTT client library (Adafruit_MQTT.cpp, Adafruit_MQTT_Client.cpp)   *)
(* and the broker it talks to.                                             *)
(*                                                                         *)
(* The client is one thread: a call of the application sends a packet and, *)
(* for most calls, waits for an answer; pc says for which.  What comes in  *)
(* meanwhile is whatever the broker put into the connection: answers to    *)
(* earlier calls that were given up, and messages.  Packets are whole      *)
(* here: how readFullPacket cuts them out of the byte stream is left out.  *)
(*                                                                         *)
(* The broker and the TCP connection are external.  The connection may be  *)
(* lost at any time, and with it all that is in flight; the broker answers *)
(* in order, when it pleases, and may refuse the session or a              *)
(* subscription.  A write to it may fail: then nothing of the packet is    *)
(* sent, and the call goes on as sendPacket's result tells it to.          *)
(***************************************************************************)
EXTENDS Integers, Sequences

CONSTANTS
    Subs,              \* subscription objects, each with its own topic
    Qos1Subs,          \* those with QoS 1
    MAXSUBSCRIPTIONS,  \* slots of the subscription table
    NoSub,             \* an empty slot
    ID_MOD,            \* packet identifiers: packet_id_counter is a uint16_t
    RETRIES,           \* attempts to subscribe: 3
    MaxIds,            \* bound: packet identifiers used
    MaxPings,          \* bound: attempts of one ping call
    MaxQueue,          \* bound: packets in flight in one direction
    MaxFlow            \* bound: packets in flight when the broker sends a message

ASSUME MqttAssumption ==
    /\ Qos1Subs \subseteq Subs
    /\ NoSub \notin Subs
    /\ MAXSUBSCRIPTIONS \in Nat /\ MaxPings \in Nat /\ RETRIES \in Nat \ {0}
    /\ ID_MOD \in Nat /\ MaxIds \in Nat /\ MaxIds < ID_MOD
    /\ MaxQueue \in Nat /\ MaxFlow \in Nat /\ MaxFlow < MaxQueue

VARIABLES
    slots,      \* subscriptions
    counter,    \* packet_id_counter
    pc,         \* the packet the call in progress waits for, or "idle"
    slot,       \* index of the subscription connect or unsubscribe works on
    left,       \* attempts the call in progress has left
    ret,        \* the call that returned last and its result
    link,       \* client->connected()
    c2b, b2c,   \* packets in flight to the broker and to the client
    session,    \* the broker accepted a CONNECT on this connection
    granted,    \* subscriptions the broker granted in this session
    refused,    \* subscriptions the broker refused in this session
    got,        \* the broker took the message with the last identifier
    ponged      \* the broker answered a ping of this connection

ids    == <<counter, got>>
client == <<slots, pc, slot, left, ret>>
broker == <<session, granted, refused, ponged>>
vars   == <<client, ids, link, c2b, b2c, broker>>

Slots == 1 .. MAXSUBSCRIPTIONS

\* A packet: its type, a number (packet identifier, return code, or the QoS
\* of a message of the broker), and the subscription it is about.
NoId == -1
Pkt(type, id, sub) == [type |-> type, id |-> id, sub |-> sub]

\* Bytes of an UNSUBACK.
UNSUBACK_LEN == 4

Init ==
    /\ slots = [i \in Slots |-> NoSub]
    /\ counter = 0
    /\ pc = "idle" /\ slot = 0 /\ left = 0
    /\ ret = [op |-> "none", val |-> 0]
    /\ link = FALSE /\ c2b = <<>> /\ b2c = <<>>
    /\ session = FALSE /\ granted = {} /\ refused = {}
    /\ got = FALSE /\ ponged = FALSE

-----------------------------------------------------------------------------
(* Parts of calls.                                                         *)

Return(op, val) ==
    /\ ret' = [op |-> op, val |-> val]
    /\ pc' = "idle" /\ slot' = 0 /\ left' = 0

\* The C++ bool a call returns.
TRUTH == 1
FALSITY == 0

\* sendPacket: it finds a connection and the write is not short.
Send(p) == link /\ c2b' = Append(c2b, p)

\* sendPacket returns false.
NotSent == UNCHANGED c2b

\* packet_id_counter++
NewId == counter' = (counter + 1) % ID_MOD /\ got' = FALSE

\* The connection is gone, and what was in flight and in the session with it.
Gone ==
    /\ c2b' = <<>> /\ b2c' = <<>>
    /\ session' = FALSE /\ granted' = {} /\ refused' = {} /\ ponged' = FALSE

\* The call in progress may try once more.
Again == left > 0

\* The next packet is read from the stream.
Bug_Read(type) == link /\ b2c # <<>> /\ b2c' = Tail(b2c)
Read(type) == link /\ b2c # <<>> /\ Head(b2c).type = type /\ b2c' = Tail(b2c)
Bug_ReadOther(type) == link /\ b2c # <<>> /\ b2c' = Tail(b2c)
ReadOther(type) ==
    /\ link /\ b2c # <<>> /\ Head(b2c).type # type /\ b2c' = Tail(b2c)

\* handleSubscriptionPacket: find the subscription of a message and answer a
\* message of QoS 1.  A message nobody subscribed to is dropped.
SlotsOf(s) == {i \in Slots : slots[i] = s}
First(S) == CHOOSE i \in S : \A j \in S : i <= j

Matches(p) == p.type = "PUBLISH" /\ SlotsOf(p.sub) # {}

HandleSubscriptionPacket(p) ==
    IF Matches(p) /\ p.id = 1
    THEN \/ Len(c2b) < MaxQueue /\ Send(Pkt("PUBACK", NoId, p.sub))
         \/ NotSent
    ELSE UNCHANGED c2b

\* processPacketsUntil: read a packet that is not the one waited for.
PassOver(type) ==
    /\ ReadOther(type)
    /\ HandleSubscriptionPacket(Head(b2c))
    /\ UNCHANGED <<client, ids, link, broker>>

-----------------------------------------------------------------------------
(* connect                                                                 *)

Defined(i) == {j \in Slots : j > i /\ slots[j] # NoSub}

\* The subscription loop goes on after slot i: to the next one defined, for
\* which it has RETRIES attempts, or to its end.  A SUBSCRIBE that is not sent
\* ends the call.
SubscribeAfter(i) ==
    IF Defined(i) = {}
    THEN /\ Return("connect", 0)
         /\ UNCHANGED <<slots, ids, c2b>>
    ELSE LET j == First(Defined(i)) IN
         /\ NewId /\ UNCHANGED slots
         /\ \/ /\ Send(Pkt("SUBSCRIBE", counter, slots[j]))
               /\ pc' = "SUBACK" /\ slot' = j /\ left' = RETRIES - 1
               /\ UNCHANGED ret
            \/ NotSent /\ Return("connect", -1)

ConnectFails ==
    /\ pc = "idle"
    /\ Return("connect", -1)
    /\ link' = FALSE /\ Gone
    /\ UNCHANGED <<slots, ids>>

Connect ==
    /\ pc = "idle" /\ counter + RETRIES * MAXSUBSCRIPTIONS <= MaxIds
    /\ link' = TRUE
    /\ session' = FALSE /\ granted' = {} /\ refused' = {} /\ ponged' = FALSE
    /\ b2c' = <<>>
    /\ \/ /\ c2b' = <<Pkt("CONNECT", NoId, NoSub)>>
          /\ pc' = "CONNACK"
          /\ UNCHANGED <<slot, left, ret>>
       \/ c2b' = <<>> /\ Return("connect", -1)
    /\ UNCHANGED <<slots, ids>>

ConnackAccepted ==
    /\ pc = "CONNACK" /\ Read("CONNACK") /\ Head(b2c).id = 0
    /\ SubscribeAfter(0)
    /\ UNCHANGED <<link, broker>>

ConnackRefused ==
    /\ pc = "CONNACK" /\ Read("CONNACK") /\ Head(b2c).id # 0
    /\ Return("connect", Head(b2c).id)
    /\ UNCHANGED <<slots, ids, link, c2b, broker>>

\* Any SUBACK will do, also one for an earlier attempt or an earlier slot, and
\* one that says the subscription was refused.
Suback ==
    /\ pc = "SUBACK"
    /\ \/ Read("SUBACK") /\ SubscribeAfter(slot) /\ UNCHANGED <<link, broker>>
       \/ PassOver("SUBACK")

ConnectTimeout ==
    \/ /\ pc = "CONNACK" /\ Return("connect", -1)
       /\ UNCHANGED <<slots, ids, link, c2b, b2c, broker>>
    \/ /\ pc = "SUBACK" /\ Again /\ link
       /\ Send(Pkt("SUBSCRIBE", counter, slots[slot]))
       /\ NewId /\ left' = left - 1
       /\ UNCHANGED <<slots, pc, slot, ret, link, b2c, broker>>
    \/ /\ pc = "SUBACK" /\ Again /\ NotSent /\ Return("connect", -1)
       /\ NewId
       /\ UNCHANGED <<slots, link, b2c, broker>>
    \/ /\ pc = "SUBACK" /\ ~Again /\ Return("connect", -2)
       /\ UNCHANGED <<slots, ids, link, c2b, b2c, broker>>

Disconnect ==
    /\ pc = "idle"
    /\ Return("disconnect", TRUTH)
    /\ link' = FALSE /\ Gone
    /\ UNCHANGED <<slots, ids>>

-----------------------------------------------------------------------------
(* publish                                                                 *)

\* QoS 0: sent is published.
Publish0 ==
    /\ pc = "idle" /\ Len(c2b) < MaxQueue
    /\ \/ Send(Pkt("PUBLISH", NoId, NoSub)) /\ Return("publish0", TRUTH)
       \/ NotSent /\ Return("publish0", FALSITY)
    /\ UNCHANGED <<slots, ids, link, b2c, broker>>

\* The identifier is used up whether or not the packet could be sent.
Publish1 ==
    /\ pc = "idle" /\ Len(c2b) < MaxQueue /\ counter < MaxIds
    /\ NewId
    /\ \/ /\ Send(Pkt("PUBLISH", counter, NoSub))
          /\ pc' = "PUBACK"
          /\ UNCHANGED <<slot, left, ret>>
       \/ NotSent /\ Return("publish1", FALSITY)
    /\ UNCHANGED <<slots, link, b2c, broker>>

\* One packet is read, whatever it is; the counter was incremented since.
Bug_Confirms(p) == p.type = "PUBACK"
Confirms(p) == p.type = "PUBACK" /\ (p.id + 1) % ID_MOD = counter

Puback ==
    /\ pc = "PUBACK" /\ link /\ b2c # <<>>
    /\ b2c' = Tail(b2c)
    /\ Return("publish1", IF Confirms(Head(b2c)) THEN TRUTH ELSE FALSITY)
    /\ UNCHANGED <<slots, ids, link, c2b, broker>>

PublishTimeout ==
    /\ pc = "PUBACK" /\ Return("publish1", FALSITY)
    /\ UNCHANGED <<slots, ids, link, c2b, b2c, broker>>

-----------------------------------------------------------------------------
(* subscribe, unsubscribe                                                  *)

Free == {i \in Slots : slots[i] = NoSub}

\* subscribe only enters the table; connect tells the broker.
Subscribe(s) ==
    /\ pc = "idle"
    /\ IF SlotsOf(s) # {} THEN UNCHANGED slots /\ Return("subscribe", TRUTH)
       ELSE IF Free # {}
       THEN /\ slots' = [slots EXCEPT ![First(Free)] = s]
            /\ Return("subscribe", TRUTH)
       ELSE UNCHANGED slots /\ Return("subscribe", FALSITY)
    /\ UNCHANGED <<ids, link, c2b, b2c, broker>>

\* What unsubscribe sends for a subscription in the table.
Bug_Unsubscribing(s) == UNCHANGED c2b
Unsubscribing(s) == Send(Pkt("UNSUBSCRIBE", counter, s))

Unsubscribe(s) ==
    /\ pc = "idle" /\ Len(c2b) < MaxQueue /\ counter < MaxIds
    /\ \/ /\ SlotsOf(s) = {}
          /\ Return("unsubscribe", TRUTH)
          /\ UNCHANGED <<slots, ids, c2b>>
       \/ /\ SlotsOf(s) # {} /\ NotSent
          /\ NewId
          /\ Return("unsubscribe", FALSITY)
          /\ UNCHANGED slots
       \/ /\ SlotsOf(s) # {} /\ link /\ s \notin Qos1Subs
          /\ Unsubscribing(s) /\ NewId
          /\ slots' = [slots EXCEPT ![First(SlotsOf(s))] = NoSub]
          /\ Return("unsubscribe", TRUTH)
       \/ /\ SlotsOf(s) # {} /\ link /\ s \in Qos1Subs
          /\ Unsubscribing(s) /\ NewId
          /\ pc' = "UNSUBACK" /\ slot' = First(SlotsOf(s))
          /\ UNCHANGED <<slots, left, ret>>
    /\ UNCHANGED <<link, b2c, broker>>

\* One packet is read; it confirms if it is an UNSUBACK of five bytes.
Unsuback ==
    /\ pc = "UNSUBACK" /\ link /\ b2c # <<>>
    /\ b2c' = Tail(b2c)
    /\ IF Head(b2c).type = "UNSUBACK" /\ UNSUBACK_LEN = 5
       THEN /\ slots' = [slots EXCEPT ![slot] = NoSub]
            /\ Return("unsubscribe", TRUTH)
       ELSE UNCHANGED slots /\ Return("unsubscribe", FALSITY)
    /\ UNCHANGED <<ids, link, c2b, broker>>

UnsubscribeTimeout ==
    /\ pc = "UNSUBACK" /\ Return("unsubscribe", FALSITY)
    /\ UNCHANGED <<slots, ids, link, c2b, b2c, broker>>

-----------------------------------------------------------------------------
(* ping, readSubscription                                                  *)

\* num attempts, of which the last may still be sent when the ones before were not.
Ping(num) ==
    /\ pc = "idle" /\ Len(c2b) < MaxQueue
    /\ \/ /\ Send(Pkt("PINGREQ", NoId, NoSub))
          /\ pc' = "PINGRESP" /\ left' \in 0 .. num - 1
          /\ UNCHANGED <<slot, ret>>
       \/ NotSent /\ Return("ping", FALSITY)
    /\ UNCHANGED <<slots, ids, link, b2c, broker>>

Pingresp ==
    /\ pc = "PINGRESP"
    /\ \/ /\ Read("PINGRESP") /\ Return("ping", TRUTH)
          /\ UNCHANGED <<slots, ids, link, c2b, broker>>
       \/ PassOver("PINGRESP")

PingTimeout ==
    /\ pc = "PINGRESP"
    /\ \/ /\ Again /\ Len(c2b) < MaxQueue
          /\ Send(Pkt("PINGREQ", NoId, NoSub))
          /\ left' \in 0 .. left - 1
          /\ UNCHANGED <<pc, slot, ret>>
       \/ NotSent /\ Return("ping", FALSITY)
    /\ UNCHANGED <<slots, ids, link, b2c, broker>>

\* readSubscription, which processPackets repeats: the subscription whose
\* message was read, or none.  A read that runs into its timeout changes
\* nothing.
ReadSubscription ==
    /\ pc = "idle" /\ link /\ b2c # <<>>
    /\ b2c' = Tail(b2c)
    /\ HandleSubscriptionPacket(Head(b2c))
    /\ Return("read", IF Matches(Head(b2c)) THEN First(SlotsOf(Head(b2c).sub))
                                            ELSE 0)
    /\ UNCHANGED <<slots, ids, link, broker>>

-----------------------------------------------------------------------------
(* The broker and the network.                                             *)

Answer(p) == b2c' = Append(b2c, p)

Lost == link /\ link' = FALSE /\ Gone /\ UNCHANGED <<client, ids>>

\* The broker takes a packet.  It closes the connection on a packet it does
\* not accept; Lost stands for that, as for every other loss.
BrokerConnect(code) ==
    /\ Head(c2b).type = "CONNECT"
    /\ session' = (code = 0)
    /\ Answer(Pkt("CONNACK", code, NoSub))
    /\ UNCHANGED <<granted, refused, got, ponged>>

BrokerSubscribe(ok) ==
    /\ Head(c2b).type = "SUBSCRIBE" /\ session
    /\ granted' = IF ok THEN granted \cup {Head(c2b).sub} ELSE granted
    /\ refused' = IF ok THEN refused ELSE refused \cup {Head(c2b).sub}
    /\ Answer(Pkt("SUBACK", Head(c2b).id, NoSub))
    /\ UNCHANGED <<session, got, ponged>>

BrokerUnsubscribe ==
    /\ Head(c2b).type = "UNSUBSCRIBE" /\ session
    /\ granted' = granted \ {Head(c2b).sub}
    /\ Answer(Pkt("UNSUBACK", Head(c2b).id, NoSub))
    /\ UNCHANGED <<session, refused, got, ponged>>

BrokerTake ==
    /\ Head(c2b).type = "PUBLISH" /\ session
    /\ IF Head(c2b).id = NoId THEN UNCHANGED <<b2c, got>>
       ELSE /\ Answer(Pkt("PUBACK", Head(c2b).id, NoSub))
            /\ got' = (got \/ (Head(c2b).id + 1) % ID_MOD = counter)
    /\ UNCHANGED <<session, granted, refused, ponged>>

BrokerPing ==
    /\ Head(c2b).type = "PINGREQ" /\ session
    /\ Answer(Pkt("PINGRESP", NoId, NoSub))
    /\ ponged' = TRUE
    /\ UNCHANGED <<session, granted, refused, got>>

BrokerAcked ==
    /\ Head(c2b).type = "PUBACK" /\ session
    /\ UNCHANGED <<b2c, got, broker>>

BrokerRead ==
    /\ link /\ c2b # <<>> /\ Len(b2c) < MaxQueue
    /\ c2b' = Tail(c2b)
    /\ \/ \E code \in {0, 5} : BrokerConnect(code)
       \/ \E ok \in BOOLEAN : BrokerSubscribe(ok)
       \/ BrokerUnsubscribe
       \/ BrokerTake
       \/ BrokerPing
       \/ BrokerAcked
    /\ UNCHANGED <<client, counter, link>>

\* A packet other than CONNECT outside a session ends the connection.
BrokerRejects ==
    c2b # <<>> /\ ~session /\ Head(c2b).type # "CONNECT" /\ Lost

\* The broker passes on a message for a subscription it granted.
BrokerPublish(s, qos) ==
    /\ session /\ s \in granted /\ Len(b2c) < MaxFlow
    /\ qos = 1 => s \in Qos1Subs
    /\ Answer(Pkt("PUBLISH", qos, s))
    /\ UNCHANGED <<client, ids, link, c2b, broker>>

-----------------------------------------------------------------------------
Call ==
    \/ ConnectFails \/ Connect \/ Disconnect \/ Publish0 \/ Publish1
    \/ \E s \in Subs : Subscribe(s) \/ Unsubscribe(s)
    \/ \E num \in 1 .. MaxPings : Ping(num)
    \/ ReadSubscription

Arrival ==
    \/ ConnackAccepted \/ ConnackRefused \/ Suback
    \/ Puback \/ Unsuback \/ Pingresp

Timeout ==
    \/ ConnectTimeout \/ PublishTimeout \/ UnsubscribeTimeout \/ PingTimeout

Next ==
    \/ Call \/ Arrival \/ Timeout
    \/ Lost \/ BrokerRead \/ BrokerRejects
    \/ \E s \in Subs, qos \in {0, 1} : BrokerPublish(s, qos)

Spec == Init /\ [][Next]_vars

\* The client's thread goes on (a read ends after its timeout), and a broker
\* that keeps the connection reads what it was sent.
Fairness == /\ WF_vars(Arrival \/ Timeout)
            /\ WF_vars(BrokerRead \/ BrokerRejects)

FairSpec == Spec /\ Fairness

-----------------------------------------------------------------------------
(* Properties.                                                             *)

PacketTypes == {"CONNECT", "CONNACK", "PUBLISH", "PUBACK", "SUBSCRIBE", "SUBACK",
                "UNSUBSCRIBE", "UNSUBACK", "PINGREQ", "PINGRESP"}
Calls == {"none", "connect", "disconnect", "publish0", "publish1", "subscribe",
          "unsubscribe", "ping", "read"}

\* A SUBSCRIBE is about a subscription.
Packet == {p \in [type : PacketTypes, id : Int, sub : Subs \cup {NoSub}] :
               p.type = "SUBSCRIBE" => p.sub \in Subs}

\* Every variable has its type.
TypeOK ==
    /\ slots \in [Slots -> Subs \cup {NoSub}]
    /\ counter \in 0 .. ID_MOD - 1
    /\ pc \in {"idle", "CONNACK", "SUBACK", "PUBACK", "UNSUBACK", "PINGRESP"}
    /\ slot \in 0 .. MAXSUBSCRIPTIONS
    /\ pc \in {"SUBACK", "UNSUBACK"} => slot # 0
    /\ pc = "SUBACK" => slots[slot] \in Subs
    /\ left \in Nat
    /\ ret \in [op : Calls, val : Int]
    /\ link \in BOOLEAN /\ session \in BOOLEAN /\ ponged \in BOOLEAN
    /\ c2b \in Seq(Packet) /\ b2c \in Seq(Packet)
    /\ granted \subseteq Subs /\ refused \subseteq Subs
    /\ got \in BOOLEAN

Returned(op, val) == pc = "idle" /\ ret = [op |-> op, val |-> val]

\* A publish of QoS 1 that returns true was taken by the broker, whatever
\* answers to earlier calls were still in the stream.
PublishedIsTaken ==
    Returned("publish1", TRUTH) => got

Table == {slots[i] : i \in Slots} \ {NoSub}

\* What the broker was or will be told about s, last: c2b is in order.
Words(s) == {k \in 1 .. Len(c2b) : /\ c2b[k].sub = s
                                   /\ c2b[k].type \in {"SUBSCRIBE", "UNSUBSCRIBE"}}
LastWord(s) == c2b[CHOOSE k \in Words(s) : \A j \in Words(s) : j <= k].type

\* When connect returns 0 the broker has decided on every subscription of the
\* table, or its SUBSCRIBE is still on the way.
ConnectedIsAsked ==
    Returned("connect", 0) /\ link =>
        \A s \in Table : s \in granted \cup refused \/ Words(s) # {}

\* The broker serves no subscription that is not in the table, once it has
\* read what is on the way: retries that outlive their call included.
NoOrphan ==
    \A s \in Subs \ Table :
        IF Words(s) = {} THEN s \notin granted ELSE LastWord(s) = "UNSUBSCRIBE"

\* The table of the client and the subscriptions of the broker agree, over
\* retries, refusals and answers that are late by a call.
TableAgrees == ConnectedIsAsked /\ NoOrphan

\* A ping that returns true means that the broker answered a ping on this
\* connection.
PingIsHeard == Returned("ping", TRUTH) /\ link => ponged

\* Every call returns.
CallReturns == pc # "idle" ~> pc = "idle"

-----------------------------------------------------------------------------
(* What the header says, and the client does not do.                       *)

\* Adafruit_MQTT.h:155: connect returns 0 on success, and a code of its own
\* when a subscription failed.
ConnectedIsSubscribed ==
    Returned("connect", 0) /\ link => Table \cap refused = {}

\* Adafruit_MQTT.h:187: publish returns true if the message was published,
\* false otherwise.  (An answer was read; the call did not give up.)
PublishAnswerIsRight ==
    [][Puback /\ ret'.val = FALSITY => ~got]_vars

\* Adafruit_MQTT.cpp:411: the call waits for the UNSUBACK to confirm the
\* unsubscription, so one that reads it succeeds.
UnsubackConfirms ==
    [][Unsuback /\ Head(b2c).type = "UNSUBACK" => ret'.val = TRUTH]_vars

=============================================================================
