-------------------------- MODULE MqttClient_proofs --------------------------
(***************************************************************************)
(* Proofs about MqttClient, for any table size, number of attempts, packet *)
(* identifiers below the modulus, and any length of the channels.          *)
(***************************************************************************)
EXTENDS MqttClient, TLAPS, SequenceTheorems, WellFoundedInduction

USE MqttAssumption DEF MqttAssumption

\* A set of slots that is not empty has a first one.
LEMMA FirstIn ==
  ASSUME NEW S, S \subseteq Slots, S # {}
  PROVE  First(S) \in S /\ \A j \in S : First(S) <= j
  <1>1. S \subseteq Nat
    BY DEF Slots
  <1>2. PICK i \in S : \A j \in S : ~ (<<j, i>> \in OpToRel(<, Nat))
    BY <1>1, NatLessThanWellFounded, WFMin, Zenon
  <1>3. ASSUME NEW j \in S PROVE i <= j
    <2>1. <<j, i>> \in Nat \X Nat
      BY <1>1
    <2>2. ~ (j < i)
      BY <1>2, <2>1, Zenon DEF OpToRel
    <2>3. QED
      BY <1>1, <2>2
  <1>4. QED
    BY <1>3 DEF First

\* Packets are put at the end of a channel and taken from its front.
LEMMA AppendSeq ==
  ASSUME NEW s \in Seq(Packet), NEW p \in Packet
  PROVE  /\ Append(s, p) \in Seq(Packet)
         /\ Len(Append(s, p)) = Len(s) + 1
         /\ \A k \in 1 .. Len(s) : Append(s, p)[k] = s[k]
         /\ Append(s, p)[Len(s) + 1] = p
  OBVIOUS

LEMMA TailSeq ==
  ASSUME NEW s \in Seq(Packet), s # <<>>
  PROVE  /\ Tail(s) \in Seq(Packet) /\ Head(s) \in Packet
         /\ Head(s) = s[1] /\ 1 \in 1 .. Len(s)
         /\ Len(Tail(s)) = Len(s) - 1
         /\ \A k \in 1 .. Len(Tail(s)) : k + 1 \in 1 .. Len(s) /\ Tail(s)[k] = s[k + 1]
  BY HeadTailProperties, EmptySeq, LenProperties

\* Identifiers within the bound do not wrap around.
LEMMA NoWrap == ASSUME NEW n \in 0 .. MaxIds PROVE n % ID_MOD = n
  OBVIOUS

LEMMA PktType ==
  ASSUME NEW type \in PacketTypes, NEW id \in Int, NEW sub \in Subs \cup {NoSub},
         type = "SUBSCRIBE" => sub \in Subs
  PROVE  Pkt(type, id, sub) \in Packet
  BY DEF Pkt, Packet

\* The empty channel, and one with a first packet in it.
LEMMA EmptyType == <<>> \in Seq(Packet)
  OBVIOUS

LEMMA InitType == Init => TypeOK
  <1> SUFFICES ASSUME Init PROVE TypeOK
    OBVIOUS
  <1>1. slots \in [Slots -> Subs \cup {NoSub}]
    BY DEF Init
  <1>2. ret \in [op : Calls, val : Int]
    BY DEF Init, Calls
  <1>3. c2b \in Seq(Packet) /\ b2c \in Seq(Packet)
    BY EmptyType DEF Init
  <1>4. counter \in 0 .. ID_MOD - 1 /\ slot \in 0 .. MAXSUBSCRIPTIONS /\ left \in Nat
    BY DEF Init
  <1>5. link \in BOOLEAN /\ session \in BOOLEAN /\ ponged \in BOOLEAN /\ got \in BOOLEAN
    BY DEF Init
  <1>6. granted \subseteq Subs /\ refused \subseteq Subs
    BY DEF Init
  <1>7. pc = "idle"
    BY DEF Init
  <1>8. QED
    BY <1>1, <1>2, <1>3, <1>4, <1>5, <1>6, <1>7 DEF TypeOK

\* Sending keeps the type of the channel.
LEMMA SendType ==
  ASSUME TypeOK, NEW p \in Packet, Send(p)
  PROVE  c2b' \in Seq(Packet)
  BY AppendSeq DEF TypeOK, Send

LEMMA HandleType ==
  ASSUME TypeOK, NEW p \in Packet, HandleSubscriptionPacket(p)
  PROVE  c2b' \in Seq(Packet)
  <1>1. Pkt("PUBACK", NoId, p.sub) \in Packet
    BY PktType DEF Packet, NoId, PacketTypes
  <1>2. QED
    BY <1>1, SendType DEF NotSent, HandleSubscriptionPacket, TypeOK

\* The part of the type invariant about the call in progress.
CallOK ==
  /\ pc \in {"idle", "CONNACK", "SUBACK", "PUBACK", "UNSUBACK", "PINGRESP"}
  /\ slot \in 0 .. MAXSUBSCRIPTIONS
  /\ pc \in {"SUBACK", "UNSUBACK"} => slot # 0
  /\ pc = "SUBACK" => slots[slot] \in Subs
  /\ left \in Nat
  /\ ret \in [op : Calls, val : Int]

LEMMA ReturnType ==
  ASSUME NEW op \in Calls, NEW val \in Int, Return(op, val)
  PROVE  CallOK'
  BY DEF Return, CallOK

LEMMA NewIdType ==
  ASSUME TypeOK, NewId
  PROVE  counter' \in 0 .. ID_MOD - 1 /\ got' \in BOOLEAN
  <1>1. \A n \in Nat : n % ID_MOD \in 0 .. ID_MOD - 1
    OBVIOUS
  <1>2. counter + 1 \in Nat
    BY DEF TypeOK
  <1>3. QED
    BY <1>1, <1>2 DEF NewId

\* What is left to show when the call in progress and the channels are typed.
LEMMA SameType ==
  ASSUME TypeOK, CallOK', slots' \in [Slots -> Subs \cup {NoSub}],
         c2b' \in Seq(Packet), b2c' \in Seq(Packet),
         link' \in BOOLEAN, UNCHANGED broker,
         (counter' \in 0 .. ID_MOD - 1 /\ got' \in BOOLEAN) \/ UNCHANGED ids
  PROVE  TypeOK'
  BY DEF TypeOK, CallOK, broker, ids

LEMMA GoneType ==
  ASSUME TypeOK, CallOK', slots' \in [Slots -> Subs \cup {NoSub}],
         Gone, link' \in BOOLEAN, UNCHANGED ids
  PROVE  TypeOK'
  BY EmptyType DEF TypeOK, CallOK, Gone, ids

\* The calls of the application keep the types.
LEMMA CallType == ASSUME TypeOK, Call PROVE TypeOK'
  <1> USE DEF NoId, TRUTH, FALSITY, PacketTypes, Calls
  <1>1. CASE ConnectFails
    <2>1. CallOK'
      BY <1>1, ReturnType DEF ConnectFails
    <2>2. QED
      BY <1>1, <2>1, GoneType DEF ConnectFails, TypeOK
  <1>2. CASE Connect
    <2>1. c2b' \in Seq(Packet) /\ b2c' \in Seq(Packet)
      <3>1. Pkt("CONNECT", NoId, NoSub) \in Packet
        BY PktType
      <3>2. <<Pkt("CONNECT", NoId, NoSub)>> \in Seq(Packet)
        BY <3>1
      <3>3. QED
        BY <1>2, <3>2, EmptyType, Zenon DEF Connect
    <2>2. CallOK'
      <3>1. CASE pc' = "CONNACK" /\ UNCHANGED <<slot, left, ret>>
        BY <3>1 DEF TypeOK, CallOK
      <3>2. CASE Return("connect", -1)
        BY <3>2, ReturnType
      <3>3. QED
        BY <1>2, <3>1, <3>2 DEF Connect
    <2>3. QED
      BY <1>2, <2>1, <2>2 DEF Connect, TypeOK, CallOK, ids
  <1>3. CASE Disconnect
    <2>1. CallOK'
      BY <1>3, ReturnType DEF Disconnect
    <2>2. QED
      BY <1>3, <2>1, GoneType DEF Disconnect, TypeOK
  <1>4. CASE Publish0
    <2>1. c2b' \in Seq(Packet)
      BY <1>4, PktType, SendType DEF NotSent, Publish0, TypeOK
    <2>2. CallOK'
      BY <1>4, ReturnType DEF Publish0
    <2>3. QED
      BY <1>4, <2>1, <2>2, SameType DEF Publish0, TypeOK
  <1>5. CASE Publish1
    <2>1. c2b' \in Seq(Packet)
      <3>1. Pkt("PUBLISH", counter, NoSub) \in Packet
        BY PktType DEF TypeOK
      <3>2. QED
        BY <1>5, <3>1, SendType DEF NotSent, Publish1, TypeOK
    <2>2. CallOK'
      <3>1. CASE pc' = "PUBACK" /\ UNCHANGED <<slot, left, ret, slots>>
        BY <3>1 DEF TypeOK, CallOK
      <3>2. CASE Return("publish1", FALSITY)
        BY <3>2, ReturnType
      <3>3. QED
        BY <1>5, <3>1, <3>2 DEF Publish1
    <2>3. QED
      BY <1>5, <2>1, <2>2, NewIdType, SameType DEF Publish1, TypeOK
  <1>6. ASSUME NEW s \in Subs, Subscribe(s) PROVE TypeOK'
    <2>1. slots' \in [Slots -> Subs \cup {NoSub}]
      BY <1>6 DEF Subscribe, TypeOK
    <2>2. CallOK'
      BY <1>6, ReturnType DEF Subscribe
    <2>3. QED
      BY <1>6, <2>1, <2>2, SameType DEF Subscribe, TypeOK
  <1>7. ASSUME NEW s \in Subs, Unsubscribe(s) PROVE TypeOK'
    <2>1. Pkt("UNSUBSCRIBE", counter, s) \in Packet
      BY PktType DEF TypeOK
    <2>2. c2b' \in Seq(Packet)
      BY <1>7, <2>1, SendType DEF NotSent, Unsubscribe, Unsubscribing, TypeOK
    <2>3. slots' \in [Slots -> Subs \cup {NoSub}]
      BY <1>7 DEF Unsubscribe, TypeOK
    <2>4. CallOK'
      <3>1. CASE pc' = "UNSUBACK" /\ slot' = First(SlotsOf(s)) /\ SlotsOf(s) # {}
                 /\ UNCHANGED <<left, ret>>
        <4>1. First(SlotsOf(s)) \in Slots
          BY <3>1, FirstIn DEF SlotsOf
        <4>2. QED
          BY <3>1, <4>1 DEF TypeOK, CallOK, Slots
      <3>2. CASE Return("unsubscribe", TRUTH) \/ Return("unsubscribe", FALSITY)
        BY <3>2, ReturnType
      <3>3. QED
        BY <1>7, <3>1, <3>2 DEF Unsubscribe
    <2>5. QED
      BY <1>7, <2>2, <2>3, <2>4, NewIdType, SameType DEF Unsubscribe, TypeOK
  <1>8. ASSUME NEW num \in 1 .. MaxPings, Ping(num) PROVE TypeOK'
    <2>1. c2b' \in Seq(Packet)
      BY <1>8, PktType, SendType DEF NotSent, Ping, TypeOK
    <2>2. CallOK'
      <3>1. CASE pc' = "PINGRESP" /\ left' \in Nat /\ UNCHANGED <<slot, ret, slots>>
        BY <3>1 DEF TypeOK, CallOK
      <3>2. CASE Return("ping", FALSITY)
        BY <3>2, ReturnType
      <3>3. QED
        BY <1>8, <3>1, <3>2 DEF Ping
    <2>3. QED
      BY <1>8, <2>1, <2>2, SameType DEF Ping, TypeOK
  <1>9. CASE ReadSubscription
    <2>1. b2c' \in Seq(Packet) /\ Head(b2c) \in Packet
      BY <1>9, TailSeq DEF ReadSubscription, TypeOK
    <2>2. c2b' \in Seq(Packet)
      BY <1>9, <2>1, HandleType DEF ReadSubscription
    <2>3. Matches(Head(b2c)) => First(SlotsOf(Head(b2c).sub)) \in Slots
      BY FirstIn DEF SlotsOf, Matches
    <2>4. (IF Matches(Head(b2c)) THEN First(SlotsOf(Head(b2c).sub)) ELSE 0) \in Int
      BY <2>3 DEF Slots
    <2>5. CallOK'
      BY <1>9, <2>4, ReturnType DEF ReadSubscription
    <2>6. QED
      BY <1>9, <2>1, <2>2, <2>5, SameType DEF ReadSubscription, TypeOK
  <1>10. QED
    BY <1>1, <1>2, <1>3, <1>4, <1>5, <1>6, <1>7, <1>8, <1>9 DEF Call

\* What the client does when a packet comes in keeps the types.
LEMMA SubscribeAfterType ==
  ASSUME TypeOK, NEW i \in 0 .. MAXSUBSCRIPTIONS, SubscribeAfter(i)
  PROVE  /\ CallOK' /\ c2b' \in Seq(Packet)
         /\ slots' \in [Slots -> Subs \cup {NoSub}]
         /\ (counter' \in 0 .. ID_MOD - 1 /\ got' \in BOOLEAN) \/ UNCHANGED ids
  <1>1. CASE Defined(i) = {}
    <2>1. CallOK'
      BY <1>1, ReturnType DEF SubscribeAfter, Calls
    <2>2. QED
      BY <1>1, <2>1 DEF SubscribeAfter, TypeOK
  <1>2. CASE Defined(i) # {}
    <2> DEFINE j == First(Defined(i))
    <2>1. j \in Slots /\ slots[j] \in Subs
      BY <1>2, FirstIn DEF Defined, TypeOK
    <2>2. Pkt("SUBSCRIBE", counter, slots[j]) \in Packet
      BY <2>1, PktType DEF TypeOK, PacketTypes
    <2>3. NewId /\ UNCHANGED slots
      BY <1>2 DEF SubscribeAfter
    <2>4. CASE /\ pc' = "SUBACK" /\ slot' = j /\ left' = RETRIES - 1
               /\ Send(Pkt("SUBSCRIBE", counter, slots[j]))
               /\ UNCHANGED ret
      <3>1. c2b' \in Seq(Packet)
        BY <2>2, <2>4, SendType
      <3>2. CallOK'
        BY <2>1, <2>3, <2>4 DEF TypeOK, CallOK, Slots
      <3>3. QED
        BY <2>3, <3>1, <3>2, NewIdType DEF TypeOK
    <2>5. CASE NotSent /\ Return("connect", -1)
      <3>1. CallOK'
        BY <2>5, ReturnType DEF Calls
      <3>2. QED
        BY <2>3, <2>5, <3>1, NewIdType DEF TypeOK, NotSent
    <2>6. QED
      BY <1>2, <2>4, <2>5 DEF SubscribeAfter
  <1>3. QED
    BY <1>1, <1>2

LEMMA PassOverType ==
  ASSUME TypeOK, NEW type, PassOver(type)
  PROVE  TypeOK'
  <1>1. b2c' \in Seq(Packet) /\ Head(b2c) \in Packet
    BY TailSeq DEF PassOver, ReadOther, TypeOK
  <1>2. c2b' \in Seq(Packet)
    BY <1>1, HandleType DEF PassOver
  <1>3. CallOK'
    BY DEF PassOver, client, TypeOK, CallOK
  <1>4. QED
    BY <1>1, <1>2, <1>3, SameType DEF PassOver, client, TypeOK

LEMMA ArrivalType == ASSUME TypeOK, Arrival PROVE TypeOK'
  <1> USE DEF TRUTH, FALSITY, Calls
  <1>1. CASE ConnackAccepted
    <2>1. b2c' \in Seq(Packet)
      BY <1>1, TailSeq DEF ConnackAccepted, Read, TypeOK
    <2>2. QED
      BY <1>1, <2>1, SubscribeAfterType, SameType DEF ConnackAccepted, TypeOK
  <1>2. CASE ConnackRefused
    <2>1. b2c' \in Seq(Packet) /\ Head(b2c) \in Packet
      BY <1>2, TailSeq DEF ConnackRefused, Read, TypeOK
    <2>2. CallOK'
      BY <1>2, <2>1, ReturnType DEF ConnackRefused, Packet
    <2>3. QED
      BY <1>2, <2>1, <2>2, SameType DEF ConnackRefused, TypeOK
  <1>3. CASE Suback
    <2>1. CASE Read("SUBACK") /\ SubscribeAfter(slot) /\ UNCHANGED <<link, broker>>
      <3>1. b2c' \in Seq(Packet)
        BY <2>1, TailSeq DEF Read, TypeOK
      <3>2. slot \in 0 .. MAXSUBSCRIPTIONS
        BY DEF TypeOK
      <3>3. QED
        BY <2>1, <3>1, <3>2, SubscribeAfterType, SameType DEF TypeOK
    <2>2. CASE PassOver("SUBACK")
      BY <2>2, PassOverType
    <2>3. QED
      BY <1>3, <2>1, <2>2 DEF Suback
  <1>4. CASE Puback
    <2>1. b2c' \in Seq(Packet)
      BY <1>4, TailSeq DEF Puback, TypeOK
    <2>2. CallOK'
      BY <1>4, ReturnType DEF Puback
    <2>3. QED
      BY <1>4, <2>1, <2>2, SameType DEF Puback, TypeOK
  <1>5. CASE Unsuback
    <2>1. b2c' \in Seq(Packet)
      BY <1>5, TailSeq DEF Unsuback, TypeOK
    <2>2. CallOK'
      BY <1>5, ReturnType DEF Unsuback
    <2>3. slots' \in [Slots -> Subs \cup {NoSub}]
      BY <1>5 DEF Unsuback, TypeOK
    <2>4. QED
      BY <1>5, <2>1, <2>2, <2>3, SameType DEF Unsuback, TypeOK
  <1>6. CASE Pingresp
    <2>1. CASE PassOver("PINGRESP")
      BY <2>1, PassOverType
    <2>2. CASE Read("PINGRESP") /\ Return("ping", TRUTH)
               /\ UNCHANGED <<slots, ids, link, c2b, broker>>
      <3>1. b2c' \in Seq(Packet)
        BY <2>2, TailSeq DEF Read, TypeOK
      <3>2. CallOK'
        BY <2>2, ReturnType
      <3>3. QED
        BY <2>2, <3>1, <3>2, SameType DEF TypeOK
    <2>3. QED
      BY <1>6, <2>1, <2>2 DEF Pingresp
  <1>7. QED
    BY <1>1, <1>2, <1>3, <1>4, <1>5, <1>6 DEF Arrival

\* A call that runs into a timeout keeps the types.
LEMMA TimeoutType == ASSUME TypeOK, Timeout PROVE TypeOK'
  <1> USE DEF TRUTH, FALSITY, Calls
  <1>1. CASE ConnectTimeout
    <2>1. CASE Return("connect", -1) \/ Return("connect", -2)
      <3>1. CallOK'
        BY <2>1, ReturnType
      <3>2. UNCHANGED ids \/ NewId
        BY <1>1 DEF ConnectTimeout
      <3>3. UNCHANGED <<slots, link, c2b, b2c, broker>>
        BY <1>1, <2>1 DEF NotSent, ConnectTimeout, Return
      <3>4. QED
        BY <3>1, <3>2, <3>3, NewIdType, SameType DEF TypeOK
    <2>2. CASE /\ pc = "SUBACK" /\ Again
               /\ Send(Pkt("SUBSCRIBE", counter, slots[slot]))
               /\ NewId /\ left' = left - 1
               /\ UNCHANGED <<slots, pc, slot, ret, link, b2c, broker>>
      <3>1. slots[slot] \in Subs
        BY <2>2 DEF TypeOK
      <3>2. Pkt("SUBSCRIBE", counter, slots[slot]) \in Packet
        BY <3>1, PktType DEF TypeOK, PacketTypes
      <3>3. c2b' \in Seq(Packet)
        BY <2>2, <3>2, SendType
      <3>4. CallOK'
        BY <2>2 DEF TypeOK, CallOK, Again
      <3>5. QED
        BY <2>2, <3>3, <3>4, NewIdType, SameType DEF TypeOK
    <2>3. QED
      BY <1>1, <2>1, <2>2 DEF ConnectTimeout
  <1>2. CASE PublishTimeout
    <2>1. CallOK'
      BY <1>2, ReturnType DEF PublishTimeout
    <2>2. QED
      BY <1>2, <2>1, SameType DEF PublishTimeout, TypeOK
  <1>3. CASE UnsubscribeTimeout
    <2>1. CallOK'
      BY <1>3, ReturnType DEF UnsubscribeTimeout
    <2>2. QED
      BY <1>3, <2>1, SameType DEF UnsubscribeTimeout, TypeOK
  <1>4. CASE PingTimeout
    <2>1. c2b' \in Seq(Packet)
      BY <1>4, PktType, SendType DEF NotSent, PingTimeout, TypeOK, PacketTypes, NoId
    <2>2. CallOK'
      <3>1. CASE Again /\ left' \in 0 .. left - 1 /\ UNCHANGED <<pc, slot, ret, slots>>
        BY <3>1 DEF TypeOK, CallOK
      <3>2. CASE Return("ping", FALSITY)
        BY <3>2, ReturnType
      <3>3. QED
        BY <1>4, <3>1, <3>2 DEF PingTimeout
    <2>3. QED
      BY <1>4, <2>1, <2>2, SameType DEF PingTimeout, TypeOK
  <1>5. QED
    BY <1>1, <1>2, <1>3, <1>4 DEF Timeout

\* The broker's packets are packets.
LEMMA AnswerType ==
  ASSUME TypeOK, NEW p \in Packet, Answer(p)
  PROVE  b2c' \in Seq(Packet)
  BY AppendSeq DEF TypeOK, Answer

LEMMA LostType == ASSUME TypeOK, Lost PROVE TypeOK'
  <1>1. CallOK'
    BY DEF Lost, client, TypeOK, CallOK
  <1>2. QED
    BY <1>1, GoneType DEF Lost, client, TypeOK

LEMMA BrokerReadType == ASSUME TypeOK, BrokerRead PROVE TypeOK'
  <1> USE DEF PacketTypes
  <1> DEFINE ok == /\ b2c' \in Seq(Packet)
                   /\ granted' \subseteq Subs /\ refused' \subseteq Subs
                   /\ session' \in BOOLEAN /\ ponged' \in BOOLEAN
                   /\ got' \in BOOLEAN
  <1>0. /\ b2c \in Seq(Packet) /\ granted \subseteq Subs /\ refused \subseteq Subs
        /\ session \in BOOLEAN /\ ponged \in BOOLEAN /\ got \in BOOLEAN
    BY DEF TypeOK
  <1>1. c2b' \in Seq(Packet) /\ Head(c2b) \in Packet
    BY TailSeq DEF BrokerRead, TypeOK
  <1>2. \A t \in PacketTypes \ {"SUBSCRIBE"} : Pkt(t, Head(c2b).id, NoSub) \in Packet
    BY <1>1, PktType DEF Packet
  <1>3. ASSUME NEW code \in {0, 5}, BrokerConnect(code) PROVE ok
    BY <1>3, PktType, AnswerType DEF BrokerConnect, TypeOK
  <1>4. ASSUME NEW granting \in BOOLEAN, BrokerSubscribe(granting) PROVE ok
    <2>1. b2c' \in Seq(Packet)
      BY <1>2, <1>4, AnswerType DEF BrokerSubscribe
    <2>2. Head(c2b).sub \in Subs
      BY <1>1, <1>4 DEF BrokerSubscribe, Packet
    <2>3. QED
      BY <1>0, <1>4, <2>1, <2>2 DEF BrokerSubscribe
  <1>5. ASSUME BrokerUnsubscribe PROVE ok
    <2>1. b2c' \in Seq(Packet)
      BY <1>2, <1>5, AnswerType DEF BrokerUnsubscribe
    <2>2. QED
      BY <1>0, <1>5, <2>1 DEF BrokerUnsubscribe
  <1>6. ASSUME BrokerTake PROVE ok
    <2>1. b2c' \in Seq(Packet)
      BY <1>0, <1>2, <1>6, AnswerType DEF BrokerTake
    <2>2. got' \in BOOLEAN
      <3>1. CASE got' = got
        BY <1>0, <3>1
      <3>2. CASE got' = (got \/ (Head(c2b).id + 1) % ID_MOD = counter)
        BY <3>2, Zenon
      <3>3. QED
        BY <1>6, <3>1, <3>2 DEF BrokerTake
    <2>3. QED
      BY <1>0, <1>6, <2>1, <2>2 DEF BrokerTake
  <1>7. ASSUME BrokerPing PROVE ok
    <2>1. b2c' \in Seq(Packet)
      BY <1>7, PktType, AnswerType DEF BrokerPing, NoId
    <2>2. QED
      BY <1>0, <1>7, <2>1 DEF BrokerPing
  <1>8. ASSUME BrokerAcked PROVE ok
    BY <1>0, <1>8 DEF BrokerAcked, broker
  <1>9. CallOK'
    BY DEF BrokerRead, client, TypeOK, CallOK
  <1>10. ok
    BY <1>3, <1>4, <1>5, <1>6, <1>7, <1>8 DEF BrokerRead
  <1>11. UNCHANGED <<client, counter, link>>
    BY DEF BrokerRead
  <1>12. QED
    BY <1>1, <1>9, <1>10, <1>11 DEF client, TypeOK, CallOK

\* What the broker and the network do keeps the types.
LEMMA NetworkType ==
  ASSUME TypeOK,
         \/ Lost \/ BrokerRead \/ BrokerRejects
         \/ \E s \in Subs, qos \in {0, 1} : BrokerPublish(s, qos)
  PROVE  TypeOK'
  <1>1. ASSUME NEW s \in Subs, NEW qos \in {0, 1}, BrokerPublish(s, qos)
        PROVE  TypeOK'
    <2>1. b2c' \in Seq(Packet)
      BY <1>1, PktType, AnswerType DEF BrokerPublish, PacketTypes
    <2>2. CallOK'
      BY <1>1 DEF BrokerPublish, client, TypeOK, CallOK
    <2>3. QED
      BY <1>1, <2>1, <2>2, SameType DEF BrokerPublish, client, TypeOK
  <1>2. QED
    BY <1>1, LostType, BrokerReadType DEF BrokerRejects

LEMMA StutterType == ASSUME TypeOK, UNCHANGED vars PROVE TypeOK'
  BY DEF TypeOK, vars, client, ids, broker

\* Every variable of the client, the broker and the channels has its type.
THEOREM TypeCorrect == Spec => []TypeOK
  <1>1. TypeOK /\ [Next]_vars => TypeOK'
    BY CallType, ArrivalType, TimeoutType, NetworkType, StutterType DEF Next
  <1>2. QED
    BY <1>1, InitType, PTL DEF Spec

-----------------------------------------------------------------------------
(* A publish that returns true was taken.  The identifier of a message is  *)
(* not used again while its acknowledgement may be on the way (Budget), so *)
(* the acknowledgements in flight are for messages before the last one, or *)
(* for the last one, which then was taken (InIds); their identifiers come  *)
(* from messages in flight (OutIds).                                       *)

\* No identifier is used twice: there are enough for the attempts of connect.
Budget ==
  /\ counter <= MaxIds
  /\ pc = "CONNACK" => counter + RETRIES * MAXSUBSCRIPTIONS <= MaxIds
  /\ pc = "SUBACK" =>
       counter + left + RETRIES * (MAXSUBSCRIPTIONS - slot) <= MaxIds

OutIds == \A k \in 1 .. Len(c2b) :
  c2b[k].type = "PUBLISH" => c2b[k].id = NoId \/ c2b[k].id \in 0 .. counter - 1

InIds == \A k \in 1 .. Len(b2c) :
  b2c[k].type = "PUBACK" =>
    b2c[k].id \in 0 .. counter - 1 /\ (b2c[k].id + 1 = counter => got)

IInv == TypeOK /\ Budget /\ OutIds /\ InIds /\ PublishedIsTaken

\* What a step does to the identifiers.
SameId == counter' = counter /\ (got => got')
NextId == counter' = counter + 1

LEMMA NewIdIsNext ==
  ASSUME TypeOK, counter < MaxIds, NewId
  PROVE  NextId
  <1>1. counter + 1 \in 0 .. MaxIds
    BY DEF TypeOK
  <1>2. QED
    BY <1>1, NoWrap DEF NewId, NextId

\* The attempts kept for the slots after i.
LEMMA AttemptsNat ==
  ASSUME NEW i \in 0 .. MAXSUBSCRIPTIONS
  PROVE  RETRIES * (MAXSUBSCRIPTIONS - i) \in Nat
  <1>1. MAXSUBSCRIPTIONS - i \in Nat
    OBVIOUS
  <1>2. \A m, n \in Nat : m * n \in Nat
    OBVIOUS
  <1>3. QED
    BY <1>1, <1>2

LEMMA AttemptsLess ==
  ASSUME NEW i \in 0 .. MAXSUBSCRIPTIONS, NEW j \in Slots, i < j
  PROVE  RETRIES + RETRIES * (MAXSUBSCRIPTIONS - j)
           <= RETRIES * (MAXSUBSCRIPTIONS - i)
  <1> DEFINE a == MAXSUBSCRIPTIONS - i
             b == MAXSUBSCRIPTIONS - j
             d == a - b - 1
  <1>1. a \in Nat /\ b \in Nat /\ d \in Nat /\ a = 1 + b + d
    BY DEF Slots
  <1>2. \A r, x, y \in Nat : r * (1 + x + y) = r + r * x + r * y /\ r * y \in Nat
                           /\ r * x \in Nat
    OBVIOUS
  <1>3. RETRIES * a = RETRIES + RETRIES * b + RETRIES * d /\ RETRIES * d \in Nat
        /\ RETRIES * b \in Nat
    BY <1>1, <1>2
  <1>4. QED
    BY <1>3

\* The next subscription of the loop spends an attempt of its own.
LEMMA SubscribeAfterBudget ==
  ASSUME TypeOK, NEW i \in 0 .. MAXSUBSCRIPTIONS, SubscribeAfter(i),
         counter + RETRIES * (MAXSUBSCRIPTIONS - i) <= MaxIds
  PROVE  Budget' /\ (NextId \/ UNCHANGED ids)
  <1>1. counter \in Nat /\ RETRIES * (MAXSUBSCRIPTIONS - i) \in Nat
    BY AttemptsNat DEF TypeOK
  <1>2. CASE Defined(i) = {}
    BY <1>1, <1>2 DEF SubscribeAfter, Return, Budget, ids
  <1>3. CASE Defined(i) # {}
    <2> DEFINE j == First(Defined(i))
    <2>1. j \in Slots /\ i < j
      BY <1>3, FirstIn DEF Defined
    <2>2. /\ NewId
          /\ \/ pc' = "SUBACK" /\ slot' = j /\ left' = RETRIES - 1
             \/ pc' = "idle"
      BY <1>3 DEF SubscribeAfter, Return
    <2>3. RETRIES + RETRIES * (MAXSUBSCRIPTIONS - j)
            <= RETRIES * (MAXSUBSCRIPTIONS - i)
      BY <2>1, AttemptsLess
    <2>4. RETRIES * (MAXSUBSCRIPTIONS - j) \in Nat
      BY <2>1, AttemptsNat DEF Slots
    <2>5. NextId
      BY <1>1, <2>2, <2>3, <2>4, NewIdIsNext
    <2>6. QED
      BY <1>1, <2>2, <2>3, <2>4, <2>5 DEF Budget, NextId
  <1>4. QED
    BY <1>2, <1>3

\* Every step leaves the counter alone or takes the next identifier, and keeps
\* enough of them.
LEMMA BudgetStep ==
  ASSUME TypeOK, Budget, [Next]_vars
  PROVE  Budget' /\ (SameId \/ NextId)
  <1> USE DEF SameId
  <1>1. counter \in Nat /\ counter <= MaxIds /\ left \in Nat
    BY DEF TypeOK, Budget
  <1>2. CASE ConnectFails \/ Disconnect
    BY <1>1, <1>2 DEF ConnectFails, Disconnect, Return, Budget, ids
  <1>3. CASE Connect
    BY <1>1, <1>3 DEF Connect, Return, Budget, ids
  <1>4. CASE Publish0 \/ (\E s \in Subs : Subscribe(s)) \/ ReadSubscription
    BY <1>1, <1>4 DEF Publish0, Subscribe, ReadSubscription, Return, Budget, ids
  <1>5. CASE Publish1
    <2>1. NextId
      BY <1>1, <1>5, NewIdIsNext DEF Publish1
    <2>2. QED
      BY <1>1, <1>5, <2>1 DEF Publish1, Return, Budget, NextId
  <1>6. ASSUME NEW s \in Subs, Unsubscribe(s) PROVE Budget' /\ (SameId \/ NextId)
    <2>1. pc' \in {"idle", "UNSUBACK"} /\ counter < MaxIds
      BY <1>6 DEF Unsubscribe, Return
    <2>2. UNCHANGED ids \/ NextId
      BY <1>6, <2>1, NewIdIsNext DEF Unsubscribe
    <2>3. QED
      BY <1>1, <2>1, <2>2 DEF Budget, NextId, ids
  <1>7. CASE \E num \in 1 .. MaxPings : Ping(num)
    BY <1>1, <1>7 DEF Ping, Return, Budget, ids
  <1>8. CASE ConnackAccepted
    BY <1>8, SubscribeAfterBudget DEF ConnackAccepted, Budget, ids
  <1>9. CASE ConnackRefused \/ Puback \/ Unsuback
    BY <1>1, <1>9 DEF ConnackRefused, Puback, Unsuback, Return, Budget, ids
  <1>10. CASE Suback
    <2>1. CASE PassOver("SUBACK")
      BY <2>1 DEF PassOver, client, Budget, ids
    <2>2. CASE pc = "SUBACK" /\ SubscribeAfter(slot)
      <3>1. slot \in 0 .. MAXSUBSCRIPTIONS
        BY DEF TypeOK
      <3>2. counter + RETRIES * (MAXSUBSCRIPTIONS - slot) <= MaxIds
        BY <1>1, <2>2, <3>1, AttemptsNat DEF Budget
      <3>3. QED
        BY <2>2, <3>1, <3>2, SubscribeAfterBudget DEF ids
    <2>3. QED
      BY <1>10, <2>1, <2>2 DEF Suback
  <1>11. CASE Pingresp
    BY <1>1, <1>11 DEF Pingresp, PassOver, client, Return, Budget, ids
  <1>12. CASE ConnectTimeout
    <2>1. slot \in 0 .. MAXSUBSCRIPTIONS
      BY DEF TypeOK
    <2>2. CASE UNCHANGED ids /\ pc' = "idle"
      BY <1>1, <2>2 DEF Budget, ids
    <2>3. CASE /\ pc = "SUBACK" /\ left > 0 /\ NewId
               /\ \/ left' = left - 1 /\ UNCHANGED <<pc, slot>>
                  \/ pc' = "idle"
      <3>1. RETRIES * (MAXSUBSCRIPTIONS - slot) \in Nat
        BY <2>1, AttemptsNat
      <3>2. counter + left + RETRIES * (MAXSUBSCRIPTIONS - slot) <= MaxIds
        BY <2>3 DEF Budget
      <3>3. NextId
        BY <1>1, <2>3, <3>1, <3>2, NewIdIsNext
      <3>4. QED
        BY <1>1, <2>3, <3>1, <3>2, <3>3 DEF Budget, NextId
    <2>4. QED
      BY <1>12, <2>2, <2>3 DEF ConnectTimeout, Again, Return
  <1>13. CASE PublishTimeout \/ UnsubscribeTimeout \/ PingTimeout
    BY <1>1, <1>13
       DEF PublishTimeout, UnsubscribeTimeout, PingTimeout, Return, Budget, ids
  <1>14. CASE Lost \/ BrokerRejects
    BY <1>14 DEF Lost, BrokerRejects, client, Budget, ids
  <1>15. CASE BrokerRead
    <2>1. got => got'
      <3>1. CASE BrokerTake
        <4>1. CASE got' = got
          BY <4>1
        <4>2. CASE got' = (got \/ (Head(c2b).id + 1) % ID_MOD = counter)
          BY <4>2, Zenon
        <4>3. QED
          BY <3>1, <4>1, <4>2 DEF BrokerTake
      <3>2. CASE ~BrokerTake
        BY <1>15, <3>2 DEF BrokerRead, BrokerConnect, BrokerSubscribe,
                           BrokerUnsubscribe, BrokerPing, BrokerAcked
      <3>3. QED
        BY <3>1, <3>2
    <2>2. UNCHANGED <<client, counter, link>>
      BY <1>15 DEF BrokerRead
    <2>3. QED
      BY <2>1, <2>2 DEF client, Budget
  <1>16. CASE \E s \in Subs, qos \in {0, 1} : BrokerPublish(s, qos)
    BY <1>16 DEF BrokerPublish, client, Budget, ids
  <1>17. CASE UNCHANGED vars
    BY <1>17 DEF vars, client, ids, Budget
  <1>18. QED
    BY <1>2, <1>3, <1>4, <1>5, <1>6, <1>7, <1>8, <1>9, <1>10, <1>11, <1>12,
       <1>13, <1>14, <1>15, <1>16, <1>17 DEF Next, Call, Arrival, Timeout

\* How the channels change.
Kept(q, qq) == qq = q \/ qq = <<>> \/ (q # <<>> /\ qq = Tail(q))

LEMMA OutKept ==
  ASSUME TypeOK, OutIds, SameId \/ NextId, Kept(c2b, c2b')
  PROVE  OutIds'
  <1>1. counter \in Nat /\ counter' \in Nat /\ counter <= counter'
    BY DEF TypeOK, SameId, NextId
  <1>2. c2b \in Seq(Packet)
    BY DEF TypeOK
  <1>3. CASE c2b' = c2b
    BY <1>1, <1>3 DEF OutIds
  <1>4. CASE c2b' = <<>>
    BY <1>4 DEF OutIds
  <1>5. CASE c2b # <<>> /\ c2b' = Tail(c2b)
    <2>1. \A k \in 1 .. Len(c2b') : k + 1 \in 1 .. Len(c2b) /\ c2b'[k] = c2b[k + 1]
      BY <1>2, <1>5, TailSeq
    <2>2. QED
      BY <1>1, <2>1 DEF OutIds
  <1>6. QED
    BY <1>3, <1>4, <1>5 DEF Kept

LEMMA OutSent ==
  ASSUME TypeOK, OutIds, SameId \/ NextId, NEW p \in Packet, c2b' = Append(c2b, p),
         p.type = "PUBLISH" => p.id = NoId \/ (NextId /\ p.id = counter)
  PROVE  OutIds'
  <1>1. counter \in Nat /\ counter' \in Nat /\ counter <= counter'
        /\ (NextId => counter' = counter + 1)
    BY DEF TypeOK, SameId, NextId
  <1>2. /\ Len(c2b') = Len(c2b) + 1 /\ Len(c2b) \in Nat
        /\ \A k \in 1 .. Len(c2b) : c2b'[k] = c2b[k]
        /\ c2b'[Len(c2b) + 1] = p
    BY AppendSeq DEF TypeOK
  <1>3. ASSUME NEW k \in 1 .. Len(c2b'), c2b'[k].type = "PUBLISH"
        PROVE  c2b'[k].id = NoId \/ c2b'[k].id \in 0 .. counter' - 1
    <2>1. CASE k \in 1 .. Len(c2b)
      BY <1>1, <1>2, <1>3, <2>1 DEF OutIds
    <2>2. CASE k = Len(c2b) + 1
      BY <1>1, <1>2, <1>3, <2>2
    <2>3. QED
      BY <1>2, <2>1, <2>2
  <1>4. QED
    BY <1>3 DEF OutIds

LEMMA InKept ==
  ASSUME TypeOK, InIds, SameId \/ NextId, Kept(b2c, b2c')
  PROVE  InIds'
  <1>1. counter \in Nat /\ counter' \in Nat
        /\ ((counter' = counter /\ (got => got')) \/ counter' = counter + 1)
    BY DEF TypeOK, SameId, NextId
  <1>2. b2c \in Seq(Packet)
    BY DEF TypeOK
  <1>3. CASE b2c' = b2c
    BY <1>1, <1>3 DEF InIds
  <1>4. CASE b2c' = <<>>
    BY <1>4 DEF InIds
  <1>5. CASE b2c # <<>> /\ b2c' = Tail(b2c)
    <2>1. \A k \in 1 .. Len(b2c') : k + 1 \in 1 .. Len(b2c) /\ b2c'[k] = b2c[k + 1]
      BY <1>2, <1>5, TailSeq
    <2>2. QED
      BY <1>1, <2>1 DEF InIds
  <1>6. QED
    BY <1>3, <1>4, <1>5 DEF Kept

LEMMA InAnswered ==
  ASSUME TypeOK, InIds, SameId, NEW p \in Packet, Answer(p),
         p.type = "PUBACK" =>
           p.id \in 0 .. counter - 1 /\ (p.id + 1 = counter => got')
  PROVE  InIds'
  <1>1. counter \in Nat /\ counter' = counter /\ (got => got')
    BY DEF TypeOK, SameId
  <1>2. /\ Len(b2c') = Len(b2c) + 1 /\ Len(b2c) \in Nat
        /\ \A k \in 1 .. Len(b2c) : b2c'[k] = b2c[k]
        /\ b2c'[Len(b2c) + 1] = p
    BY AppendSeq DEF TypeOK, Answer
  <1>3. ASSUME NEW k \in 1 .. Len(b2c'), b2c'[k].type = "PUBACK"
        PROVE  /\ b2c'[k].id \in 0 .. counter' - 1
               /\ b2c'[k].id + 1 = counter' => got'
    <2>1. CASE k \in 1 .. Len(b2c)
      BY <1>1, <1>2, <1>3, <2>1 DEF InIds
    <2>2. CASE k = Len(b2c) + 1
      BY <1>1, <1>2, <1>3, <2>2
    <2>3. QED
      BY <1>2, <2>1, <2>2
  <1>4. QED
    BY <1>3 DEF InIds

\* A packet the client may send.
Sends(p) == /\ p \in Packet /\ c2b' = Append(c2b, p)
            /\ p.type = "PUBLISH" => p.id = NoId \/ (NewId /\ counter < MaxIds /\ p.id = counter)

LEMMA PktSends ==
  ASSUME NEW type \in PacketTypes, NEW id \in Int, NEW sub \in Subs \cup {NoSub},
         type = "SUBSCRIBE" => sub \in Subs,
         Send(Pkt(type, id, sub)),
         type = "PUBLISH" => id = NoId \/ (NewId /\ counter < MaxIds /\ id = counter)
  PROVE  \E p \in Packet : Sends(p)
  BY PktType DEF Sends, Send, Pkt

LEMMA HandleSends ==
  ASSUME TypeOK, NEW p \in Packet, HandleSubscriptionPacket(p)
  PROVE  Kept(c2b, c2b') \/ \E q \in Packet : Sends(q)
  BY PktSends DEF NotSent, HandleSubscriptionPacket, Kept, Packet, PacketTypes, NoId

LEMMA SubscribeAfterSends ==
  ASSUME TypeOK, NEW i \in 0 .. MAXSUBSCRIPTIONS, SubscribeAfter(i)
  PROVE  Kept(c2b, c2b') \/ \E q \in Packet : Sends(q)
  <1>1. CASE Defined(i) = {}
    BY <1>1 DEF SubscribeAfter, Kept
  <1>2. CASE Defined(i) # {}
    <2> DEFINE j == First(Defined(i))
    <2>1. j \in Slots /\ slots[j] \in Subs
      BY <1>2, FirstIn DEF Defined, TypeOK
    <2>2. Send(Pkt("SUBSCRIBE", counter, slots[j])) \/ NotSent
      BY <1>2 DEF SubscribeAfter
    <2>3. QED
      BY <2>1, <2>2, PktSends DEF NotSent, Kept, TypeOK, PacketTypes
  <1>3. QED
    BY <1>1, <1>2

LEMMA ClientSends ==
  ASSUME TypeOK, Call \/ Arrival \/ Timeout, ~Connect
  PROVE  Kept(c2b, c2b') \/ \E q \in Packet : Sends(q)
  <1> USE DEF PacketTypes, NoId
  <1>0. counter \in Int
    BY DEF TypeOK
  <1>1. CASE ConnectFails \/ Disconnect \/ \E s \in Subs : Subscribe(s)
    BY <1>1 DEF ConnectFails, Disconnect, Subscribe, Gone, Kept
  <1>2. CASE Publish0
    BY <1>2, PktSends DEF NotSent, Publish0, Kept
  <1>3. CASE Publish1
    BY <1>0, <1>3, PktSends DEF NotSent, Publish1, Kept
  <1>4. ASSUME NEW s \in Subs, Unsubscribe(s)
        PROVE  Kept(c2b, c2b') \/ \E q \in Packet : Sends(q)
    BY <1>0, <1>4, PktSends DEF NotSent, Unsubscribe, Unsubscribing, Kept
  <1>5. CASE \E num \in 1 .. MaxPings : Ping(num)
    BY <1>5, PktSends DEF NotSent, Ping, Kept
  <1>6. CASE ReadSubscription
    <2>1. Head(b2c) \in Packet
      BY <1>6, TailSeq DEF ReadSubscription, TypeOK
    <2>2. QED
      BY <1>6, <2>1, HandleSends DEF ReadSubscription
  <1>7. ASSUME NEW type, PassOver(type)
        PROVE  Kept(c2b, c2b') \/ \E q \in Packet : Sends(q)
    <2>1. Head(b2c) \in Packet
      BY <1>7, TailSeq DEF PassOver, ReadOther, TypeOK
    <2>2. QED
      BY <1>7, <2>1, HandleSends DEF PassOver
  <1>8. CASE ConnackAccepted
    BY <1>8, SubscribeAfterSends DEF ConnackAccepted
  <1>9. CASE Suback
    BY <1>7, <1>9, SubscribeAfterSends DEF Suback, TypeOK
  <1>10. CASE ConnackRefused \/ Puback \/ Unsuback
    BY <1>10 DEF ConnackRefused, Puback, Unsuback, Kept
  <1>11. CASE Pingresp
    BY <1>7, <1>11 DEF Pingresp, Kept
  <1>12. CASE ConnectTimeout
    <2>1. CASE UNCHANGED c2b
      BY <2>1 DEF Kept
    <2>2. CASE pc = "SUBACK" /\ Send(Pkt("SUBSCRIBE", counter, slots[slot]))
      <3>1. slots[slot] \in Subs
        BY <2>2 DEF TypeOK
      <3>2. QED
        BY <1>0, <2>2, <3>1, PktSends
    <2>3. QED
      BY <1>12, <2>1, <2>2 DEF NotSent, ConnectTimeout
  <1>13. CASE PublishTimeout \/ UnsubscribeTimeout
    BY <1>13 DEF PublishTimeout, UnsubscribeTimeout, Kept
  <1>14. CASE PingTimeout
    BY <1>14, PktSends DEF NotSent, PingTimeout, Kept
  <1>15. QED
    BY <1>1, <1>2, <1>3, <1>4, <1>5, <1>6, <1>8, <1>9, <1>10, <1>11, <1>12,
       <1>13, <1>14 DEF Call, Arrival, Timeout

LEMMA OutStep ==
  ASSUME TypeOK, Budget, OutIds, [Next]_vars
  PROVE  OutIds'
  <1>1. SameId \/ NextId
    BY BudgetStep
  <1>2. CASE Connect
    <2>1. c2b' = <<>> \/ (Len(c2b') = 1 /\ c2b'[1].type = "CONNECT")
      BY <1>2 DEF Connect, Pkt
    <2>2. QED
      BY <2>1 DEF OutIds
  <1>3. CASE Kept(c2b, c2b')
    BY <1>1, <1>3, OutKept
  <1>4. ASSUME NEW p \in Packet, Sends(p)
        PROVE  OutIds'
    <2>1. NewId /\ counter < MaxIds => NextId
      BY NewIdIsNext
    <2>2. QED
      BY <1>1, <1>4, <2>1, OutSent DEF Sends
  <1>5. CASE \/ Lost \/ BrokerRejects \/ BrokerRead \/ UNCHANGED vars
             \/ \E s \in Subs, qos \in {0, 1} : BrokerPublish(s, qos)
    <2>1. Kept(c2b, c2b')
      BY <1>5 DEF Lost, BrokerRejects, Gone, BrokerRead, BrokerPublish, vars, Kept
    <2>2. QED
      BY <1>1, <2>1, OutKept
  <1>6. QED
    BY <1>2, <1>3, <1>4, <1>5, ClientSends DEF Next

LEMMA ClientReads ==
  ASSUME TypeOK, Call \/ Arrival \/ Timeout
  PROVE  Kept(b2c, b2c')
  BY DEF Call, Arrival, Timeout, Kept, ConnectFails, Connect, Disconnect, Gone,
         Publish0, Publish1, Subscribe, Unsubscribe, Ping, ReadSubscription,
         ConnackAccepted, ConnackRefused, Suback, Puback, Unsuback, Pingresp,
         PassOver, Read, ReadOther, ConnectTimeout, PublishTimeout,
         UnsubscribeTimeout, PingTimeout

\* What the broker answers to a message in flight.
LEMMA TakeAnswer ==
  ASSUME TypeOK, Budget, OutIds, BrokerRead, BrokerTake, Head(c2b).id # NoId
  PROVE  /\ Answer(Pkt("PUBACK", Head(c2b).id, NoSub))
         /\ Head(c2b).id \in 0 .. counter - 1
         /\ Head(c2b).id + 1 = counter => got'
  <1> DEFINE id == Head(c2b).id
  <1>1. id \in 0 .. counter - 1
    <2>1. Head(c2b) = c2b[1] /\ 1 \in 1 .. Len(c2b)
      BY TailSeq DEF TypeOK, BrokerRead
    <2>2. QED
      BY <2>1 DEF OutIds, BrokerTake
  <1>2. (id + 1) % ID_MOD = id + 1
    <2>1. id + 1 \in 0 .. MaxIds
      BY <1>1 DEF Budget, TypeOK
    <2>2. QED
      BY <2>1, NoWrap
  <1>3. got' = (got \/ (id + 1) % ID_MOD = counter)
    BY DEF BrokerTake
  <1>4. id + 1 = counter => got'
    <2> SUFFICES ASSUME id + 1 = counter PROVE got'
      OBVIOUS
    <2>1. (id + 1) % ID_MOD = counter
      BY <1>2
    <2>2. QED
      BY <1>3, <2>1, Zenon
  <1>5. QED
    BY <1>1, <1>4 DEF BrokerTake

LEMMA InStep ==
  ASSUME TypeOK, Budget, OutIds, InIds, [Next]_vars
  PROVE  InIds'
  <1> USE DEF PacketTypes, NoId
  <1>1. SameId \/ NextId
    BY BudgetStep
  <1>2. CASE Kept(b2c, b2c')
    BY <1>1, <1>2, InKept
  <1>3. CASE Call \/ Arrival \/ Timeout \/ Lost \/ BrokerRejects \/ UNCHANGED vars
    BY <1>2, <1>3, ClientReads DEF Lost, BrokerRejects, Gone, vars, Kept
  <1>4. ASSUME NEW type \in PacketTypes, NEW id \in Int, NEW sub \in Subs \cup {NoSub},
               type # "SUBSCRIBE", Answer(Pkt(type, id, sub)), counter' = counter,
               type = "PUBACK" => id \in 0 .. counter - 1 /\ (id + 1 = counter => got')
        PROVE  InIds'
    <2>1. Pkt(type, id, sub) \in Packet
      BY <1>4, PktType
    <2>2. SameId
      BY <1>1, <1>4 DEF SameId, NextId, TypeOK
    <2>3. QED
      BY <1>4, <2>1, <2>2, InAnswered DEF Pkt
  <1>5. CASE BrokerRead
    <2>1. counter' = counter /\ Head(c2b).id \in Int /\ NoSub \in Subs \cup {NoSub}
      BY <1>5, TailSeq DEF BrokerRead, TypeOK, Packet
    <2>2. CASE \E code \in {0, 5} : BrokerConnect(code)
      BY <1>4, <2>1, <2>2 DEF BrokerConnect
    <2>3. CASE \E ok \in BOOLEAN : BrokerSubscribe(ok)
      BY <1>4, <2>1, <2>3 DEF BrokerSubscribe
    <2>4. CASE BrokerUnsubscribe
      BY <1>4, <2>1, <2>4 DEF BrokerUnsubscribe
    <2>5. CASE BrokerTake
      <3>1. CASE Head(c2b).id = NoId
        BY <1>2, <2>5, <3>1 DEF BrokerTake, Kept
      <3>2. CASE Head(c2b).id # NoId
        BY <1>4, <1>5, <2>1, <2>5, <3>2, TakeAnswer
      <3>3. QED
        BY <3>1, <3>2
    <2>6. CASE BrokerPing
      BY <1>4, <2>1, <2>6 DEF BrokerPing
    <2>7. CASE BrokerAcked
      BY <1>2, <2>7 DEF BrokerAcked, Kept
    <2>8. QED
      BY <1>5, <2>2, <2>3, <2>4, <2>5, <2>6, <2>7 DEF BrokerRead
  <1>6. ASSUME NEW s \in Subs, NEW qos \in {0, 1}, BrokerPublish(s, qos)
        PROVE  InIds'
    BY <1>4, <1>6 DEF BrokerPublish, ids
  <1>7. QED
    BY <1>3, <1>5, <1>6 DEF Next

\* Only Puback returns true from a publish of QoS 1, and what it read is the
\* acknowledgement of the last message.
LEMMA PublishedStep ==
  ASSUME TypeOK, Budget, InIds, PublishedIsTaken, [Next]_vars
  PROVE  PublishedIsTaken'
  <1> USE DEF TRUTH, FALSITY
  <1> DEFINE Other == ~Returned("publish1", TRUTH)'
  <1>1. ASSUME NEW op, NEW val, Return(op, val), op # "publish1" \/ val # TRUTH
        PROVE  Other
    BY <1>1 DEF Return, Returned
  <1>2. CASE Other
    BY <1>2 DEF PublishedIsTaken
  <1>3. CASE UNCHANGED <<pc, ret>> /\ (got => got')
    BY <1>3 DEF PublishedIsTaken, Returned
  <1>4. ASSUME NEW i, SubscribeAfter(i) PROVE Other
    BY <1>1, <1>4 DEF SubscribeAfter, Returned
  <1>5. CASE Call
    BY <1>1, <1>2, <1>5
       DEF Call, ConnectFails, Connect, Disconnect, Publish0, Publish1,
           Subscribe, Unsubscribe, Ping, ReadSubscription, Returned
  <1>6. CASE Puback
    <2>1. got' = got
      BY <1>6 DEF Puback, ids
    <2>2. CASE ~Confirms(Head(b2c))
      BY <1>1, <1>2, <1>6, <2>2 DEF Puback
    <2>3. CASE Confirms(Head(b2c))
      <3>1. Head(b2c) = b2c[1] /\ 1 \in 1 .. Len(b2c)
        BY <1>6, TailSeq DEF Puback, TypeOK
      <3>2. /\ Head(b2c).id \in 0 .. counter - 1
            /\ Head(b2c).id + 1 = counter => got
        BY <2>3, <3>1 DEF InIds, Confirms
      <3>3. Head(b2c).id + 1 \in 0 .. MaxIds
        BY <3>2 DEF Budget, TypeOK
      <3>4. got
        BY <2>3, <3>2, <3>3, NoWrap DEF Confirms
      <3>5. QED
        BY <2>1, <3>4 DEF PublishedIsTaken
    <2>4. QED
      BY <2>2, <2>3
  <1>7. CASE PassOver("SUBACK") \/ PassOver("PINGRESP")
    BY <1>3, <1>7 DEF PassOver, client, ids
  <1>8. CASE Arrival /\ ~Puback
    BY <1>1, <1>2, <1>4, <1>7, <1>8
       DEF Arrival, ConnackAccepted, ConnackRefused, Suback, Unsuback, Pingresp
  <1>9. CASE Timeout
    <2>1. pc # "idle"
      BY <1>9 DEF Timeout, ConnectTimeout, PublishTimeout, UnsubscribeTimeout,
                  PingTimeout
    <2>2. pc' = pc \/ Other
      BY <1>1, <1>9 DEF Timeout, ConnectTimeout, PublishTimeout,
                        UnsubscribeTimeout, PingTimeout
    <2>3. QED
      BY <1>2, <2>1, <2>2 DEF Returned
  <1>10. CASE \/ Lost \/ BrokerRejects \/ BrokerRead \/ UNCHANGED vars
              \/ \E s \in Subs, qos \in {0, 1} : BrokerPublish(s, qos)
    <2>1. UNCHANGED <<pc, ret, counter>>
      BY <1>10 DEF Lost, BrokerRejects, BrokerRead, BrokerPublish, vars, client, ids
    <2>2. got => got'
      BY <2>1, BudgetStep DEF SameId, NextId, TypeOK
    <2>3. QED
      BY <1>3, <2>1, <2>2
  <1>11. QED
    BY <1>5, <1>6, <1>8, <1>9, <1>10 DEF Next

LEMMA InitIInv == Init => IInv
  BY InitType DEF Init, IInv, Budget, OutIds, InIds, PublishedIsTaken, Returned

LEMMA IInvStep == IInv /\ [Next]_vars => IInv'
  <1> SUFFICES ASSUME IInv, [Next]_vars PROVE IInv'
    OBVIOUS
  <1>1. TypeOK'
    BY CallType, ArrivalType, TimeoutType, NetworkType, StutterType DEF Next, IInv
  <1>2. QED
    BY <1>1, BudgetStep, OutStep, InStep, PublishedStep DEF IInv

\* A publish of QoS 1 that returns true was taken by the broker, whatever
\* acknowledgements of given-up calls were still in the stream: for any number
\* of subscriptions, attempts and packets in flight, as long as the identifiers
\* have not wrapped around.
THEOREM PublishedIsTakenHolds == Spec => []PublishedIsTaken
  <1>1. IInv => PublishedIsTaken
    BY DEF IInv
  <1>2. QED
    BY <1>1, InitIInv, IInvStep, PTL DEF Spec

-----------------------------------------------------------------------------
(* A ping that returns true was answered: the answers in flight are of     *)
(* this connection.                                                        *)

Pongs == \A k \in 1 .. Len(b2c) : b2c[k].type = "PINGRESP" => ponged

LEMMA PongsStep == TypeOK /\ Pongs /\ [Next]_vars => Pongs'
  <1> SUFFICES ASSUME TypeOK, Pongs, [Next]_vars PROVE Pongs'
    OBVIOUS
  <1> USE DEF PacketTypes, NoId
  <1>0. b2c \in Seq(Packet)
    BY DEF TypeOK
  <1>1. CASE b2c' = <<>>
    BY <1>1 DEF Pongs
  <1>2. CASE Kept(b2c, b2c') /\ ponged' = ponged
    <2>1. CASE b2c # <<>> /\ b2c' = Tail(b2c)
      <3>1. \A k \in 1 .. Len(b2c') : k + 1 \in 1 .. Len(b2c) /\ b2c'[k] = b2c[k + 1]
        BY <1>0, <2>1, TailSeq
      <3>2. QED
        BY <1>2, <3>1 DEF Pongs
    <2>2. QED
      BY <1>1, <1>2, <2>1 DEF Pongs, Kept
  <1>3. CASE Call \/ Arrival \/ Timeout
    <2>1. b2c' = <<>> \/ ponged' = ponged
      BY <1>3 DEF Call, Arrival, Timeout, broker, ConnectFails, Connect, Disconnect,
                  Gone, Publish0, Publish1, Subscribe, Unsubscribe, Ping,
                  ReadSubscription, ConnackAccepted, ConnackRefused, Suback, Puback,
                  Unsuback, Pingresp, PassOver, ConnectTimeout, PublishTimeout,
                  UnsubscribeTimeout, PingTimeout
    <2>2. QED
      BY <1>1, <1>2, <1>3, <2>1, ClientReads
  <1>4. CASE Lost \/ BrokerRejects
    BY <1>1, <1>4 DEF Lost, BrokerRejects, Gone
  <1>5. ASSUME NEW p \in Packet, Answer(p), ponged' = (ponged \/ p.type = "PINGRESP")
        PROVE  Pongs'
    <2>1. /\ Len(b2c') = Len(b2c) + 1 /\ Len(b2c) \in Nat
          /\ \A k \in 1 .. Len(b2c) : b2c'[k] = b2c[k]
          /\ b2c'[Len(b2c) + 1] = p
      BY <1>0, <1>5, AppendSeq DEF Answer
    <2>2. ASSUME NEW k \in 1 .. Len(b2c'), b2c'[k].type = "PINGRESP"
          PROVE  ponged'
      <3>1. ponged \/ p.type = "PINGRESP"
        BY <2>1, <2>2 DEF Pongs
      <3>2. QED
        BY <1>5, <3>1, Zenon
    <2>3. QED
      BY <2>2 DEF Pongs
  <1>6. ASSUME NEW type \in PacketTypes, NEW id \in Int, NEW sub \in Subs \cup {NoSub},
               type # "SUBSCRIBE", Answer(Pkt(type, id, sub)),
               \/ type # "PINGRESP" /\ ponged' = ponged
               \/ type = "PINGRESP" /\ ponged' = TRUE
        PROVE  Pongs'
    <2>1. Pkt(type, id, sub) \in Packet /\ Pkt(type, id, sub).type = type
      BY <1>6, PktType DEF Pkt
    <2>2. ponged \in BOOLEAN
      BY DEF TypeOK
    <2>3. ponged' = (ponged \/ Pkt(type, id, sub).type = "PINGRESP")
      BY <1>6, <2>1, <2>2
    <2>4. QED
      BY <1>5, <1>6, <2>1, <2>3
  <1>7. CASE BrokerRead
    <2>1. Head(c2b).id \in Int /\ NoSub \in Subs \cup {NoSub}
      BY <1>7, TailSeq DEF BrokerRead, TypeOK, Packet
    <2>2. CASE \E code \in {0, 5} : BrokerConnect(code)
      BY <1>6, <2>1, <2>2 DEF BrokerConnect
    <2>3. CASE \E ok \in BOOLEAN : BrokerSubscribe(ok)
      BY <1>6, <2>1, <2>3 DEF BrokerSubscribe
    <2>4. CASE BrokerUnsubscribe
      BY <1>6, <2>1, <2>4 DEF BrokerUnsubscribe
    <2>5. CASE BrokerTake
      BY <1>2, <1>6, <2>1, <2>5 DEF BrokerTake, Kept
    <2>6. CASE BrokerPing
      BY <1>6, <2>1, <2>6 DEF BrokerPing
    <2>7. CASE BrokerAcked
      BY <1>2, <2>7 DEF BrokerAcked, Kept, broker
    <2>8. QED
      BY <1>7, <2>2, <2>3, <2>4, <2>5, <2>6, <2>7 DEF BrokerRead
  <1>8. ASSUME NEW s \in Subs, NEW qos \in {0, 1}, BrokerPublish(s, qos)
        PROVE  Pongs'
    BY <1>6, <1>8 DEF BrokerPublish, broker
  <1>9. CASE UNCHANGED vars
    BY <1>2, <1>9 DEF vars, broker, Kept
  <1>10. QED
    BY <1>3, <1>4, <1>7, <1>8, <1>9 DEF Next

\* Only Pingresp returns true from a ping.
LEMMA PingStep ==
  ASSUME TypeOK, Pongs, PingIsHeard, [Next]_vars
  PROVE  PingIsHeard'
  <1> USE DEF TRUTH, FALSITY
  <1> DEFINE Other == ~Returned("ping", TRUTH)' \/ ~link'
  <1>1. ASSUME NEW op, NEW val, Return(op, val), op # "ping" \/ val # TRUTH
        PROVE  Other
    BY <1>1 DEF Return, Returned
  <1>2. CASE Other
    BY <1>2 DEF PingIsHeard
  <1>3. CASE UNCHANGED <<pc, ret, link>> /\ (ponged => ponged')
    BY <1>3 DEF PingIsHeard, Returned
  <1>4. ASSUME NEW i, SubscribeAfter(i) PROVE Other
    BY <1>1, <1>4 DEF SubscribeAfter, Returned
  <1>5. CASE Call
    BY <1>1, <1>2, <1>5
       DEF Call, ConnectFails, Connect, Disconnect, Publish0, Publish1,
           Subscribe, Unsubscribe, Ping, ReadSubscription, Returned
  <1>6. CASE PassOver("SUBACK") \/ PassOver("PINGRESP")
    BY <1>3, <1>6 DEF PassOver, client, broker
  <1>7. CASE Pingresp
    <2>1. CASE Read("PINGRESP") /\ UNCHANGED broker
      <3>1. Head(b2c) = b2c[1] /\ 1 \in 1 .. Len(b2c)
        BY <2>1, TailSeq DEF Read, TypeOK
      <3>2. ponged
        BY <2>1, <3>1 DEF Read, Pongs
      <3>3. QED
        BY <2>1, <3>2 DEF PingIsHeard, broker
    <2>2. QED
      BY <1>6, <1>7, <2>1 DEF Pingresp
  <1>8. CASE Arrival /\ ~Pingresp
    BY <1>1, <1>2, <1>4, <1>6, <1>8
       DEF Arrival, ConnackAccepted, ConnackRefused, Suback, Puback, Unsuback
  <1>9. CASE Timeout
    <2>1. pc # "idle"
      BY <1>9 DEF Timeout, ConnectTimeout, PublishTimeout, UnsubscribeTimeout,
                  PingTimeout
    <2>2. pc' = pc \/ Other
      BY <1>1, <1>9 DEF Timeout, ConnectTimeout, PublishTimeout,
                        UnsubscribeTimeout, PingTimeout
    <2>3. QED
      BY <1>2, <2>1, <2>2 DEF Returned
  <1>10. CASE Lost \/ BrokerRejects
    BY <1>2, <1>10 DEF Lost, BrokerRejects
  <1>11. CASE BrokerRead
    BY <1>3, <1>11 DEF BrokerRead, client, BrokerConnect, BrokerSubscribe,
                       BrokerUnsubscribe, BrokerTake, BrokerPing, BrokerAcked, broker
  <1>12. CASE UNCHANGED vars \/ \E s \in Subs, qos \in {0, 1} : BrokerPublish(s, qos)
    BY <1>3, <1>12 DEF BrokerPublish, vars, client, broker
  <1>13. QED
    BY <1>5, <1>7, <1>8, <1>9, <1>10, <1>11, <1>12 DEF Next

\* A ping that returns true was answered by the broker on this connection: a
\* PINGRESP read late, of an attempt or a call that was given up, is still one.
THEOREM PingIsHeardHolds == Spec => []PingIsHeard
  <1>1. Init => Pongs /\ PingIsHeard
    BY DEF Init, Pongs, PingIsHeard, Returned
  <1>2. TypeOK /\ Pongs /\ PingIsHeard /\ [Next]_vars => Pongs' /\ PingIsHeard'
    BY PongsStep, PingStep
  <1>3. QED
    BY <1>1, <1>2, TypeCorrect, PTL DEF Spec

-----------------------------------------------------------------------------
(* The table of the client and the subscriptions of the broker agree.      *)

\* What channel q says about subscription s, and the last it says.
WordsIn(q, s) == {k \in 1 .. Len(q) : /\ q[k].sub = s
                                      /\ q[k].type \in {"SUBSCRIBE", "UNSUBSCRIBE"}}

LastIn(q, s, k) == k \in WordsIn(q, s) /\ \A j \in WordsIn(q, s) : j <= k

\* The broker, which grants g, will not serve s once it has read q.
Quiet(q, g, s) ==
  /\ WordsIn(q, s) = {} => s \notin g
  /\ \A k \in 1 .. Len(q) : LastIn(q, s, k) => q[k].type = "UNSUBSCRIBE"

\* A channel that says something about s says something last.
LEMMA LastExists ==
  ASSUME NEW q \in Seq(Packet), NEW s, WordsIn(q, s) # {}
  PROVE  \E k \in 1 .. Len(q) : LastIn(q, s, k)
  <1> DEFINE n == Len(q)
             T == {m \in Nat : n - m \in WordsIn(q, s)}
  <1>1. n \in Nat /\ WordsIn(q, s) \subseteq 1 .. n
    BY LenProperties DEF WordsIn
  <1>2. T \subseteq Nat /\ T # {}
    <2>1. PICK k \in WordsIn(q, s) : TRUE
      OBVIOUS
    <2>2. n - k \in Nat /\ n - (n - k) = k
      BY <1>1, <2>1
    <2>3. n - k \in T
      BY <2>1, <2>2
    <2>4. QED
      BY <2>3
  <1>3. PICK m \in T : \A l \in T : ~ (<<l, m>> \in OpToRel(<, Nat))
    <2> HIDE DEF T
    <2> QED  BY <1>2, NatLessThanWellFounded, WFMin, Zenon
  <1>4. \A l \in T : m <= l
    <2> TAKE l \in T
    <2>1. <<l, m>> \in Nat \X Nat
      BY <1>2
    <2>2. ~ (l < m)
      BY <1>3, <2>1, Zenon DEF OpToRel
    <2>3. QED
      BY <1>2, <2>2
  <1>5. n - m \in WordsIn(q, s) /\ m \in Nat
    BY <1>2
  <1>6. ASSUME NEW j \in WordsIn(q, s) PROVE j <= n - m
    <2>1. j \in 1 .. n /\ n - j \in Nat /\ n - (n - j) = j
      BY <1>1
    <2>2. n - j \in T
      BY <2>1
    <2>3. m <= n - j
      BY <1>4, <2>2
    <2>4. QED
      BY <1>1, <1>5, <2>1, <2>3
  <1>7. QED
    BY <1>1, <1>5, <1>6 DEF LastIn

\* NoOrphan without the choice of the last word.
LEMMA QuietIsNoOrphan ==
  ASSUME TypeOK
  PROVE  NoOrphan <=> \A s \in Subs \ Table : Quiet(c2b, granted, s)
  <1>1. ASSUME NEW s \in Subs
        PROVE  Quiet(c2b, granted, s)
                 <=> IF Words(s) = {} THEN s \notin granted
                                      ELSE LastWord(s) = "UNSUBSCRIBE"
    <2>1. Words(s) = WordsIn(c2b, s) /\ Words(s) \subseteq Int
      BY DEF Words, WordsIn
    <2>2. CASE Words(s) = {}
      BY <2>1, <2>2 DEF Quiet, LastIn
    <2>3. CASE Words(s) # {}
      <3>1. PICK k \in 1 .. Len(c2b) : LastIn(c2b, s, k)
        BY <2>1, <2>3, LastExists DEF TypeOK
      <3>2. \A l \in Words(s) : (\A j \in Words(s) : j <= l) => l = k
        BY <2>1, <3>1 DEF LastIn
      <3>3. k \in Words(s) /\ \A j \in Words(s) : j <= k
        BY <2>1, <3>1 DEF LastIn
      <3>4. (CHOOSE l \in Words(s) : \A j \in Words(s) : j <= l) = k
        BY <3>2, <3>3
      <3>5. LastWord(s) = c2b[k].type
        BY <3>4 DEF LastWord
      <3>6. \A l \in 1 .. Len(c2b) : LastIn(c2b, s, l) => l = k
        BY <2>1, <3>2 DEF LastIn
      <3>7. QED
        BY <2>1, <2>3, <3>1, <3>5, <3>6 DEF Quiet
    <2>4. QED
      BY <2>2, <2>3
  <1>2. QED
    BY <1>1 DEF NoOrphan

\* Every packet but a SUBSCRIBE leaves the broker as quiet as it was, and an
\* UNSUBSCRIBE makes it quiet.
LEMMA QuietAppend ==
  ASSUME NEW q \in Seq(Packet), NEW p \in Packet, NEW g, NEW s,
         \/ Quiet(q, g, s) /\ ~(p.type = "SUBSCRIBE" /\ p.sub = s)
         \/ p.type = "UNSUBSCRIBE" /\ p.sub = s
  PROVE  Quiet(Append(q, p), g, s)
  <1> DEFINE r == Append(q, p)
             n == Len(q)
  <1>1. /\ n \in Nat /\ Len(r) = n + 1 /\ r[n + 1] = p
        /\ \A k \in 1 .. n : r[k] = q[k]
    BY AppendSeq, LenProperties
  <1> HIDE DEF r, n
  <1>2. WordsIn(q, s) \subseteq WordsIn(r, s) /\ WordsIn(q, s) \subseteq 1 .. n
    BY <1>1 DEF WordsIn, n
  <1>3. CASE p.sub = s /\ p.type \in {"SUBSCRIBE", "UNSUBSCRIBE"}
    <2>1. p.type = "UNSUBSCRIBE"
      BY <1>3
    <2>2. n + 1 \in WordsIn(r, s)
      BY <1>1, <1>3 DEF WordsIn
    <2>3. ASSUME NEW k \in 1 .. Len(r), LastIn(r, s, k)
          PROVE  r[k].type = "UNSUBSCRIBE"
      <3>1. k = n + 1
        BY <1>1, <2>2, <2>3 DEF LastIn
      <3>2. QED
        BY <1>1, <2>1, <3>1
    <2>4. QED
      BY <2>2, <2>3 DEF Quiet, r
  <1>4. CASE ~(p.sub = s /\ p.type \in {"SUBSCRIBE", "UNSUBSCRIBE"})
    <2>1. WordsIn(r, s) = WordsIn(q, s)
      BY <1>1, <1>4 DEF WordsIn, n
    <2>2. Quiet(q, g, s)
      BY <1>4
    <2>3. ASSUME NEW k \in 1 .. Len(r), LastIn(r, s, k)
          PROVE  r[k].type = "UNSUBSCRIBE"
      <3>1. k \in 1 .. n /\ LastIn(q, s, k)
        BY <1>2, <2>1, <2>3 DEF LastIn
      <3>2. QED
        BY <1>1, <2>2, <3>1 DEF Quiet, n
    <2>4. QED
      BY <2>1, <2>2, <2>3 DEF Quiet, r
  <1>5. QED
    BY <1>3, <1>4

\* A broker that does with the first packet as it says stays quiet.
LEMMA QuietTail ==
  ASSUME NEW q \in Seq(Packet), q # <<>>, NEW g, NEW h, NEW s, Quiet(q, g, s),
         s \in h => s \in g \/ (Head(q).type = "SUBSCRIBE" /\ Head(q).sub = s),
         Head(q).type = "UNSUBSCRIBE" /\ Head(q).sub = s => s \notin h
  PROVE  Quiet(Tail(q), h, s)
  <1> DEFINE r == Tail(q)
  <1>1. /\ Head(q) = q[1] /\ 1 \in 1 .. Len(q) /\ Len(q) \in Nat
        /\ Len(r) = Len(q) - 1
        /\ \A k \in 1 .. Len(r) : k + 1 \in 1 .. Len(q) /\ r[k] = q[k + 1]
    BY TailSeq, LenProperties
  <1> HIDE DEF r
  <1>2. \A k \in 1 .. Len(r) : k \in WordsIn(r, s) <=> k + 1 \in WordsIn(q, s)
    BY <1>1 DEF WordsIn
  <1>3. /\ WordsIn(r, s) \subseteq 1 .. Len(r)
        /\ WordsIn(q, s) \subseteq 1 .. Len(q)
    BY DEF WordsIn
  <1>4. \A j \in WordsIn(q, s) : j = 1 \/ (j - 1 \in 1 .. Len(r) /\ j - 1 \in WordsIn(r, s))
    <2> TAKE j \in WordsIn(q, s)
    <2>1. CASE j # 1
      <3>1. j - 1 \in 1 .. Len(r) /\ (j - 1) + 1 = j
        BY <1>1, <1>3, <2>1
      <3>2. QED
        BY <1>2, <3>1
    <2>2. QED
      BY <2>1
  <1>5. ASSUME WordsIn(r, s) = {} PROVE s \notin h
    <2>1. CASE WordsIn(q, s) = {}
      <3>1. ~(Head(q).type = "SUBSCRIBE" /\ Head(q).sub = s)
        BY <1>1, <2>1 DEF WordsIn
      <3>2. QED
        BY <2>1, <3>1 DEF Quiet
    <2>2. CASE WordsIn(q, s) # {}
      <3>1. \A j \in WordsIn(q, s) : j = 1
        BY <1>4, <1>5
      <3>2. LastIn(q, s, 1)
        BY <2>2, <3>1 DEF LastIn
      <3>3. q[1].type = "UNSUBSCRIBE" /\ q[1].sub = s
        BY <1>1, <3>2 DEF Quiet, LastIn, WordsIn
      <3>4. QED
        BY <1>1, <3>3
    <2>3. QED
      BY <2>1, <2>2
  <1>6. ASSUME NEW k \in 1 .. Len(r), LastIn(r, s, k)
        PROVE  r[k].type = "UNSUBSCRIBE"
    <2>1. k + 1 \in WordsIn(q, s) /\ k + 1 \in 1 .. Len(q) /\ r[k] = q[k + 1]
      BY <1>1, <1>2, <1>6 DEF LastIn
    <2>2. \A j \in WordsIn(q, s) : j <= k + 1
      BY <1>1, <1>3, <1>4, <1>6 DEF LastIn
    <2>3. QED
      BY <2>1, <2>2 DEF Quiet, LastIn
  <1>7. QED
    BY <1>5, <1>6 DEF Quiet, r

\* What the client says: it subscribes to what is in its table only, and what
\* leaves the table is unsubscribed in the same step.
Says(p) ==
  /\ p \in Packet /\ c2b' = Append(c2b, p)
  /\ p.type = "SUBSCRIBE" => p.sub \in Table'
  /\ \A s \in Table \ Table' : p.type = "UNSUBSCRIBE" /\ p.sub = s

Silent == c2b' = c2b /\ Table' = Table

\* A packet that is not about the table.
LEMMA SaysOther ==
  ASSUME NEW type \in PacketTypes \ {"SUBSCRIBE"}, NEW id \in Int,
         NEW sub \in Subs \cup {NoSub}, slots' = slots, Send(Pkt(type, id, sub))
  PROVE  \E p \in Packet : Says(p)
  <1>1. Pkt(type, id, sub) \in Packet /\ Pkt(type, id, sub).type = type
    BY PktType DEF Pkt
  <1>2. QED
    BY <1>1 DEF Says, Send, Table

\* A SUBSCRIBE for what a slot holds.
LEMMA SaysSubscribe ==
  ASSUME NEW i \in Slots, slots[i] \in Subs, counter \in Int, slots' = slots,
         Send(Pkt("SUBSCRIBE", counter, slots[i]))
  PROVE  \E p \in Packet : Says(p)
  <1>1. /\ Pkt("SUBSCRIBE", counter, slots[i]) \in Packet
        /\ Pkt("SUBSCRIBE", counter, slots[i]).sub \in Table'
    BY PktType DEF Pkt, PacketTypes, Table
  <1>2. Pkt("SUBSCRIBE", counter, slots[i]).type = "SUBSCRIBE"
    BY DEF Pkt
  <1>3. QED
    BY <1>1, <1>2 DEF Says, Send, Table

LEMMA SubscribeAfterSays ==
  ASSUME TypeOK, NEW i \in 0 .. MAXSUBSCRIPTIONS, SubscribeAfter(i)
  PROVE  Silent \/ \E p \in Packet : Says(p)
  <1>1. CASE Defined(i) = {}
    BY <1>1 DEF SubscribeAfter, Silent, Table
  <1>2. CASE Defined(i) # {}
    <2>1. PICK j \in Slots : j = First(Defined(i)) /\ slots[j] \in Subs
      BY <1>2, FirstIn DEF Defined, TypeOK
    <2>2. slots' = slots /\ (Send(Pkt("SUBSCRIBE", counter, slots[j])) \/ NotSent)
      BY <1>2, <2>1 DEF SubscribeAfter
    <2>3. QED
      BY <2>1, <2>2, SaysSubscribe DEF NotSent, Silent, Table, TypeOK
  <1>3. QED
    BY <1>1, <1>2

LEMMA PassOverSays ==
  ASSUME TypeOK, slots' = slots, b2c # <<>>, HandleSubscriptionPacket(Head(b2c))
  PROVE  Silent \/ \E p \in Packet : Says(p)
  <1>1. Head(b2c) \in Packet
    BY TailSeq DEF TypeOK
  <1>2. Head(b2c).sub \in Subs \cup {NoSub}
    BY <1>1 DEF Packet
  <1>3. QED
    BY <1>2, SaysOther DEF NotSent, HandleSubscriptionPacket, Silent, Table, PacketTypes, NoId

\* Unsubscribing takes one slot out of the table, and says so.
LEMMA UnsubscribeSays ==
  ASSUME TypeOK, NEW s \in Subs, Unsubscribe(s)
  PROVE  Silent \/ \E p \in Packet : Says(p)
  <1> DEFINE p == Pkt("UNSUBSCRIBE", counter, s)
  <1>1. p \in Packet /\ p.type = "UNSUBSCRIBE" /\ p.sub = s
    BY PktType DEF Pkt, PacketTypes, TypeOK
  <1>2. CASE UNCHANGED <<slots, c2b>>
    BY <1>2 DEF Silent, Table
  <1>3. CASE SlotsOf(s) # {} /\ link /\ Unsubscribing(s)
             /\ slots' \in {slots, [slots EXCEPT ![First(SlotsOf(s))] = NoSub]}
    <2>1. c2b' = Append(c2b, p)
      BY <1>3 DEF Unsubscribing, Send
    <2>2. PICK i \in Slots : i = First(SlotsOf(s)) /\ slots[i] = s
      BY <1>3, FirstIn DEF SlotsOf
    <2>3. \A j \in Slots : slots'[j] = slots[j] \/ slots[j] = s
      BY <1>3, <2>2 DEF TypeOK
    <2>4. \A t \in Table \ Table' : t = s
      BY <2>3 DEF Table
    <2>5. QED
      BY <1>1, <2>1, <2>4 DEF Says
  <1>4. QED
    BY <1>2, <1>3 DEF NotSent, Unsubscribe

LEMMA ClientSays ==
  ASSUME TypeOK, Call \/ Arrival \/ Timeout, ~Connect
  PROVE  \/ c2b' = <<>> /\ granted' = {}
         \/ /\ UNCHANGED broker
            /\ \/ Silent \/ \E p \in Packet : Says(p)
               \/ c2b' = c2b /\ Table \subseteq Table'
  <1> USE DEF PacketTypes, NoId
  <1>0. counter \in Int /\ NoSub \in Subs \cup {NoSub}
    BY DEF TypeOK
  <1> DEFINE Goal == Silent \/ (\E p \in Packet : Says(p))
                     \/ (c2b' = c2b /\ Table \subseteq Table')
  <1>1. CASE ConnectFails \/ Disconnect
    BY <1>1 DEF ConnectFails, Disconnect, Gone
  <1>2. CASE UNCHANGED <<slots, c2b, broker>>
    BY <1>2 DEF Silent, Table
  <1>3. CASE Publish0
    BY <1>0, <1>2, <1>3, SaysOther DEF NotSent, Publish0
  <1>4. CASE Publish1
    BY <1>0, <1>2, <1>4, SaysOther DEF NotSent, Publish1
  <1>5. ASSUME NEW s \in Subs, Subscribe(s)
        PROVE  UNCHANGED broker /\ Goal
    <2>1. \A i \in Slots : slots'[i] = slots[i] \/ slots[i] = NoSub
      <3>1. Free # {} => First(Free) \in Slots /\ slots[First(Free)] = NoSub
        BY FirstIn DEF Free
      <3>2. QED
        BY <1>5, <3>1 DEF Subscribe, TypeOK
    <2>2. Table \subseteq Table'
      BY <2>1 DEF Table
    <2>3. QED
      BY <1>5, <2>2 DEF Subscribe
  <1>6. ASSUME NEW s \in Subs, Unsubscribe(s)
        PROVE  UNCHANGED broker /\ Goal
    BY <1>6, UnsubscribeSays DEF Unsubscribe
  <1>7. CASE \E num \in 1 .. MaxPings : Ping(num)
    BY <1>0, <1>2, <1>7, SaysOther DEF NotSent, Ping
  <1>8. CASE ReadSubscription
    BY <1>8, PassOverSays DEF ReadSubscription
  <1>9. ASSUME NEW type, PassOver(type)
        PROVE  UNCHANGED broker /\ Goal
    BY <1>9, PassOverSays DEF PassOver, ReadOther, client
  <1>10. CASE ConnackAccepted
    BY <1>10, SubscribeAfterSays DEF ConnackAccepted
  <1>11. CASE Suback
    BY <1>9, <1>11, SubscribeAfterSays DEF Suback, TypeOK
  <1>12. CASE ConnackRefused \/ Puback
    BY <1>2, <1>12 DEF ConnackRefused, Puback
  <1>13. CASE Unsuback
    BY <1>2, <1>13 DEF Unsuback, UNSUBACK_LEN
  <1>14. CASE Pingresp
    BY <1>2, <1>9, <1>14 DEF Pingresp
  <1>15. CASE ConnectTimeout
    <2>1. CASE UNCHANGED <<slots, c2b, broker>>
      BY <1>2, <2>1
    <2>2. CASE /\ pc = "SUBACK" /\ Send(Pkt("SUBSCRIBE", counter, slots[slot]))
               /\ UNCHANGED <<slots, broker>>
      <3>1. PICK i \in Slots : i = slot /\ slots[i] \in Subs
        BY <2>2 DEF TypeOK, Slots
      <3>2. Send(Pkt("SUBSCRIBE", counter, slots[i]))
        BY <2>2, <3>1
      <3>3. QED
        BY <1>0, <2>2, <3>1, <3>2, SaysSubscribe
    <2>3. QED
      BY <1>15, <2>1, <2>2 DEF NotSent, ConnectTimeout
  <1>16. CASE PublishTimeout \/ UnsubscribeTimeout
    BY <1>2, <1>16 DEF PublishTimeout, UnsubscribeTimeout
  <1>17. CASE PingTimeout
    BY <1>0, <1>2, <1>17, SaysOther DEF NotSent, PingTimeout
  <1>18. QED
    BY <1>1, <1>3, <1>4, <1>5, <1>6, <1>7, <1>8, <1>10, <1>11, <1>12, <1>13,
       <1>14, <1>15, <1>16, <1>17 DEF Call, Arrival, Timeout

\* What the broker does with a packet is what the packet says.
LEMMA BrokerGrants ==
  ASSUME BrokerRead, NEW s
  PROVE  /\ s \in granted' => s \in granted
                              \/ (Head(c2b).type = "SUBSCRIBE" /\ Head(c2b).sub = s)
         /\ Head(c2b).type = "UNSUBSCRIBE" /\ Head(c2b).sub = s => s \notin granted'
  BY DEF BrokerRead, BrokerConnect, BrokerSubscribe, BrokerUnsubscribe, BrokerTake,
         BrokerPing, BrokerAcked, broker

LEMMA QuietStep ==
  ASSUME TypeOK, \A s \in Subs \ Table : Quiet(c2b, granted, s), [Next]_vars
  PROVE  \A s \in Subs \ Table' : Quiet(c2b', granted', s)
  <1>0. c2b \in Seq(Packet)
    BY DEF TypeOK
  <1>1. CASE c2b' = <<>> /\ granted' = {}
    BY <1>1 DEF Quiet, WordsIn
  <1>2. CASE Connect
    <2>1. granted' = {} /\ (c2b' = <<>> \/ (Len(c2b') = 1 /\ c2b'[1].type = "CONNECT"))
      BY <1>2 DEF Connect, Pkt
    <2>2. \A s : WordsIn(c2b', s) = {}
      BY <2>1 DEF WordsIn
    <2>3. QED
      BY <2>1, <2>2 DEF Quiet, LastIn
  <1>3. CASE c2b' = c2b /\ granted' = granted /\ Table \subseteq Table'
    BY <1>3
  <1>4. ASSUME NEW p \in Packet, Says(p), granted' = granted
        PROVE  \A s \in Subs \ Table' : Quiet(c2b', granted', s)
    <2> TAKE s \in Subs \ Table'
    <2>1. CASE s \in Table
      BY <1>0, <1>4, <2>1, QuietAppend DEF Says
    <2>2. CASE s \notin Table
      BY <1>0, <1>4, <2>2, QuietAppend DEF Says
    <2>3. QED
      BY <2>1, <2>2
  <1>5. CASE (Call \/ Arrival \/ Timeout) /\ ~Connect
    BY <1>1, <1>3, <1>4, <1>5, ClientSays DEF broker, Silent
  <1>6. CASE BrokerRead
    <2>1. c2b # <<>> /\ c2b' = Tail(c2b) /\ Table' = Table
      BY <1>6 DEF BrokerRead, client, Table
    <2>2. QED
      BY <1>0, <1>6, <2>1, BrokerGrants, QuietTail
  <1>7. CASE Lost \/ BrokerRejects
    BY <1>1, <1>7 DEF Lost, BrokerRejects, Gone
  <1>8. CASE UNCHANGED vars \/ \E s \in Subs, qos \in {0, 1} : BrokerPublish(s, qos)
    BY <1>3, <1>8 DEF BrokerPublish, vars, client, broker, Table
  <1>9. QED
    BY <1>2, <1>5, <1>6, <1>7, <1>8 DEF Next

\* The other half.  While connect works through the table, and until the next
\* call once it has returned 0, no UNSUBSCRIBE is on the way, and what was asked
\* for stays asked for.
Asked(s) == s \in granted \cup refused \/ Words(s) # {}

Connecting == pc \in {"CONNACK", "SUBACK"} \/ Returned("connect", 0)

NothingUnsaid ==
  Connecting => \A k \in 1 .. Len(c2b) : c2b[k].type # "UNSUBSCRIBE"

\* The subscriptions of the table up to the one connect waits for.
AskedSoFar ==
  pc = "SUBACK" /\ link =>
    \A i \in Slots : i <= slot /\ slots[i] # NoSub => Asked(slots[i])

AskInv == NothingUnsaid /\ AskedSoFar /\ ConnectedIsAsked

\* What was asked for stays asked for when a packet is sent.
LEMMA AskedAppend ==
  ASSUME TypeOK, NEW p \in Packet, c2b' = Append(c2b, p), UNCHANGED broker,
         NEW s, Asked(s) \/ (p.type = "SUBSCRIBE" /\ p.sub = s)
  PROVE  Asked(s)'
  <1>1. /\ Len(c2b') = Len(c2b) + 1 /\ Len(c2b) \in Nat
        /\ \A k \in 1 .. Len(c2b) : c2b'[k] = c2b[k]
        /\ c2b'[Len(c2b) + 1] = p
    BY AppendSeq DEF TypeOK
  <1>2. CASE p.type = "SUBSCRIBE" /\ p.sub = s
    <2>1. Len(c2b) + 1 \in Words(s)'
      BY <1>1, <1>2 DEF Words
    <2>2. QED
      BY <2>1 DEF Asked
  <1>3. CASE s \in granted \cup refused
    BY <1>3 DEF Asked, broker
  <1>4. CASE Words(s) # {}
    <2>1. PICK k \in 1 .. Len(c2b) : k \in Words(s)
      BY <1>4 DEF Words
    <2>2. k \in Words(s)'
      BY <1>1, <2>1 DEF Words
    <2>3. QED
      BY <2>2 DEF Asked
  <1>5. QED
    BY <1>2, <1>3, <1>4 DEF Asked

\* And when the broker reads one that is not an UNSUBSCRIBE.
LEMMA AskedRead ==
  ASSUME TypeOK, BrokerRead, Head(c2b).type # "UNSUBSCRIBE", NEW s, Asked(s)
  PROVE  Asked(s)'
  <1>1. /\ Head(c2b) = c2b[1] /\ 1 \in 1 .. Len(c2b) /\ c2b' = Tail(c2b)
        /\ Len(c2b) \in Nat /\ Len(c2b') = Len(c2b) - 1
        /\ \A k \in 1 .. Len(c2b') : c2b'[k] = c2b[k + 1]
    BY TailSeq, LenProperties DEF TypeOK, BrokerRead
  <1>2. granted \cup refused \subseteq granted' \cup refused'
    BY DEF BrokerRead, BrokerConnect, BrokerSubscribe, BrokerUnsubscribe, BrokerTake,
           BrokerPing, BrokerAcked, broker
  <1>3. CASE Words(s) # {}
    <2>1. PICK k \in 1 .. Len(c2b) : k \in Words(s)
      BY <1>3 DEF Words
    <2>2. CASE k = 1
      <3>1. Head(c2b).type = "SUBSCRIBE" /\ Head(c2b).sub = s
        BY <1>1, <2>1, <2>2 DEF Words
      <3>2. s \in granted' \cup refused'
        BY <3>1 DEF BrokerRead, BrokerConnect, BrokerSubscribe, BrokerUnsubscribe,
                    BrokerTake, BrokerPing, BrokerAcked
      <3>3. QED
        BY <3>2 DEF Asked
    <2>3. CASE k # 1
      <3>1. k - 1 \in 1 .. Len(c2b') /\ c2b'[k - 1] = c2b[k]
        BY <1>1, <2>3
      <3>2. k - 1 \in Words(s)'
        BY <2>1, <3>1 DEF Words
      <3>3. QED
        BY <3>2 DEF Asked
    <2>4. QED
      BY <2>2, <2>3
  <1>4. QED
    BY <1>2, <1>3 DEF Asked

\* The subscription loop asks for the next slot, and has asked for all of them
\* when it ends.
LEMMA SubscribeAfterAsks ==
  ASSUME TypeOK, NothingUnsaid, Connecting, NEW i \in 0 .. MAXSUBSCRIPTIONS,
         SubscribeAfter(i), UNCHANGED broker,
         \A m \in Slots : m <= i /\ slots[m] # NoSub => Asked(slots[m])
  PROVE  AskInv'
  <1>1. CASE Defined(i) = {}
    <2>1. UNCHANGED <<slots, c2b>> /\ pc' = "idle"
      BY <1>1 DEF SubscribeAfter, Return
    <2>2. NothingUnsaid'
      BY <2>1 DEF NothingUnsaid
    <2>3. \A m \in Slots : slots[m] # NoSub => Asked(slots[m])
      BY <1>1 DEF Defined, Slots
    <2>4. \A s \in Table : Asked(s)
      BY <2>3 DEF Table
    <2>5. ConnectedIsAsked'
      BY <2>1, <2>4 DEF ConnectedIsAsked, Asked, Table, Words, broker
    <2>6. QED
      BY <2>1, <2>2, <2>5 DEF AskInv, AskedSoFar
  <1>2. CASE Defined(i) # {} /\ ~Return("connect", -1)
    <2>1. PICK j \in Slots : /\ j = First(Defined(i)) /\ slots[j] \in Subs /\ i < j
                             /\ \A m \in Defined(i) : j <= m
      BY <1>2, FirstIn DEF Defined, TypeOK
    <2>2. /\ Send(Pkt("SUBSCRIBE", counter, slots[j])) /\ slots' = slots
          /\ pc' = "SUBACK" /\ slot' = j
      BY <1>2, <2>1 DEF SubscribeAfter
    <2>3. PICK p \in Packet : p.type = "SUBSCRIBE" /\ p.sub = slots[j] /\ c2b' = Append(c2b, p)
      BY <2>1, <2>2, PktType DEF Pkt, PacketTypes, Send, TypeOK
    <2>4. NothingUnsaid'
      BY <2>3, AppendSeq DEF NothingUnsaid, TypeOK
    <2>5. ASSUME NEW m \in Slots, m <= j, slots[m] # NoSub
          PROVE  Asked(slots[m]) \/ m = j
      <3>1. m > i => m \in Defined(i)
        BY <2>5 DEF Defined
      <3>2. QED
        BY <2>1, <2>5, <3>1 DEF Slots
    <2>6. ASSUME NEW m \in Slots, m <= slot', slots'[m] # NoSub
          PROVE  Asked(slots[m])'
      <3>1. PICK s : s = slots[m] /\ s = slots'[m]
        BY <2>2
      <3>2. Asked(s) \/ (p.type = "SUBSCRIBE" /\ p.sub = s)
        BY <2>2, <2>3, <2>5, <2>6, <3>1
      <3>3. Asked(s)'
        BY <2>3, <3>2, AskedAppend
      <3>4. QED
        BY <3>1, <3>3 DEF Asked, Words
    <2>7. AskedSoFar'
      BY <2>6 DEF AskedSoFar
    <2>8. QED
      BY <2>2, <2>4, <2>7 DEF AskInv, ConnectedIsAsked, Returned
  <1>3. CASE Return("connect", -1)
    BY <1>3 DEF AskInv, NothingUnsaid, AskedSoFar, ConnectedIsAsked, Connecting, Returned, Return
  <1>4. QED
    BY <1>1, <1>2, <1>3

\* A packet that is no word on the table, and every other step that leaves the
\* call in progress alone.
LEMMA AskedSame ==
  ASSUME AskInv, UNCHANGED <<slots, pc, slot, ret, link>>,
         \A k \in 1 .. Len(c2b') : c2b'[k].type = "UNSUBSCRIBE"
            => \E l \in 1 .. Len(c2b) : c2b[l].type = "UNSUBSCRIBE",
         Connecting => \A s : Asked(s) => Asked(s)'
  PROVE  AskInv'
  <1>1. NothingUnsaid'
    BY DEF AskInv, NothingUnsaid, Connecting, Returned
  <1>2. AskedSoFar'
    <2> SUFFICES ASSUME pc = "SUBACK", link, NEW i \in Slots, i <= slot, slots[i] # NoSub
                 PROVE  Asked(slots[i])'
      BY DEF AskedSoFar
    <2>1. PICK s : s = slots[i] /\ s = slots'[i]
      OBVIOUS
    <2>2. Asked(s)
      BY <2>1 DEF AskInv, AskedSoFar
    <2>3. Asked(s)'
      BY <2>2 DEF Connecting
    <2>4. QED
      BY <2>1, <2>3 DEF Asked, Words
  <1>3. ConnectedIsAsked'
    <2>1. Returned("connect", 0)' => Returned("connect", 0) /\ Connecting
      BY DEF Returned, Connecting
    <2>2. Table' = Table
      BY DEF Table
    <2>3. QED
      BY <2>1, <2>2 DEF AskInv, ConnectedIsAsked, Asked
  <1>4. QED
    BY <1>1, <1>2, <1>3 DEF AskInv

LEMMA AskedPassOver ==
  ASSUME TypeOK, AskInv, NEW type, PassOver(type)
  PROVE  AskInv'
  <1>1. UNCHANGED <<slots, pc, slot, ret, link, broker>> /\ Head(b2c) \in Packet
    BY TailSeq DEF PassOver, ReadOther, client, TypeOK
  <1>2. CASE c2b' = c2b
    BY <1>1, <1>2, AskedSame DEF Asked, Words, broker
  <1>3. CASE Send(Pkt("PUBACK", NoId, Head(b2c).sub))
    <2>1. PICK p \in Packet : p.type = "PUBACK" /\ c2b' = Append(c2b, p)
      BY <1>1, <1>3, PktType DEF Pkt, PacketTypes, Send, Packet, NoId
    <2>2. \A s : Asked(s) => Asked(s)'
      BY <1>1, <2>1, AskedAppend
    <2>3. /\ Len(c2b') = Len(c2b) + 1 /\ Len(c2b) \in Nat
          /\ \A k \in 1 .. Len(c2b) : c2b'[k] = c2b[k]
          /\ c2b'[Len(c2b) + 1] = p
      BY <2>1, AppendSeq DEF TypeOK
    <2>4. \A k \in 1 .. Len(c2b') : c2b'[k].type = "UNSUBSCRIBE"
             => \E l \in 1 .. Len(c2b) : c2b[l].type = "UNSUBSCRIBE"
      BY <2>1, <2>3
    <2>5. QED
      BY <1>1, <2>2, <2>4, AskedSame
  <1>4. QED
    BY <1>2, <1>3 DEF NotSent, PassOver, HandleSubscriptionPacket

LEMMA AskStep == ASSUME TypeOK, AskInv, [Next]_vars PROVE AskInv'
  <1> USE DEF TRUTH, FALSITY
  <1> DEFINE Other == ~Connecting' \/ (~link' /\ c2b' = <<>>)
  <1>1. CASE Other
    BY <1>1 DEF AskInv, NothingUnsaid, AskedSoFar, ConnectedIsAsked, Connecting
  <1>2. ASSUME NEW op, NEW val, Return(op, val), op # "connect" \/ val # 0
        PROVE  AskInv'
    BY <1>1, <1>2 DEF Return, Returned, Connecting
  <1>3. CASE pc' \in {"PUBACK", "UNSUBACK", "PINGRESP"}
    BY <1>1, <1>3 DEF Connecting, Returned
  <1>4. CASE Connect
    <2>1. CASE Len(c2b') = 1 /\ c2b'[1].type = "CONNECT" /\ pc' = "CONNACK"
      BY <2>1 DEF AskInv, NothingUnsaid, AskedSoFar, ConnectedIsAsked, Returned
    <2>2. CASE Return("connect", -1)
      BY <1>2, <2>2
    <2>3. QED
      BY <1>4, <2>1, <2>2 DEF Connect, Pkt
  <1>5. CASE Call /\ ~Connect
    BY <1>2, <1>3, <1>5
       DEF Call, ConnectFails, Disconnect, Publish0, Publish1,
           Subscribe, Unsubscribe, Ping, ReadSubscription
  <1>6. CASE ConnackAccepted
    <2>1. 0 \in 0 .. MAXSUBSCRIPTIONS /\ \A m \in Slots : ~(m <= 0)
      BY DEF Slots
    <2>2. QED
      BY <1>6, <2>1, SubscribeAfterAsks DEF ConnackAccepted, AskInv, Connecting
  <1>7. CASE Suback
    <2>1. CASE Read("SUBACK") /\ SubscribeAfter(slot) /\ UNCHANGED broker
      <3>1. slot \in 0 .. MAXSUBSCRIPTIONS /\ link /\ pc = "SUBACK"
        BY <1>7, <2>1 DEF Suback, Read, TypeOK
      <3>2. \A m \in Slots : m <= slot /\ slots[m] # NoSub => Asked(slots[m])
        BY <3>1 DEF AskInv, AskedSoFar
      <3>3. PICK i \in 0 .. MAXSUBSCRIPTIONS : i = slot
        BY <3>1
      <3>4. QED
        BY <2>1, <3>1, <3>2, <3>3, SubscribeAfterAsks DEF AskInv, Connecting
    <2>2. QED
      BY <1>7, <2>1, AskedPassOver DEF Suback
  <1>8. CASE ConnackRefused \/ Puback \/ Unsuback
    BY <1>2, <1>8 DEF ConnackRefused, Puback, Unsuback
  <1>9. CASE Pingresp
    BY <1>2, <1>9, AskedPassOver DEF Pingresp
  <1>10. CASE ConnectTimeout
    <2>1. CASE Return("connect", -1) \/ Return("connect", -2)
      BY <1>2, <2>1
    <2>2. CASE /\ pc = "SUBACK" /\ Send(Pkt("SUBSCRIBE", counter, slots[slot]))
               /\ UNCHANGED <<slots, pc, slot, ret, link, broker>>
      <3>1. PICK p \in Packet : p.type = "SUBSCRIBE" /\ c2b' = Append(c2b, p)
        BY <2>2, PktType DEF TypeOK, Send, Pkt, PacketTypes
      <3>2. \A s : Asked(s) => Asked(s)'
        BY <2>2, <3>1, AskedAppend
      <3>3. /\ Len(c2b') = Len(c2b) + 1 /\ Len(c2b) \in Nat
            /\ \A k \in 1 .. Len(c2b) : c2b'[k] = c2b[k]
            /\ c2b'[Len(c2b) + 1] = p
        BY <3>1, AppendSeq DEF TypeOK
      <3>4. \A k \in 1 .. Len(c2b') : c2b'[k].type = "UNSUBSCRIBE"
               => \E l \in 1 .. Len(c2b) : c2b[l].type = "UNSUBSCRIBE"
        BY <3>1, <3>3
      <3>5. QED
        BY <2>2, <3>2, <3>4, AskedSame
    <2>3. QED
      BY <1>10, <2>1, <2>2 DEF ConnectTimeout
  <1>11. CASE PublishTimeout \/ UnsubscribeTimeout
    BY <1>2, <1>11 DEF PublishTimeout, UnsubscribeTimeout
  <1>12. CASE PingTimeout
    BY <1>2, <1>3, <1>12 DEF PingTimeout
  <1>13. CASE Lost \/ BrokerRejects
    BY <1>1, <1>13 DEF Lost, BrokerRejects, Gone
  <1>14. CASE BrokerRead
    <2>1. UNCHANGED <<slots, pc, slot, ret, link>>
      BY <1>14 DEF BrokerRead, client
    <2>2. /\ Head(c2b) = c2b[1] /\ 1 \in 1 .. Len(c2b) /\ c2b' = Tail(c2b)
          /\ \A k \in 1 .. Len(c2b') : k + 1 \in 1 .. Len(c2b) /\ c2b'[k] = c2b[k + 1]
      BY <1>14, TailSeq DEF BrokerRead, TypeOK
    <2>3. \A k \in 1 .. Len(c2b') : c2b'[k].type = "UNSUBSCRIBE"
             => \E l \in 1 .. Len(c2b) : c2b[l].type = "UNSUBSCRIBE"
      BY <2>2
    <2>4. Connecting => Head(c2b).type # "UNSUBSCRIBE"
      BY <2>2 DEF AskInv, NothingUnsaid
    <2>5. QED
      BY <1>14, <2>1, <2>3, <2>4, AskedRead, AskedSame
  <1>15. CASE UNCHANGED vars \/ \E s \in Subs, qos \in {0, 1} : BrokerPublish(s, qos)
    <2>1. UNCHANGED <<slots, pc, slot, ret, link, c2b, broker>>
      BY <1>15 DEF BrokerPublish, vars, client
    <2>2. QED
      BY <2>1, AskedSame DEF Asked, Words, broker
  <1>16. QED
    BY <1>4, <1>5, <1>6, <1>7, <1>8, <1>9, <1>10, <1>11, <1>12, <1>13, <1>14,
       <1>15 DEF Next, Call, Arrival, Timeout

\* Once connect has returned 0 the broker decides on all of the table, and it
\* never serves what is not in it once it has read what is on the way: over
\* retries, refusals, answers late by a call and lost connections, for tables
\* and channels of any length.
THEOREM TableAgreesHolds == Spec => []TableAgrees
  <1> DEFINE Silence == \A s \in Subs \ Table : Quiet(c2b, granted, s)
  <1>1. Init => AskInv /\ Silence
    BY DEF Init, AskInv, NothingUnsaid, AskedSoFar, ConnectedIsAsked, Connecting,
           Returned, Quiet, WordsIn
  <1>2. TypeOK /\ AskInv /\ Silence /\ [Next]_vars => AskInv' /\ Silence'
    BY AskStep, QuietStep
  <1>3. TypeOK /\ AskInv /\ Silence => TableAgrees
    BY QuietIsNoOrphan DEF AskInv, TableAgrees
  <1>4. QED
    <2> HIDE DEF Silence
    <2> QED  BY <1>1, <1>2, <1>3, TypeCorrect, PTL DEF Spec

=============================================================================
