--------------------------- MODULE MqttFraming ----------------------------
(***************************************************************************)
(* How the MQTT library cuts packets out of the bytes of its connection    *)
(* (readPacket, readFullPacket) and a message out of a packet              *)
(* (handleSubscriptionPacket).  One buffer serves all packets, those the   *)
(* library sends as well, and is cleared only when a connection is opened; *)
(* a packet that is late is taken for what has come of it.                 *)
(*                                                                         *)
(* Fault: the rest of a packet comes after the time readPacket waits for   *)
(* it, at most MaxStalls times.                                            *)
(***************************************************************************)
EXTENDS Integers, Sequences, SequencesExt

CONSTANTS BASE,                \* 128: a length byte holds 7 bits
          MAXBUFFERSIZE,       \* 150
          SUBSCRIPTIONDATALEN, \* 100
          TOPIC,               \* the topic subscribed, a sequence of bytes
          Messages,            \* the messages published: qos, len, fill
          Outgoing,            \* packets the library sends, sequences of bytes
          CONNECT,             \* what opening a connection writes to the buffer
          MaxPackets, MaxStalls, \* bounds
          Lower(_)             \* a byte as strncasecmp compares it

Bytes == 0 .. 255               \* uint8_t
UINT16 == 65536                 \* the values of an uint16_t
TwoBytes == BASE * BASE         \* the lengths of two bytes

ASSUME SizeAssumption ==
  /\ BASE \in Nat \ {0, 1} /\ MAXBUFFERSIZE \in Nat /\ SUBSCRIPTIONDATALEN \in Nat \ {0}
  /\ MaxPackets \in Nat /\ MaxStalls \in Nat
  /\ Len(TOPIC) + SUBSCRIPTIONDATALEN + 6 <= MAXBUFFERSIZE
  /\ MAXBUFFERSIZE <= TwoBytes /\ MAXBUFFERSIZE < UINT16
\* A topic is a C string, with a length of one byte.
ASSUME TopicAssumption ==
  TOPIC \in Seq(Bytes \ {0}) /\ TOPIC # <<>> /\ Len(TOPIC) \in Bytes
\* The length of a packet is an uint16_t.
ASSUME MessagesAssumption ==
  /\ Messages \subseteq [qos : {0, 1}, len : Nat, fill : Nat]
  /\ \A m \in Messages : Len(TOPIC) + m.len + 4 < UINT16
ASSUME OutgoingAssumption ==
  \A s \in Outgoing \cup {CONNECT} : s \in Seq(Bytes) /\ Len(s) <= MAXBUFFERSIZE

PUBLISH == 3
PINGRESP == 13
Nothing == [topic |-> FALSE]    \* readSubscription returns NULL

VARIABLES wire,        \* bytes sent and not yet read
          coming,      \* the packets they are of, with the one being read
          buffer,      \* buffer
          phase,       \* what readFullPacket reads
          p,           \* pbuff - buffer
          want,        \* bytes of the body still asked for
          value, multiplier,
          got,         \* what the last packet gave
          of,          \* the packet it was cut from
          clean,       \* has every packet come in time and been read whole?
          packets, stalls

reading == <<phase, p, want, value, multiplier>>
vars == <<wire, coming, buffer, reading, got, of, clean, packets, stalls>>

-----------------------------------------------------------------------------
\* The length as publishPacket writes it: 7 bits a byte, the lowest first.
LengthBytes[n \in 0 .. UINT16 - 1] ==
  IF n < BASE THEN <<n>> ELSE <<(n % BASE) + BASE>> \o LengthBytes[n \div BASE]

IdOf(m) == IF m.qos > 0 THEN <<0, m.id>> ELSE <<>>
Remaining(m) == 2 + Len(TOPIC) + Len(IdOf(m)) + m.len

PublishPacket(m) == <<16 * PUBLISH + 2 * m.qos>> \o LengthBytes[Remaining(m)]
                      \o <<0, Len(TOPIC)>> \o TOPIC \o IdOf(m)
                      \o [i \in 1 .. m.len |-> m.fill]
Ping == [qos |-> 0, len |-> -1, fill |-> 0, id |-> 0]
Packet(m) == IF m = Ping THEN <<16 * PINGRESP, 0>> ELSE PublishPacket(m)

-----------------------------------------------------------------------------
Init == /\ wire = <<>> /\ coming = <<>>
        /\ buffer = [i \in 0 .. MAXBUFFERSIZE - 1 |-> 0]
        /\ phase = "type" /\ p = 0 /\ want = 0 /\ value = 0 /\ multiplier = 1
        /\ got = Nothing /\ of = Ping
        /\ clean = TRUE /\ packets = 0 /\ stalls = 0

\* The broker passes a message on, or answers a ping.
Send(m) == /\ packets < MaxPackets
           /\ packets' = packets + 1
           /\ wire' = wire \o Packet(m)
           /\ coming' = Append(coming, m)
           /\ UNCHANGED <<buffer, reading, got, of, clean, stalls>>

Bug_Message(b, len) ==
  LET topiclen == b[3]
      isQos1 == (b[0] \div 2) % 4 = 1
      datalen == (len - topiclen - 4) % UINT16
      kept == IF datalen > SUBSCRIPTIONDATALEN THEN SUBSCRIPTIONDATALEN - 1 ELSE datalen
  IN  IF /\ len >= 3
         /\ b[0] \div 16 = PUBLISH
         /\ topiclen = Len(TOPIC)
         /\ \A i \in 1 .. topiclen : Lower(b[3 + i]) = Lower(TOPIC[i])
      THEN [topic |-> TRUE,
            id |-> IF isQos1 THEN <<b[topiclen + 4], b[topiclen + 5]>> ELSE <<>>,
            lastread |-> [i \in 1 .. kept |-> b[3 + topiclen + i]]]
      ELSE Nothing

\* The message in the first len bytes of b: datalen is a uint16_t.
Message(b, len) ==
  LET topiclen == b[3]
      isQos1 == (b[0] \div 2) % 4 = 1
      idlen == IF isQos1 THEN 2 ELSE 0
      datalen == (len - topiclen - idlen - 4) % UINT16
      kept == IF datalen > SUBSCRIPTIONDATALEN THEN SUBSCRIPTIONDATALEN - 1 ELSE datalen
  IN  IF /\ len >= 3
         /\ b[0] \div 16 = PUBLISH
         /\ topiclen = Len(TOPIC)
         /\ \A i \in 1 .. topiclen : Lower(b[3 + i]) = Lower(TOPIC[i])
      THEN [topic |-> TRUE,
            id |-> IF isQos1 THEN <<b[topiclen + 4], b[topiclen + 5]>> ELSE <<>>,
            lastread |-> [i \in 1 .. kept |-> b[3 + topiclen + idlen + i]]]
      ELSE Nothing

\* readFullPacket returns len, 0 for nothing, and the packet is handled.
Returns(len) ==
  /\ phase' = "type" /\ p' = 0 /\ want' = 0 /\ value' = 0 /\ multiplier' = 1
  /\ got' = IF len = 0 THEN Nothing ELSE Message(buffer', len)
  /\ IF clean' THEN of' = Head(coming) /\ coming' = Tail(coming)
               ELSE UNCHANGED <<of, coming>>

\* One byte of the stream goes to the buffer.
Byte == Head(wire)
Take == /\ wire # <<>>
        /\ wire' = Tail(wire)
        /\ buffer' = [buffer EXCEPT ![p] = Byte]
        /\ UNCHANGED <<packets, stalls>>

ReadType == /\ phase = "type"
            /\ Take
            /\ phase' = "length" /\ p' = 1
            /\ UNCHANGED <<coming, want, value, multiplier, got, of, clean>>

Bug_Length == value + (Byte % BASE)

\* The length so far, with the byte that comes next.
Length == value + (Byte % BASE) * multiplier
More == (Byte \div BASE) % 2 = 1
Malformed == multiplier * BASE > BASE * BASE * BASE

Bug_AskBody(n) == /\ want' = n
                  /\ clean' = clean

\* The body is asked for as far as the buffer has room.
AskBody(n) == LET room == MAXBUFFERSIZE - p' - 1
              IN  /\ want' = IF n > room THEN room ELSE n
                  /\ clean' = (clean /\ n <= room)

ReadLength ==
  /\ phase = "length"
  /\ Take
  /\ \/ /\ Malformed
        /\ clean' = FALSE
        /\ Returns(0)
     \/ /\ ~Malformed /\ More
        /\ p' = p + 1 /\ value' = Length /\ multiplier' = multiplier * BASE
        /\ UNCHANGED <<coming, phase, want, got, of, clean>>
     \/ /\ ~Malformed /\ ~More /\ Length > 0
        /\ p' = p + 1 /\ value' = Length /\ multiplier' = multiplier * BASE
        /\ phase' = "body"
        /\ AskBody(Length)
        /\ UNCHANGED <<coming, got, of>>
     \/ /\ ~Malformed /\ ~More /\ Length = 0
        /\ UNCHANGED clean
        /\ Returns(p + 1)

ReadBody ==
  /\ phase = "body"
  /\ Take
  /\ UNCHANGED clean
  /\ \/ /\ want > 1
        /\ want' = want - 1 /\ p' = p + 1
        /\ UNCHANGED <<coming, phase, value, multiplier, got, of>>
     \/ /\ want <= 1
        /\ Returns(p + 1)

\* The next byte does not come in time: a packet whose length is not read is
\* dropped, a body is taken for as long as it is.
Stall == /\ phase # "type"
         /\ stalls < MaxStalls
         /\ stalls' = stalls + 1
         /\ clean' = FALSE
         /\ UNCHANGED <<wire, buffer, packets>>
         /\ Returns(IF phase = "length" THEN 0 ELSE p)

Over(b, s) == [i \in DOMAIN b |-> IF i < Len(s) THEN s[i + 1] ELSE b[i]]

\* The library builds the packets it sends in the same buffer.
SendOwn(s) == /\ phase = "type"
              /\ buffer' = Over(buffer, s)
              /\ UNCHANGED <<wire, coming, reading, got, of, clean, packets, stalls>>

\* A lost connection is opened again (connectServer): its bytes are gone.
Reconnect == /\ phase = "type"
             /\ wire' = <<>> /\ coming' = <<>>
             /\ got' = Nothing /\ of' = Ping
             /\ clean' = TRUE
             /\ buffer' = Over([i \in DOMAIN buffer |-> 0], CONNECT)
             /\ UNCHANGED <<reading, packets, stalls>>

Read == ReadType \/ ReadLength \/ ReadBody
Next == \/ \E m \in Messages :
             Send([qos |-> m.qos, len |-> m.len, fill |-> m.fill, id |-> packets])
        \/ Send(Ping)
        \/ Read
        \/ Stall
        \/ \E s \in Outgoing : SendOwn(s)
        \/ Reconnect

Spec == Init /\ [][Next]_vars

-----------------------------------------------------------------------------
\* Types; what is still asked for has room in the buffer.
TypeOK == /\ wire \in Seq(Nat) /\ buffer \in [0 .. MAXBUFFERSIZE - 1 -> Nat]
          /\ phase \in {"type", "length", "body"}
          /\ p \in 0 .. MAXBUFFERSIZE - 1 /\ want \in 0 .. MAXBUFFERSIZE - p
          /\ value \in Nat /\ multiplier \in Nat
          /\ clean \in BOOLEAN
          /\ packets \in 0 .. MaxPackets /\ stalls \in 0 .. MaxStalls

\* While every packet came in time and fitted, reading stays at the boundaries
\* of the packets: what publishPacket encodes, readFullPacket decodes.
Aligned == clean =>
  /\ phase = "type" => wire = FlattenSeq([i \in 1 .. Len(coming) |-> Packet(coming[i])])
  /\ phase = "body" => coming # <<>> /\ Len(Packet(Head(coming))) = p + want
                       /\ Len(wire) >= want

\* The message of a packet whose length takes one byte reaches the sketch with
\* its own identifier and data, whatever the packets before it left in the
\* buffer; what is longer than a subscription keeps is cut (Terminated says to
\* what it should be); a packet with a longer length is not recognised.
Intact == clean =>
  IF of = Ping \/ Remaining(of) >= BASE THEN got = Nothing
  ELSE \E n \in {SUBSCRIPTIONDATALEN - 1, SUBSCRIPTIONDATALEN} :
         got = [topic |-> TRUE, id |-> IdOf(of),
                lastread |-> [i \in 1 .. IF of.len < n THEN of.len ELSE n |-> of.fill]]

-----------------------------------------------------------------------------
(* What comments say and the program does not keep.                        *)

\* Adafruit_MQTT.h:308, "Limited to SUBSCRIPTIONDATALEN-1 to ensure nul
\* terminating lastread": a byte of lastread is left for the nul.
Terminated == got.topic => Len(got.lastread) < SUBSCRIPTIONDATALEN

\* Adafruit_MQTT.cpp:535, "extract out just the data": what the sketch gets is
\* of the bytes of this packet that have been read, also when its rest is late.
JustTheData ==
  [][phase # "type" /\ phase' = "type" /\ got'.topic =>
       4 + Len(TOPIC) + Len(got'.id) + Len(got'.lastread) <= p + Len(wire) - Len(wire')]_vars
=============================================================================
