------------------------- MODULE MqttFraming_proofs -------------------------
(***************************************************************************)
(* What holds of the framing for messages of any number and length and for *)
(* any topic.                                                              *)
(***************************************************************************)
EXTENDS MqttFraming, TLAPS, WellFoundedInduction, SequenceTheorems

-----------------------------------------------------------------------------
(***************************************************************************)
(* The length of a packet, byte by byte.                                   *)
(***************************************************************************)

LEMMA HasLeast ==
  ASSUME NEW T, T \subseteq Nat, T # {}
  PROVE  \E n \in T : \A k \in T : n <= k
<1>1. PICK n \in T : \A k \in T : ~(<<k, n>> \in OpToRel(<, Nat))
  BY NatLessThanWellFounded, WFMin, Zenon
<1>2. ASSUME NEW k \in T PROVE n <= k
  <2>1. <<k, n>> \in Nat \X Nat
    OBVIOUS
  <2>2. ~(k < n)
    BY <1>1, <2>1, Zenon DEF OpToRel
  <2>3. QED
    BY <2>2
<1>3. QED
  BY <1>2

LEMMA Sizes ==
  /\ BASE \in Nat /\ BASE >= 2 /\ UINT16 \in Nat
  /\ MAXBUFFERSIZE \in Nat /\ MAXBUFFERSIZE >= 8 /\ SUBSCRIPTIONDATALEN \in Nat \ {0}
<1>1. Len(TOPIC) \in Nat /\ Len(TOPIC) # 0
  BY TopicAssumption, EmptySeq
<1> QED  BY <1>1, SizeAssumption DEF UINT16

\* A digit and what is above it.
LEMMA Digit ==
  ASSUME NEW n \in Nat
  PROVE  /\ n \div BASE \in Nat /\ n % BASE \in 0 .. BASE - 1
         /\ n = BASE * (n \div BASE) + (n % BASE)
         /\ n >= BASE => n \div BASE >= 1 /\ n \div BASE < n
         /\ n < BASE => n \div BASE = 0 /\ n % BASE = n
         /\ n < BASE * BASE => n \div BASE < BASE
<1>1. BASE \in Nat /\ BASE >= 2
  BY SizeAssumption
<1>2. n \div BASE \in Nat /\ n % BASE \in 0 .. BASE - 1 /\ n = BASE * (n \div BASE) + (n % BASE)
  BY <1>1
<1>3. n < BASE => n \div BASE = 0 /\ n % BASE = n
  BY <1>1
<1>4. n >= BASE => n \div BASE >= 1
  BY <1>1
<1>5. ASSUME NEW q \in Nat, NEW r \in Nat, n = BASE * q + r, q >= 1 PROVE q < n
  BY <1>1, <1>5
<1>6. ASSUME NEW q \in Nat, NEW r \in Nat, n = BASE * q + r, n < BASE * BASE PROVE q < BASE
  <2>1. q >= BASE => BASE * q >= BASE * BASE
    BY <1>1
  <2> QED  BY <1>1, <1>6, <2>1
<1> QED  BY <1>1, <1>2, <1>3, <1>4, <1>5, <1>6

\* A byte of the length, as it is written and as it is read.
LEMMA LengthByte ==
  ASSUME NEW r \in 0 .. BASE - 1
  PROVE  /\ (r + BASE) \div BASE = 1 /\ (r + BASE) % BASE = r
         /\ r \div BASE = 0 /\ r % BASE = r
<1>1. BASE \in Nat /\ BASE >= 2
  BY SizeAssumption
<1> QED  BY <1>1

\* f is the encoding of the lengths up to n.
FirstLengths(n, f) ==
  f = [k \in 0 .. n |-> IF k < BASE THEN <<k>> ELSE <<(k % BASE) + BASE>> \o f[k \div BASE]]

LEMMA FirstLengthsExist ==
  ASSUME NEW n \in Nat
  PROVE  \E f : FirstLengths(n, f)
<1> DEFINE T == {m \in Nat : ~ \E f : FirstLengths(m, f)}
<1>1. SUFFICES ASSUME T # {} PROVE FALSE
  OBVIOUS
<1>2. PICK m \in T : \A k \in T : m <= k
  <2> HIDE DEF T
  <2> T \subseteq Nat  BY DEF T
  <2> QED  BY <1>1, HasLeast
<1>3. m # 0
  <2>1. 0 < BASE
    BY SizeAssumption
  <2>2. FirstLengths(0, [k \in 0 .. 0 |-> <<k>>])
    BY <2>1 DEF FirstLengths
  <2> QED  BY <2>2
<1>4. m \in Nat /\ m - 1 \in Nat /\ m - 1 \notin T
  BY <1>2, <1>3
<1>5. PICK f : FirstLengths(m - 1, f)
  BY <1>4
<1> DEFINE E(k, x) == IF k < BASE THEN <<k>> ELSE <<(k % BASE) + BASE>> \o x
           g == [k \in 0 .. m |-> IF k = m THEN E(m, f[m \div BASE]) ELSE f[k]]
<1>6. ASSUME NEW k \in 0 .. m PROVE g[k] = E(k, g[k \div BASE])
  <2>1. k \div BASE \in 0 .. m - 1
    <3>1. k < BASE => k \div BASE = 0
      BY Digit
    <3>2. k >= BASE => k \div BASE < k /\ k \div BASE \in Nat
      BY Digit
    <3>3. BASE \in Nat
      BY SizeAssumption
    <3> QED  BY <1>3, <1>4, <3>1, <3>2, <3>3
  <2>2. k = m => g[k] = E(m, f[m \div BASE])
    <3> HIDE DEF E
    <3> QED  BY <1>4
  <2>3. k # m => g[k] = f[k]
    <3> HIDE DEF E
    <3> QED  BY <1>4
  <2>4. g[k \div BASE] = f[k \div BASE]
    <3> HIDE DEF E
    <3> QED  BY <2>1
  <2>5. k # m => f[k] = E(k, f[k \div BASE])
    <3>1. f = [j \in 0 .. m - 1 |-> E(j, f[j \div BASE])]
      BY <1>5, Zenon DEF FirstLengths, E
    <3>2. k # m => k \in 0 .. m - 1
      BY <1>4
    <3> HIDE DEF E
    <3> QED  BY <3>1, <3>2
  <2> HIDE DEF E, g
  <2> QED  BY <2>2, <2>3, <2>4, <2>5, Zenon
<1>7. FirstLengths(m, g)
  <2> HIDE DEF E
  <2>1. g = [k \in 0 .. m |-> E(k, g[k \div BASE])]
    BY <1>6
  <2> HIDE DEF g
  <2> QED  BY <2>1, Zenon DEF FirstLengths, E
<1> QED  BY <1>4, <1>7, Zenon

LEMMA LengthStep ==
  ASSUME NEW n \in 0 .. UINT16 - 1
  PROVE  LengthBytes[n] = IF n < BASE THEN <<n>>
                          ELSE <<(n % BASE) + BASE>> \o LengthBytes[n \div BASE]
<1> DEFINE E(k, x) == IF k < BASE THEN <<k>> ELSE <<(k % BASE) + BASE>> \o x
<1>1. \E f : FirstLengths(UINT16 - 1, f)
  <2> UINT16 - 1 \in Nat  BY DEF UINT16
  <2> QED  BY FirstLengthsExist
<1>2. FirstLengths(UINT16 - 1, LengthBytes)
  BY <1>1, Zenon DEF FirstLengths, LengthBytes
<1>3. LengthBytes = [k \in 0 .. UINT16 - 1 |-> E(k, LengthBytes[k \div BASE])]
  BY <1>2, Zenon DEF FirstLengths, E
<1>4. LengthBytes[n] = E(n, LengthBytes[n \div BASE])
  <2> HIDE DEF E
  <2> QED  BY <1>3
<1> QED  BY <1>4, Zenon DEF E

LEMMA LengthType ==
  ASSUME NEW n \in 0 .. UINT16 - 1
  PROVE  LengthBytes[n] \in Seq(Nat) /\ Len(LengthBytes[n]) \in Nat \ {0}
<1> DEFINE Good(k) == LengthBytes[k] \in Seq(Nat) /\ Len(LengthBytes[k]) \in Nat \ {0}
           T == {k \in 0 .. UINT16 - 1 : ~Good(k)}
<1>1. SUFFICES ASSUME T # {} PROVE FALSE
  OBVIOUS
<1>2. PICK m \in T : \A k \in T : m <= k
  <2> HIDE DEF Good
  <2> T \subseteq Nat  OBVIOUS
  <2> QED  BY <1>1, HasLeast
<1>3. m \in 0 .. UINT16 - 1 /\ ~Good(m)
  BY <1>2
<1>4. m >= BASE /\ LengthBytes[m] = <<(m % BASE) + BASE>> \o LengthBytes[m \div BASE]
  <2>1. BASE \in Nat /\ m \in Nat
    BY <1>3, SizeAssumption
  <2>2. m < BASE => Good(m)
    <3>1. ASSUME m < BASE PROVE LengthBytes[m] = <<m>>
      BY <1>3, <3>1, LengthStep, Zenon
    <3>2. <<m>> \in Seq(Nat) /\ Len(<<m>>) \in Nat \ {0}
      BY <2>1
    <3> QED  BY <3>1, <3>2, Zenon
  <2> HIDE DEF Good
  <2>3. ~(m < BASE)
    BY <1>3, <2>2
  <2>4. LengthBytes[m] = <<(m % BASE) + BASE>> \o LengthBytes[m \div BASE]
    BY <1>3, <2>3, LengthStep, Zenon
  <2> QED  BY <2>1, <2>3, <2>4
<1>5. PICK q \in 0 .. UINT16 - 1 : q = m \div BASE /\ q < m
  <2>1. m \in Nat
    BY <1>3
  <2>2. m \div BASE \in Nat /\ m \div BASE < m
    BY <2>1, <1>4, Digit
  <2> QED  BY <1>3, <2>1, <2>2, Sizes
<1> PICK b \in Nat : b = (m % BASE) + BASE
  <2>1. m % BASE \in Nat
    BY <1>3, Digit
  <2> QED  BY <2>1, Sizes
<1>6. Good(q)
  <2> HIDE DEF Good
  <2> QED  BY <1>2, <1>3, <1>5
<1>7. LengthBytes[m] = <<b>> \o LengthBytes[q]
  BY <1>4, <1>5
<1>8. Good(m)
  <2> DEFINE s == LengthBytes[q]
  <2>1. s \in Seq(Nat) /\ Len(s) \in Nat
    BY <1>6
  <2> HIDE DEF s
  <2>2. <<b>> \o s \in Seq(Nat) /\ Len(<<b>> \o s) = 1 + Len(s)
    BY <2>1
  <2>3. LengthBytes[m] = <<b>> \o s
    BY <1>7 DEF s
  <2> QED  BY <2>1, <2>2, <2>3
<1> HIDE DEF Good
<1> QED  BY <1>3, <1>8

\* The first byte of a length tells whether another follows.
LEMMA LengthFirst ==
  ASSUME NEW n \in 0 .. UINT16 - 1
  PROVE  /\ n < BASE => /\ LengthBytes[n][1] = n /\ Len(LengthBytes[n]) = 1
         /\ n >= BASE =>
              /\ LengthBytes[n][1] = (n % BASE) + BASE
              /\ Len(LengthBytes[n]) = 1 + Len(LengthBytes[n \div BASE])
              /\ \A i \in 1 .. Len(LengthBytes[n \div BASE]) :
                    LengthBytes[n][1 + i] = LengthBytes[n \div BASE][i]
<1>1. ASSUME n < BASE PROVE LengthBytes[n][1] = n /\ Len(LengthBytes[n]) = 1
  <2>1. LengthBytes[n] = <<n>>
    BY <1>1, LengthStep, Zenon
  <2> QED  BY <2>1
<1>2. ASSUME n >= BASE
      PROVE  /\ LengthBytes[n][1] = (n % BASE) + BASE
             /\ Len(LengthBytes[n]) = 1 + Len(LengthBytes[n \div BASE])
             /\ \A i \in 1 .. Len(LengthBytes[n \div BASE]) :
                   LengthBytes[n][1 + i] = LengthBytes[n \div BASE][i]
  <2>1. n \in Nat /\ BASE \in Nat /\ ~(n < BASE)
    BY <1>2, SizeAssumption
  <2>2. PICK q \in 0 .. UINT16 - 1 : q = n \div BASE
    <3>1. n \div BASE \in Nat /\ n \div BASE < n
      BY <2>1, <1>2, Digit
    <3> QED  BY <2>1, <3>1, Sizes
  <2> PICK b \in Nat : b = (n % BASE) + BASE
    <3>1. n % BASE \in Nat
      BY <2>1, Digit
    <3> QED  BY <3>1, Sizes
  <2>3. LengthBytes[n] = <<b>> \o LengthBytes[q]
    <3> LengthBytes[n] = <<(n % BASE) + BASE>> \o LengthBytes[n \div BASE]
      BY <2>1, LengthStep, Zenon
    <3> QED  BY <2>2
  <2> DEFINE s == LengthBytes[q]
  <2>4. s \in Seq(Nat) /\ Len(s) \in Nat
    BY LengthType
  <2> HIDE DEF s
  <2>5. /\ (<<b>> \o s)[1] = b /\ Len(<<b>> \o s) = 1 + Len(s)
        /\ \A i \in 1 .. Len(s) : (<<b>> \o s)[1 + i] = s[i]
    BY <2>4
  <2>6. LengthBytes[n] = <<b>> \o s
    BY <2>3 DEF s
  <2>7. s = LengthBytes[n \div BASE]
    BY <2>2 DEF s
  <2> QED  BY <2>5, <2>6, <2>7, Zenon
<1> QED  BY <1>1, <1>2, SizeAssumption

-----------------------------------------------------------------------------
(***************************************************************************)
(* The bytes of a packet.                                                  *)
(***************************************************************************)

\* What the broker may send, and the part of it that the length counts.
Publishes == {m \in [qos : {0, 1}, len : Nat, fill : Nat, id : Nat] :
                Len(TOPIC) + m.len + 4 < UINT16}
Sent == {Ping} \cup Publishes

Size(m) == IF m = Ping THEN 0 ELSE Remaining(m)

LEMMA TopicLength ==
  TOPIC \in Seq(Nat) /\ Len(TOPIC) \in Nat \ {0}
<1>1. TOPIC \in Seq(Nat)
  <2> Bytes \ {0} \subseteq Nat  BY DEF Bytes
  <2> QED  BY TopicAssumption, SeqMonotonic
<1> QED  BY <1>1, TopicAssumption, EmptySeq

LEMMA NotPing ==
  ASSUME NEW m \in Publishes
  PROVE  m # Ping /\ m \in [qos : {0, 1}, len : Nat, fill : Nat, id : Nat]
<1>1. m \in [qos : {0, 1}, len : Nat, fill : Nat, id : Nat]
  BY DEF Publishes
<1>2. m.len \in Nat /\ Ping.len = -1
  BY <1>1 DEF Ping
<1>3. -1 \notin Nat
  OBVIOUS
<1> QED  BY <1>1, <1>2, <1>3, Zenon

LEMMA IdIs ==
  ASSUME NEW m \in Publishes
  PROVE  /\ IdOf(m) \in Seq(Nat)
         /\ m.qos = 0 => IdOf(m) = <<>> /\ Len(IdOf(m)) = 0
         /\ m.qos = 1 => IdOf(m) = <<0, m.id>> /\ Len(IdOf(m)) = 2
<1>1. m.qos \in {0, 1} /\ m.id \in Nat
  BY NotPing
<1>2. CASE m.qos = 0
  <2> IdOf(m) = <<>>  BY <1>2 DEF IdOf
  <2> QED  BY <1>2
<1>3. CASE m.qos = 1
  <2> IdOf(m) = <<0, m.id>>  BY <1>3 DEF IdOf
  <2> QED  BY <1>1, <1>3
<1> QED  BY <1>1, <1>2, <1>3

LEMMA SumIs ==
  ASSUME NEW t \in Nat \ {0}, NEW i \in {0, 2}, NEW l \in Nat, t + l + 4 < UINT16
  PROVE  2 + t + i + l \in 0 .. UINT16 - 1 /\ 2 + t + i + l >= 3
<1>1. 2 + t + i + l \in Nat /\ 2 + t + i + l >= 3
  OBVIOUS
<1>2. 2 + t + i + l < UINT16
  BY Sizes
<1> QED  BY <1>1, <1>2, Sizes

LEMMA SizeIs ==
  ASSUME NEW m \in Sent
  PROVE  /\ Size(m) \in 0 .. UINT16 - 1
         /\ m # Ping => /\ Size(m) = 2 + Len(TOPIC) + Len(IdOf(m)) + m.len
                        /\ Size(m) >= 3
<1>1. CASE m = Ping
  BY <1>1 DEF Size, UINT16
<1>2. CASE m # Ping
  <2>1. m \in Publishes
    BY <1>2 DEF Sent
  <2>2. m.len \in Nat /\ Len(TOPIC) + m.len + 4 < UINT16 /\ m.qos \in {0, 1}
    BY <2>1, NotPing DEF Publishes
  <2>3. Len(IdOf(m)) \in {0, 2}
    BY <2>1, <2>2, IdIs, Zenon
  <2>4. Size(m) = 2 + Len(TOPIC) + Len(IdOf(m)) + m.len
    BY <1>2, Zenon DEF Size, Remaining
  <2> HIDE DEF Ping
  <2> PICK i \in {0, 2}, t \in Nat \ {0} : i = Len(IdOf(m)) /\ t = Len(TOPIC)
    BY <2>3, TopicLength
  <2> PICK l \in Nat : l = m.len
    BY <2>2
  <2>5. 2 + t + i + l \in 0 .. UINT16 - 1 /\ 2 + t + i + l >= 3
    <3> t + l + 4 < UINT16  BY <2>2, Zenon
    <3> QED  BY SumIs, Zenon
  <2>6. Size(m) = 2 + t + i + l
    BY <2>4
  <2> QED  BY <2>4, <2>5, <2>6, Zenon
<1> QED  BY <1>1, <1>2

\* s lies in K behind the first n elements.
At(K, n, s) == n + Len(s) <= Len(K) /\ \A i \in 1 .. Len(s) : K[n + i] = s[i]

\* Sequences one after another.
LEMMA Joined ==
  ASSUME NEW s \in Seq(Nat), NEW t \in Seq(Nat)
  PROVE  /\ s \o t \in Seq(Nat) /\ Len(s \o t) = Len(s) + Len(t)
         /\ At(s \o t, 0, s) /\ At(s \o t, Len(s), t)
         /\ \A n \in Nat, x \in Seq(Nat) : At(s, n, x) => At(s \o t, n, x)
<1>1. s \o t \in Seq(Nat) /\ Len(s \o t) = Len(s) + Len(t)
  BY ConcatProperties
<1> PICK j \in Nat, k \in Nat : j = Len(s) /\ k = Len(t)
  BY LenProperties
<1>2. \A i \in 1 .. j : (s \o t)[i] = s[i]
  BY ConcatProperties
<1>3. \A i \in 1 .. k : (s \o t)[j + i] = t[i]
  BY ConcatProperties
<1>4. At(s \o t, 0, s)
  BY <1>1, <1>2 DEF At
<1>5. At(s \o t, Len(s), t)
  BY <1>1, <1>3 DEF At
<1>6. ASSUME NEW n \in Nat, NEW x \in Seq(Nat), At(s, n, x)
      PROVE  At(s \o t, n, x)
  <2> PICK l \in Nat : l = Len(x)
    BY LenProperties
  <2>1. n + l <= j /\ \A i \in 1 .. l : s[n + i] = x[i]
    BY <1>6 DEF At
  <2>2. \A i \in 1 .. l : (s \o t)[n + i] = s[n + i]
    BY <1>2, <2>1
  <2> QED  BY <1>1, <2>1, <2>2 DEF At
<1> QED  BY <1>1, <1>4, <1>5, <1>6

\* K is made of the six sequences.
MadeOf(K, h, l, c, t, d, e) ==
  /\ K \in Seq(Nat)
  /\ Len(K) = Len(h) + Len(l) + Len(c) + Len(t) + Len(d) + Len(e)
  /\ At(K, 0, h)
  /\ At(K, Len(h), l)
  /\ At(K, Len(h) + Len(l), c)
  /\ At(K, Len(h) + Len(l) + Len(c), t)
  /\ At(K, Len(h) + Len(l) + Len(c) + Len(t), d)
  /\ At(K, Len(h) + Len(l) + Len(c) + Len(t) + Len(d), e)

LEMMA JoinedSix ==
  ASSUME NEW h \in Seq(Nat), NEW l \in Seq(Nat), NEW c \in Seq(Nat),
         NEW t \in Seq(Nat), NEW d \in Seq(Nat), NEW e \in Seq(Nat)
  PROVE  MadeOf(h \o l \o c \o t \o d \o e, h, l, c, t, d, e)
<1> PICK s2 \in Seq(Nat) : s2 = h \o l
  BY ConcatProperties
<1> PICK s3 \in Seq(Nat) : s3 = s2 \o c
  BY ConcatProperties
<1> PICK s4 \in Seq(Nat) : s4 = s3 \o t
  BY ConcatProperties
<1> PICK s5 \in Seq(Nat) : s5 = s4 \o d
  BY ConcatProperties
<1> PICK s6 \in Seq(Nat) : s6 = s5 \o e
  BY ConcatProperties
<1>1. h \o l \o c \o t \o d \o e = s6
  BY Zenon
<1>2. /\ Len(s2) = Len(h) + Len(l) /\ Len(s3) = Len(s2) + Len(c)
      /\ Len(s4) = Len(s3) + Len(t) /\ Len(s5) = Len(s4) + Len(d)
      /\ Len(s6) = Len(s5) + Len(e) /\ s6 \in Seq(Nat)
  <2>1. Len(s2) = Len(h) + Len(l)
    BY Joined
  <2>2. Len(s3) = Len(s2) + Len(c)
    BY Joined
  <2>3. Len(s4) = Len(s3) + Len(t)
    BY Joined
  <2>4. Len(s5) = Len(s4) + Len(d)
    BY Joined
  <2>5. Len(s6) = Len(s5) + Len(e) /\ s6 \in Seq(Nat)
    BY Joined
  <2> QED  BY <2>1, <2>2, <2>3, <2>4, <2>5, Zenon
<1>3. /\ 0 \in Nat /\ Len(h) \in Nat /\ Len(s2) \in Nat /\ Len(s3) \in Nat
      /\ Len(s4) \in Nat
  BY LenProperties, Zenon
<1>4. At(s2, 0, h) /\ At(s2, Len(h), l)
  BY Joined, Zenon
<1>5. At(s3, 0, h) /\ At(s3, Len(h), l) /\ At(s3, Len(s2), c)
  <2>1. \A n \in Nat, x \in Seq(Nat) : At(s2, n, x) => At(s3, n, x)
    BY Joined
  <2>2. At(s3, Len(s2), c)
    BY Joined, Zenon
  <2> QED  BY <1>3, <1>4, <2>1, <2>2, Zenon
<1>6. At(s4, 0, h) /\ At(s4, Len(h), l) /\ At(s4, Len(s2), c) /\ At(s4, Len(s3), t)
  <2>1. \A n \in Nat, x \in Seq(Nat) : At(s3, n, x) => At(s4, n, x)
    BY Joined
  <2>2. At(s4, Len(s3), t)
    BY Joined, Zenon
  <2> QED  BY <1>3, <1>5, <2>1, <2>2, Zenon
<1>7. /\ At(s5, 0, h) /\ At(s5, Len(h), l) /\ At(s5, Len(s2), c) /\ At(s5, Len(s3), t)
      /\ At(s5, Len(s4), d)
  <2>1. \A n \in Nat, x \in Seq(Nat) : At(s4, n, x) => At(s5, n, x)
    BY Joined
  <2>2. At(s5, Len(s4), d)
    BY Joined, Zenon
  <2> QED  BY <1>3, <1>6, <2>1, <2>2, Zenon
<1>8. /\ At(s6, 0, h) /\ At(s6, Len(h), l) /\ At(s6, Len(s2), c) /\ At(s6, Len(s3), t)
      /\ At(s6, Len(s4), d) /\ At(s6, Len(s5), e)
  <2>1. \A n \in Nat, x \in Seq(Nat) : At(s5, n, x) => At(s6, n, x)
    BY Joined
  <2>2. At(s6, Len(s5), e)
    BY Joined, Zenon
  <2> QED  BY <1>3, <1>7, <2>1, <2>2, Zenon
<1> QED  BY <1>1, <1>2, <1>8, Zenon DEF MadeOf

\* The bytes of a message, where those of the length are ln, those of the topic
\* tn and those of the identifier dn.
Published(K, m, ln, tn, dn) ==
  /\ K \in Seq(Nat) /\ Len(K) = 1 + ln + Remaining(m)
  /\ K[1] = 48 + 2 * m.qos
  /\ At(K, 1, LengthBytes[Remaining(m)])
  /\ K[1 + ln + 1] = 0 /\ K[1 + ln + 2] = tn
  /\ \A i \in 1 .. tn : K[1 + ln + 2 + i] = TOPIC[i]
  /\ \A i \in 1 .. dn : K[1 + ln + 2 + tn + i] = IdOf(m)[i]
  /\ \A i \in 1 .. m.len : K[1 + ln + 2 + tn + dn + i] = m.fill

LEMMA PublishBytes ==
  ASSUME NEW m \in Publishes, NEW ln \in Nat, NEW tn \in Nat, NEW dn \in Nat,
         ln = Len(LengthBytes[Remaining(m)]), tn = Len(TOPIC), dn = Len(IdOf(m))
  PROVE  Published(PublishPacket(m), m, ln, tn, dn)
<1> DEFINE LB == LengthBytes[Remaining(m)]
           ID == IdOf(m)
           D == [i \in 1 .. m.len |-> m.fill]
           H == <<16 * PUBLISH + 2 * m.qos>>
           C == <<0, Len(TOPIC)>>
<1>1. m.qos \in {0, 1} /\ m.len \in Nat /\ m.fill \in Nat
  BY NotPing
<1>2. H \in Seq(Nat) /\ Len(H) = 1 /\ H[1] = 48 + 2 * m.qos
  BY <1>1 DEF PUBLISH
<1>3. LB \in Seq(Nat)
  <2>1. m \in Sent /\ m # Ping
    BY NotPing DEF Sent
  <2>2. Remaining(m) \in 0 .. UINT16 - 1
    BY <2>1, SizeIs, Zenon DEF Size
  <2> QED  BY <2>2, LengthType
<1>4. C \in Seq(Nat) /\ Len(C) = 2 /\ C[1] = 0 /\ C[2] = tn
  OBVIOUS
<1>5. TOPIC \in Seq(Nat)
  BY TopicLength
<1>6. ID \in Seq(Nat)
  BY IdIs
<1>7. D \in Seq(Nat) /\ Len(D) = m.len /\ \A i \in 1 .. m.len : D[i] = m.fill
  BY <1>1
<1>8. PublishPacket(m) = H \o LB \o C \o TOPIC \o ID \o D
  BY Zenon DEF PublishPacket
<1>9. Remaining(m) = 2 + tn + dn + m.len
  BY Zenon DEF Remaining
<1>10. Len(LB) = ln /\ Len(ID) = dn
  OBVIOUS
<1> HIDE DEF LB, ID, D, H, C
<1> DEFINE K == PublishPacket(m)
<1> PICK en \in Nat : en = m.len
  BY <1>1
<1>11. /\ K \in Seq(Nat) /\ Len(K) = 1 + ln + 2 + tn + dn + en
       /\ At(K, 0, H) /\ At(K, 1, LB) /\ At(K, 1 + ln, C) /\ At(K, 1 + ln + 2, TOPIC)
       /\ At(K, 1 + ln + 2 + tn, ID) /\ At(K, 1 + ln + 2 + tn + dn, D)
  <2>1. /\ K \in Seq(Nat)
        /\ Len(K) = Len(H) + Len(LB) + Len(C) + Len(TOPIC) + Len(ID) + Len(D)
        /\ At(K, 0, H) /\ At(K, Len(H), LB) /\ At(K, Len(H) + Len(LB), C)
        /\ At(K, Len(H) + Len(LB) + Len(C), TOPIC)
        /\ At(K, Len(H) + Len(LB) + Len(C) + Len(TOPIC), ID)
        /\ At(K, Len(H) + Len(LB) + Len(C) + Len(TOPIC) + Len(ID), D)
    <3>1. MadeOf(H \o LB \o C \o TOPIC \o ID \o D, H, LB, C, TOPIC, ID, D)
      BY <1>2, <1>3, <1>4, <1>5, <1>6, <1>7, JoinedSix, Zenon
    <3>2. MadeOf(K, H, LB, C, TOPIC, ID, D)
      BY <1>8, <3>1
    <3> HIDE DEF K
    <3> QED  BY <3>2, Zenon DEF MadeOf
  <2> QED  BY <2>1, <1>2, <1>4, <1>7, <1>10, Zenon
<1>12. Len(K) = 1 + ln + Remaining(m)
  <2> HIDE DEF K
  <2>1. Remaining(m) = 2 + tn + dn + en
    BY <1>9, Zenon
  <2>2. 1 + ln + 2 + tn + dn + en = 1 + ln + (2 + tn + dn + en)
    OBVIOUS
  <2> QED  BY <1>11, <2>1, <2>2, Zenon
<1>13. K[1] = 48 + 2 * m.qos
  <2>1. \A i \in 1 .. 1 : K[0 + i] = H[i]
    BY <1>2, <1>11, Zenon DEF At
  <2> QED  BY <1>2, <2>1
<1>14. K[1 + ln + 1] = 0 /\ K[1 + ln + 2] = tn
  <2>1. \A i \in 1 .. 2 : K[1 + ln + i] = C[i]
    BY <1>4, <1>11, Zenon DEF At
  <2> QED  BY <1>4, <2>1
<1>15. /\ \A i \in 1 .. tn : K[1 + ln + 2 + i] = TOPIC[i]
       /\ \A i \in 1 .. dn : K[1 + ln + 2 + tn + i] = ID[i]
       /\ \A i \in 1 .. en : K[1 + ln + 2 + tn + dn + i] = m.fill
  BY <1>7, <1>10, <1>11, Zenon DEF At
<1> QED
  BY <1>11, <1>12, <1>13, <1>14, <1>15, Zenon DEF LB, ID, Published

\* Every packet is a type, the bytes of its length, and so many bytes.
LEMMA PacketBytes ==
  ASSUME NEW m \in Sent, NEW ln \in Nat, ln = Len(LengthBytes[Size(m)])
  PROVE  /\ Packet(m) \in Seq(Nat) /\ Len(Packet(m)) = 1 + ln + Size(m)
         /\ \A i \in 1 .. ln : Packet(m)[1 + i] = LengthBytes[Size(m)][i]
<1>1. CASE m = Ping
  <2>1. Packet(m) = <<16 * PINGRESP, 0>> /\ Size(m) = 0
    BY <1>1, Zenon DEF Packet, Size
  <2>2. LengthBytes[0] = <<0>>
    <3> 0 \in 0 .. UINT16 - 1 /\ 0 < BASE
      BY Sizes DEF UINT16
    <3> QED  BY LengthStep, Zenon
  <2>3. ln = 1 /\ LengthBytes[Size(m)][1] = 0
    BY <2>1, <2>2
  <2>4. /\ <<16 * PINGRESP, 0>> \in Seq(Nat) /\ Len(<<16 * PINGRESP, 0>>) = 2
        /\ <<16 * PINGRESP, 0>>[2] = 0
    BY DEF PINGRESP
  <2>5. Packet(m) \in Seq(Nat) /\ Len(Packet(m)) = 2 /\ Packet(m)[2] = 0
    BY <2>1, <2>4, Zenon
  <2>6. Len(Packet(m)) = 1 + ln + Size(m)
    <3>1. ln = 1 /\ Size(m) = 0 /\ Len(Packet(m)) = 2
      BY <2>1, <2>3, <2>5, Zenon
    <3>2. 1 + 1 + 0 = 2
      OBVIOUS
    <3> QED  BY <3>1, <3>2, Zenon
  <2>7. \A i \in 1 .. ln : Packet(m)[1 + i] = LengthBytes[Size(m)][i]
    BY <2>3, <2>5
  <2> QED  BY <2>5, <2>6, <2>7
<1>2. CASE m # Ping
  <2>1. m \in Publishes /\ Packet(m) = PublishPacket(m) /\ Size(m) = Remaining(m)
    BY <1>2, Zenon DEF Sent, Packet, Size
  <2> PICK tn \in Nat : tn = Len(TOPIC)
    BY TopicLength
  <2> PICK dn \in Nat : dn = Len(IdOf(m))
    BY <2>1, IdIs, LenProperties
  <2>2. /\ PublishPacket(m) \in Seq(Nat) /\ Len(PublishPacket(m)) = 1 + ln + Remaining(m)
        /\ At(PublishPacket(m), 1, LengthBytes[Remaining(m)])
    <3> ln = Len(LengthBytes[Remaining(m)])  BY <2>1
    <3>1. Published(PublishPacket(m), m, ln, tn, dn)
      BY <2>1, PublishBytes, Zenon
    <3> QED  BY <3>1, Zenon DEF Published
  <2>3. \A i \in 1 .. ln : PublishPacket(m)[1 + i] = LengthBytes[Remaining(m)][i]
    BY <2>1, <2>2, Zenon DEF At
  <2> QED  BY <2>1, <2>2, <2>3, Zenon
<1> QED  BY <1>1, <1>2

-----------------------------------------------------------------------------
(***************************************************************************)
(* Packets one after another.                                              *)
(***************************************************************************)

\* f[i] is what the first i of n sequences make together.
JoinsTo(ss, n, f) == f = [i \in 1 .. n |-> IF i = 1 THEN ss[i] ELSE f[i - 1] \o ss[i]]

LEMMA Regroup ==
  ASSUME NEW x \in Seq(Nat), NEW y \in Seq(Nat), NEW z \in Seq(Nat)
  PROVE  (x \o y) \o z = x \o (y \o z)
BY ConcatAssociative

LEMMA JoinsToExist ==
  ASSUME NEW ss, NEW n \in Nat
  PROVE  \E f : JoinsTo(ss, n, f)
<1> DEFINE T == {m \in Nat : ~ \E f : JoinsTo(ss, m, f)}
<1>1. SUFFICES ASSUME T # {} PROVE FALSE
  OBVIOUS
<1>2. PICK m \in T : \A k \in T : m <= k
  <2> HIDE DEF T
  <2> T \subseteq Nat  BY DEF T
  <2> QED  BY <1>1, HasLeast
<1>3. m # 0
  <2>1. JoinsTo(ss, 0, [i \in 1 .. 0 |-> ss[i]])
    BY DEF JoinsTo
  <2> QED  BY <2>1
<1>4. m \in Nat /\ m - 1 \in Nat /\ m - 1 \notin T
  BY <1>2, <1>3
<1>5. PICK f : JoinsTo(ss, m - 1, f)
  BY <1>4
<1> DEFINE E(i, x) == IF i = 1 THEN ss[i] ELSE x \o ss[i]
           g == [i \in 1 .. m |-> IF i = m THEN E(m, f[m - 1]) ELSE f[i]]
<1>6. ASSUME NEW i \in 1 .. m PROVE g[i] = E(i, g[i - 1])
  <2>1. i = m => g[i] = E(m, f[m - 1])
    <3> HIDE DEF E
    <3> QED  BY <1>4
  <2>2. i # m => i \in 1 .. m - 1 /\ g[i] = f[i]
    <3> HIDE DEF E
    <3> QED  BY <1>4
  <2>3. i # 1 => g[i - 1] = f[i - 1]
    <3> HIDE DEF E
    <3> QED  BY <1>4
  <2>4. i # m => f[i] = E(i, f[i - 1])
    <3>1. f = [j \in 1 .. m - 1 |-> E(j, f[j - 1])]
      BY <1>5, Zenon DEF JoinsTo, E
    <3> HIDE DEF E
    <3> QED  BY <2>2, <3>1
  <2>5. i = 1 => \A x, y : E(i, x) = E(i, y)
    BY Zenon DEF E
  <2> HIDE DEF E, g
  <2>6. CASE i = 1
    <3>1. \E x : g[i] = E(i, x)
      BY <2>1, <2>2, <2>4, Zenon
    <3> QED  BY <2>5, <2>6, <3>1, Zenon
  <2>7. CASE i # 1
    <3>1. CASE i = m
      BY <2>1, <2>3, <2>7, <3>1, Zenon
    <3>2. CASE i # m
      BY <2>2, <2>3, <2>4, <2>7, <3>2, Zenon
    <3> QED  BY <3>1, <3>2
  <2> QED  BY <2>6, <2>7
<1>7. JoinsTo(ss, m, g)
  <2> HIDE DEF E
  <2>1. g = [i \in 1 .. m |-> E(i, g[i - 1])]
    BY <1>6
  <2> HIDE DEF g
  <2> QED  BY <2>1, Zenon DEF JoinsTo, E
<1> QED  BY <1>4, <1>7, Zenon

LEMMA FlattenIs ==
  ASSUME NEW ss, NEW n \in Nat, n = Len(ss), n # 0
  PROVE  \E f : /\ FlattenSeq(ss) = f[n] /\ f[1] = ss[1]
                /\ \A i \in 2 .. n : f[i] = f[i - 1] \o ss[i]
<1>1. \E f : JoinsTo(ss, Len(ss), f)
  BY JoinsToExist
<1> DEFINE f == CHOOSE f : f = [i \in 1 .. Len(ss) |-> IF i = 1 THEN ss[i] ELSE f[i - 1] \o ss[i]]
<1>2. f = [i \in 1 .. Len(ss) |-> IF i = 1 THEN ss[i] ELSE f[i - 1] \o ss[i]]
  BY <1>1, Zenon DEF JoinsTo
<1>3. FlattenSeq(ss) = f[n]
  BY Zenon DEF FlattenSeq
<1> HIDE DEF f
<1>4. f[1] = ss[1]
  BY <1>2
<1>5. ASSUME NEW i \in 2 .. n PROVE f[i] = f[i - 1] \o ss[i]
  <2> i \in 1 .. Len(ss) /\ i # 1
    OBVIOUS
  <2> QED  BY <1>2
<1> QED  BY <1>3, <1>4, <1>5, Zenon

\* Flattened, sequences are the last of them behind the others, and the first
\* before the others.
LEMMA FlattenType ==
  ASSUME NEW ss \in Seq(Seq(Nat))
  PROVE  FlattenSeq(ss) \in Seq(Nat)
<1> PICK n \in Nat : n = Len(ss)
  BY LenProperties
<1>1. CASE n = 0
  <2>1. FlattenSeq(ss) = ss
    BY <1>1, Zenon DEF FlattenSeq
  <2>2. ss = <<>>
    BY <1>1, EmptySeq
  <2> QED  BY <2>1, <2>2, EmptySeq
<1>2. CASE n # 0
  <2>1. PICK f : /\ FlattenSeq(ss) = f[n] /\ f[1] = ss[1]
                 /\ \A i \in 2 .. n : f[i] = f[i - 1] \o ss[i]
    BY <1>2, FlattenIs
  <2> DEFINE T == {i \in 1 .. n : f[i] \notin Seq(Nat)}
  <2>2. T = {}
    <3>1. SUFFICES ASSUME T # {} PROVE FALSE
      OBVIOUS
    <3>2. PICK i \in T : \A k \in T : i <= k
      <4> T \subseteq Nat  OBVIOUS
      <4> HIDE DEF T
      <4> QED  BY <3>1, HasLeast
    <3>3. ss[1] \in Seq(Nat) /\ ss[i] \in Seq(Nat)
      <4> 1 \in 1 .. Len(ss) /\ i \in 1 .. Len(ss)  BY <1>2
      <4> QED  BY ElementOfSeq
    <3>4. i # 1
      BY <2>1, <3>3
    <3>5. i - 1 \in 1 .. n /\ i - 1 \notin T /\ i \in 2 .. n
      BY <3>2, <3>4
    <3>6. f[i - 1] \in Seq(Nat) /\ f[i] = f[i - 1] \o ss[i]
      BY <2>1, <3>5
    <3>7. f[i] \in Seq(Nat)
      BY <3>3, <3>6, ConcatProperties
    <3> QED  BY <3>7
  <2>3. f[n] \in Seq(Nat)
    BY <1>2, <2>2
  <2> QED  BY <2>1, <2>3
<1> QED  BY <1>1, <1>2

LEMMA FlattenAppend ==
  ASSUME NEW ss \in Seq(Seq(Nat)), NEW s \in Seq(Nat)
  PROVE  FlattenSeq(Append(ss, s)) = FlattenSeq(ss) \o s
<1> PICK n \in Nat : n = Len(ss)
  BY LenProperties
<1> DEFINE st == Append(ss, s)
<1>1. /\ st \in Seq(Seq(Nat)) /\ Len(st) = n + 1 /\ st[n + 1] = s
      /\ \A i \in 1 .. n : st[i] = ss[i]
  BY AppendProperties
<1> HIDE DEF st
<1>2. PICK g : /\ FlattenSeq(st) = g[n + 1] /\ g[1] = st[1]
               /\ \A i \in 2 .. n + 1 : g[i] = g[i - 1] \o st[i]
  <2> n + 1 \in Nat /\ n + 1 # 0  OBVIOUS
  <2> QED  BY <1>1, FlattenIs
<1>3. CASE n = 0
  <2>1. FlattenSeq(ss) = ss
    BY <1>3, Zenon DEF FlattenSeq
  <2>2. ss = <<>>
    BY <1>3, EmptySeq
  <2>3. FlattenSeq(st) = s
    BY <1>1, <1>2, <1>3
  <2> QED  BY <2>1, <2>2, <2>3, ConcatEmptySeq DEF st
<1>4. CASE n # 0
  <2>1. PICK f : /\ FlattenSeq(ss) = f[n] /\ f[1] = ss[1]
                 /\ \A i \in 2 .. n : f[i] = f[i - 1] \o ss[i]
    BY <1>4, FlattenIs
  <2> DEFINE T == {i \in 1 .. n : f[i] # g[i]}
  <2>2. T = {}
    <3>1. SUFFICES ASSUME T # {} PROVE FALSE
      OBVIOUS
    <3>2. PICK i \in T : \A k \in T : i <= k
      <4> T \subseteq Nat  OBVIOUS
      <4> HIDE DEF T
      <4> QED  BY <3>1, HasLeast
    <3>3. i # 1
      <4> f[1] = g[1]  BY <1>1, <1>2, <1>4, <2>1
      <4> QED  BY <3>2
    <3>4. i - 1 \in 1 .. n /\ i - 1 \notin T /\ i \in 2 .. n /\ i \in 2 .. n + 1
      BY <3>2, <3>3
    <3>5. f[i - 1] = g[i - 1]
      BY <3>4
    <3>6. f[i] = f[i - 1] \o ss[i] /\ g[i] = g[i - 1] \o st[i] /\ st[i] = ss[i]
      BY <1>1, <1>2, <2>1, <3>4
    <3> QED  BY <3>2, <3>5, <3>6
  <2>3. g[n + 1] = g[n] \o st[n + 1] /\ g[n] = f[n]
    <3>1. n + 1 \in 2 .. n + 1 /\ n + 1 - 1 = n /\ n \in 1 .. n
      BY <1>4
    <3>2. g[n + 1] = g[n] \o st[n + 1]
      <4> PICK k \in 2 .. n + 1 : k = n + 1
        BY <3>1
      <4>1. g[k] = g[k - 1] \o st[k]
        BY <1>2, Zenon
      <4>2. k - 1 = n
        OBVIOUS
      <4> QED  BY <4>1, <4>2
    <3>3. g[n] = f[n]
      BY <2>2, <3>1
    <3> QED  BY <3>2, <3>3
  <2> QED  BY <1>1, <1>2, <2>1, <2>3, Zenon DEF st
<1> QED  BY <1>3, <1>4

LEMMA FlattenHead ==
  ASSUME NEW ss \in Seq(Seq(Nat)), ss # <<>>
  PROVE  FlattenSeq(ss) = Head(ss) \o FlattenSeq(Tail(ss))
<1> PICK n \in Nat : n + 1 = Len(ss)
  <2>1. Len(ss) \in Nat /\ Len(ss) # 0
    BY EmptySeq
  <2>2. Len(ss) - 1 \in Nat /\ Len(ss) - 1 + 1 = Len(ss)
    BY <2>1
  <2> QED  BY <2>2, Zenon
<1> DEFINE st == Tail(ss)
           s == Head(ss)
<1>1. /\ st \in Seq(Seq(Nat)) /\ Len(st) = n /\ \A i \in 1 .. n : st[i] = ss[i + 1]
      /\ s \in Seq(Nat) /\ s = ss[1]
  BY HeadTailProperties
<1> HIDE DEF st, s
<1>2. PICK g : /\ FlattenSeq(ss) = g[n + 1] /\ g[1] = ss[1]
               /\ \A i \in 2 .. n + 1 : g[i] = g[i - 1] \o ss[i]
  <2> n + 1 \in Nat /\ n + 1 # 0  OBVIOUS
  <2> QED  BY <1>1, FlattenIs
<1>3. CASE n = 0
  <2>1. FlattenSeq(st) = st
    BY <1>1, <1>3, Zenon DEF FlattenSeq
  <2>2. st = <<>>
    BY <1>1, <1>3, EmptySeq
  <2>3. FlattenSeq(ss) = s
    BY <1>1, <1>2, <1>3
  <2> QED  BY <1>1, <2>1, <2>2, <2>3, ConcatEmptySeq DEF st, s
<1>4. CASE n # 0
  <2>1. PICK f : /\ FlattenSeq(st) = f[n] /\ f[1] = st[1]
                 /\ \A i \in 2 .. n : f[i] = f[i - 1] \o st[i]
    BY <1>1, <1>4, FlattenIs
  <2> DEFINE Good(i) == f[i] \in Seq(Nat) /\ g[i + 1] = s \o f[i]
             T == {i \in 1 .. n : ~Good(i)}
  <2>2. T = {}
    <3>1. SUFFICES ASSUME T # {} PROVE FALSE
      OBVIOUS
    <3>2. PICK i \in T : \A k \in T : i <= k
      <4> HIDE DEF Good
      <4> T \subseteq Nat  OBVIOUS
      <4> HIDE DEF T
      <4> QED  BY <3>1, HasLeast
    <3>3. st[1] \in Seq(Nat) /\ st[i] \in Seq(Nat)
      <4> 1 \in 1 .. Len(st) /\ i \in 1 .. Len(st)  BY <1>1, <1>4
      <4> QED  BY <1>1, ElementOfSeq
    <3>4. Good(1)
      <4>1. f[1] \in Seq(Nat)
        BY <2>1, <3>3
      <4>2. g[2] = g[1] \o ss[2] /\ ss[2] = st[1]
        <5> 2 \in 2 .. n + 1 /\ 2 - 1 = 1 /\ 1 \in 1 .. n /\ 1 + 1 = 2  BY <1>4
        <5> QED  BY <1>1, <1>2
      <4>3. g[2] = s \o f[1]
        BY <1>1, <1>2, <2>1, <4>2
      <4> QED  BY <4>1, <4>3
    <3>5. i # 1
      <4> HIDE DEF Good
      <4> QED  BY <3>2, <3>4
    <3>6. i - 1 \in 1 .. n /\ i - 1 \notin T /\ i \in 2 .. n /\ i + 1 \in 2 .. n + 1
      <4> HIDE DEF Good
      <4> QED  BY <3>2, <3>5
    <3>7. f[i - 1] \in Seq(Nat) /\ g[i] = s \o f[i - 1]
      <4> Good(i - 1)  BY <3>6
      <4> i - 1 + 1 = i  BY <3>6
      <4> QED  OBVIOUS
    <3>8. f[i] = f[i - 1] \o st[i] /\ g[i + 1] = g[i] \o ss[i + 1] /\ st[i] = ss[i + 1]
      <4>1. i + 1 - 1 = i /\ i \in 1 .. n
        BY <3>6
      <4>2. f[i] = f[i - 1] \o st[i]
        BY <2>1, <3>6, Zenon
      <4>3. g[i + 1] = g[i] \o ss[i + 1]
        <5> PICK k \in 2 .. n + 1 : k = i + 1
          BY <3>6
        <5>1. g[k] = g[k - 1] \o ss[k]
          BY <1>2, Zenon
        <5>2. k - 1 = i
          BY <3>6
        <5> QED  BY <5>1, <5>2
      <4>4. st[i] = ss[i + 1]
        BY <1>1, <4>1, Zenon
      <4> QED  BY <4>2, <4>3, <4>4, Zenon
    <3>9. f[i] \in Seq(Nat)
      BY <3>3, <3>7, <3>8, ConcatProperties
    <3>10. (s \o f[i - 1]) \o st[i] = s \o (f[i - 1] \o st[i])
      <4> PICK x \in Seq(Nat), y \in Seq(Nat) : x = f[i - 1] /\ y = st[i]
        BY <3>3, <3>7
      <4>1. (s \o x) \o y = s \o (x \o y)
        BY <1>1, Regroup, Zenon
      <4> QED  BY <4>1, Zenon
    <3>11. g[i + 1] = s \o f[i]
      BY <3>7, <3>8, <3>10, Zenon
    <3>12. Good(i)
      BY <3>9, <3>11
    <3> HIDE DEF Good
    <3> QED  BY <3>2, <3>12
  <2>3. g[n + 1] = s \o f[n]
    <3>1. n \in 1 .. n
      BY <1>4
    <3>2. Good(n)
      <4> HIDE DEF Good
      <4> QED  BY <2>2, <3>1
    <3> QED  BY <3>2
  <2> QED  BY <1>2, <2>1, <2>3, Zenon DEF st, s
<1> QED  BY <1>3, <1>4

\* The bytes of the packets c.
Stream(c) == FlattenSeq([i \in 1 .. Len(c) |-> Packet(c[i])])

LEMMA Packets ==
  ASSUME NEW c \in Seq(Sent)
  PROVE  /\ [i \in 1 .. Len(c) |-> Packet(c[i])] \in Seq(Seq(Nat))
         /\ Len([i \in 1 .. Len(c) |-> Packet(c[i])]) = Len(c)
<1> DEFINE P == [i \in 1 .. Len(c) |-> Packet(c[i])]
<1>1. Len(c) \in Nat /\ \A i \in 1 .. Len(c) : c[i] \in Sent
  BY LenProperties, ElementOfSeq
<1>2. ASSUME NEW m \in Sent PROVE Packet(m) \in Seq(Nat)
  <2>1. Len(LengthBytes[Size(m)]) \in Nat
    BY SizeIs, LengthType
  <2> QED  BY <2>1, PacketBytes
<1>3. P \in [1 .. Len(c) -> Seq(Nat)]
  BY <1>1, <1>2
<1>4. P \in Seq(Seq(Nat))
  <2> HIDE DEF P
  <2> QED  BY <1>1, <1>3, SeqDef
<1>5. Len(P) = Len(c)
  <2> HIDE DEF P
  <2> QED  BY <1>1, <1>3, <1>4, LenProperties
<1> QED  BY <1>4, <1>5

LEMMA PacketType ==
  ASSUME NEW m \in Sent
  PROVE  Packet(m) \in Seq(Nat) /\ Len(Packet(m)) \in Nat /\ Len(Packet(m)) >= 2
<1> PICK ln \in Nat \ {0} : ln = Len(LengthBytes[Size(m)])
  BY SizeIs, LengthType
<1>1. Packet(m) \in Seq(Nat) /\ Len(Packet(m)) = 1 + ln + Size(m)
  BY PacketBytes
<1>2. Size(m) \in Nat
  BY SizeIs, Sizes
<1> QED  BY <1>1, <1>2

LEMMA StreamEmpty ==
  Stream(<<>>) = <<>>
<1> DEFINE P == [i \in 1 .. Len(<<>>) |-> Packet(<<>>[i])]
<1>1. <<>> \in Seq(Sent) /\ Len(<<>>) = 0
  BY EmptySeq
<1>2. P \in Seq(Seq(Nat)) /\ Len(P) = 0
  BY <1>1, Packets
<1>3. P = <<>>
  <2> HIDE DEF P
  <2> QED  BY <1>2, EmptySeq
<1>4. FlattenSeq(P) = P
  <2> HIDE DEF P
  <2> QED  BY <1>2, Zenon DEF FlattenSeq
<1> QED  BY <1>3, <1>4 DEF Stream

LEMMA StreamType ==
  ASSUME NEW c \in Seq(Sent)
  PROVE  Stream(c) \in Seq(Nat)
BY Packets, FlattenType, Zenon DEF Stream

LEMMA StreamAppend ==
  ASSUME NEW c \in Seq(Sent), NEW m \in Sent
  PROVE  Stream(Append(c, m)) = Stream(c) \o Packet(m)
<1> DEFINE d == Append(c, m)
           P == [i \in 1 .. Len(c) |-> Packet(c[i])]
           Q == [i \in 1 .. Len(d) |-> Packet(d[i])]
<1> PICK n \in Nat : n = Len(c)
  BY LenProperties
<1>1. /\ d \in Seq(Sent) /\ Len(d) = n + 1 /\ d[n + 1] = m
      /\ \A i \in 1 .. n : d[i] = c[i]
  BY AppendProperties
<1>2. P \in Seq(Seq(Nat)) /\ Len(P) = n /\ \A i \in 1 .. n : P[i] = Packet(c[i])
  BY Packets
<1>3. Q \in Seq(Seq(Nat)) /\ Len(Q) = n + 1 /\ \A i \in 1 .. n + 1 : Q[i] = Packet(d[i])
  <2> HIDE DEF d
  <2> QED  BY <1>1, Packets
<1>4. Packet(m) \in Seq(Nat)
  BY PacketType
<1>5. /\ Append(P, Packet(m)) \in Seq(Seq(Nat)) /\ Len(Append(P, Packet(m))) = n + 1
      /\ \A i \in 1 .. n : Append(P, Packet(m))[i] = P[i]
      /\ Append(P, Packet(m))[n + 1] = Packet(m)
  <2> HIDE DEF P
  <2> QED  BY <1>2, <1>4, AppendProperties
<1>6. Q = Append(P, Packet(m))
  <2> HIDE DEF P, Q, d
  <2>1. \A i \in 1 .. n + 1 : Q[i] = Append(P, Packet(m))[i]
    BY <1>1, <1>2, <1>3, <1>5
  <2> QED  BY <1>3, <1>5, <2>1, SeqEqual
<1>7. FlattenSeq(Append(P, Packet(m))) = FlattenSeq(P) \o Packet(m)
  <2> HIDE DEF P
  <2> QED  BY <1>2, <1>4, FlattenAppend, Zenon
<1> QED  BY <1>6, <1>7, Zenon DEF Stream

LEMMA StreamHead ==
  ASSUME NEW c \in Seq(Sent), c # <<>>
  PROVE  /\ Head(c) \in Sent /\ Tail(c) \in Seq(Sent)
         /\ Stream(c) = Packet(Head(c)) \o Stream(Tail(c))
<1> DEFINE d == Tail(c)
           P == [i \in 1 .. Len(c) |-> Packet(c[i])]
           Q == [i \in 1 .. Len(d) |-> Packet(d[i])]
<1>0. Head(c) \in Sent /\ Tail(c) \in Seq(Sent) /\ Head(c) = c[1]
  BY HeadTailProperties
<1> PICK n \in Nat : n = Len(d)
  BY <1>0, LenProperties
<1>1. Len(c) = n + 1 /\ \A i \in 1 .. n : d[i] = c[i + 1]
  <2> Len(c) \in Nat  BY LenProperties
  <2> QED  BY HeadTailProperties
<1>2. P \in Seq(Seq(Nat)) /\ Len(P) = n + 1 /\ \A i \in 1 .. n + 1 : P[i] = Packet(c[i])
  BY <1>1, Packets
<1>3. Q \in Seq(Seq(Nat)) /\ Len(Q) = n /\ \A i \in 1 .. n : Q[i] = Packet(d[i])
  <2> HIDE DEF d
  <2> QED  BY <1>0, Packets DEF d
<1>4. P # <<>> /\ Head(P) = Packet(Head(c))
  <2> HIDE DEF P
  <2>1. P # <<>>
    BY <1>2, EmptySeq
  <2>2. Head(P) = P[1] /\ 1 \in 1 .. n + 1
    BY <1>2, <2>1
  <2> QED  BY <1>0, <1>2, <2>1, <2>2
<1>5. /\ Tail(P) \in Seq(Seq(Nat)) /\ Len(Tail(P)) = n
      /\ \A i \in 1 .. n : Tail(P)[i] = P[i + 1]
  <2> HIDE DEF P
  <2> QED  BY <1>2, <1>4, HeadTailProperties
<1>6. Q = Tail(P)
  <2> HIDE DEF P, Q, d
  <2>1. \A i \in 1 .. n : Q[i] = Tail(P)[i]
    BY <1>1, <1>2, <1>3, <1>5
  <2> QED  BY <1>3, <1>5, <2>1, SeqEqual
<1>7. FlattenSeq(P) = Head(P) \o FlattenSeq(Tail(P))
  <2> HIDE DEF P
  <2> QED  BY <1>2, <1>4, FlattenHead, Zenon
<1>8. FlattenSeq(P) = Packet(Head(c)) \o FlattenSeq(Q)
  <2> HIDE DEF P, Q
  <2> QED  BY <1>4, <1>6, <1>7, Zenon
<1> QED  BY <1>0, <1>8, Zenon DEF Stream

\* The first element of a sequence that goes on.
LEMMA TailJoined ==
  ASSUME NEW s \in Seq(Nat), s # <<>>, NEW t \in Seq(Nat)
  PROVE  s \o t # <<>> /\ Head(s \o t) = Head(s) /\ Tail(s \o t) = Tail(s) \o t
<1> PICK j \in Nat \ {0} : j = Len(s)
  BY EmptySeq
<1> PICK k \in Nat : k = Len(t)
  BY LenProperties
<1> PICK w \in Seq(Nat) : w = s \o t
  BY ConcatProperties
<1> PICK r \in Seq(Nat) : r = Tail(s)
  BY HeadTailProperties
<1> PICK v \in Seq(Nat) : v = r \o t
  BY ConcatProperties
<1>1. Len(w) = j + k /\ \A i \in 1 .. j : w[i] = s[i]
  BY ConcatProperties
<1>2. \A i \in 1 .. k : w[j + i] = t[i]
  BY ConcatProperties
<1>3. Len(r) = j - 1 /\ \A i \in 1 .. j - 1 : r[i] = s[i + 1]
  BY HeadTailProperties
<1>4. Len(v) = j - 1 + k /\ \A i \in 1 .. j - 1 : v[i] = r[i]
  BY <1>3, ConcatProperties
<1>5. \A i \in 1 .. k : v[j - 1 + i] = t[i]
  BY <1>3, ConcatProperties
<1>6. w # <<>> /\ Head(w) = w[1] /\ Head(s) = s[1]
  <2>1. w # <<>>
    BY <1>1, EmptySeq
  <2> QED  BY <2>1
<1>7. Head(w) = Head(s)
  BY <1>1, <1>6
<1> PICK u \in Seq(Nat) : u = Tail(w)
  BY <1>6, HeadTailProperties
<1>8. Len(u) = j - 1 + k /\ \A i \in 1 .. j - 1 + k : u[i] = w[i + 1]
  BY <1>1, <1>6, HeadTailProperties
<1>9. ASSUME NEW i \in 1 .. j - 1 + k PROVE u[i] = v[i]
  <2>1. u[i] = w[i + 1]
    BY <1>8
  <2>2. CASE i <= j - 1
    <3>1. v[i] = s[i + 1]
      BY <1>3, <1>4, <2>2
    <3>2. w[i + 1] = s[i + 1]
      BY <1>1, <2>2
    <3> QED  BY <2>1, <3>1, <3>2
  <2>3. CASE i > j - 1
    <3> PICK h \in 1 .. k : i = j - 1 + h
      <4> i - (j - 1) \in 1 .. k  BY <2>3
      <4> QED  OBVIOUS
    <3>1. v[i] = t[h]
      BY <1>5
    <3>2. i + 1 = j + h
      OBVIOUS
    <3>3. w[i + 1] = t[h]
      BY <1>2, <3>2
    <3> QED  BY <2>1, <3>1, <3>3
  <2> QED  BY <2>2, <2>3
<1>10. u = v
  BY <1>4, <1>8, <1>9, SeqEqual
<1> QED  BY <1>6, <1>7, <1>10, Zenon

\* What is left of a packet of which n bytes are read, and of those that follow.
Left(K, n, S) == SubSeq(K, n + 1, Len(K)) \o S

LEMMA CutNext ==
  ASSUME NEW K \in Seq(Nat), NEW S \in Seq(Nat), NEW n \in Nat, n < Len(K)
  PROVE  /\ Left(K, n, S) \in Seq(Nat) /\ Left(K, n, S) # <<>>
         /\ Len(Left(K, n, S)) = Len(K) - n + Len(S)
         /\ Head(Left(K, n, S)) = K[n + 1] /\ Tail(Left(K, n, S)) = Left(K, n + 1, S)
         /\ n + 1 = Len(K) => Tail(Left(K, n, S)) = S
<1> PICK k \in Nat \ {0} : k = Len(K)
  BY LenProperties
<1> PICK m \in 1 .. k : m = n + 1
  OBVIOUS
<1> DEFINE s == SubSeq(K, m, k)
           r == SubSeq(K, m + 1, k)
<1>1. \A i \in 1 .. k : K[i] \in Nat
  BY ElementOfSeq
<1>2. s \in Seq(Nat) /\ Len(s) = k - n
  BY <1>1, SubSeqProperties
<1>3. r \in Seq(Nat) /\ Len(r) = k - n - 1
  BY <1>1, SubSeqProperties
<1>4. Head(s) = K[m] /\ Tail(s) = r
  <2>1. m \in 1 .. Len(K) /\ k \in m .. Len(K)
    OBVIOUS
  <2> QED  BY <2>1, HeadTailOfSubSeq
<1> PICK w : w = Left(K, n, S)
  OBVIOUS
<1>5. w = s \o S /\ r \o S = Left(K, n + 1, S)
  <2>1. n + 1 + 1 = m + 1
    OBVIOUS
  <2> QED  BY <2>1, Zenon DEF Left
<1>6. s # <<>>
  <2>1. Len(s) # 0
    BY <1>2
  <2> HIDE DEF s
  <2> QED  BY <2>1, EmptySeq
<1>7. k = n + 1 => r = <<>>
  BY <1>3, EmptySeq
<1> HIDE DEF s, r
<1>8. w \in Seq(Nat) /\ Len(w) = k - n + Len(S)
  BY <1>2, <1>5, ConcatProperties
<1>9. w # <<>> /\ Head(w) = K[m] /\ Tail(w) = r \o S
  BY <1>2, <1>4, <1>5, <1>6, TailJoined
<1>10. n + 1 = k => Tail(w) = S
  <2>1. <<>> \o S = S
    BY ConcatEmptySeq
  <2> QED  BY <1>7, <1>9, <2>1
<1> QED  BY <1>5, <1>8, <1>9, <1>10

\* The bytes of packets begin with all those of the first.
LEMMA StreamCut ==
  ASSUME NEW c \in Seq(Sent), c # <<>>, NEW K, K = Packet(Head(c))
  PROVE  0 < Len(K) /\ Stream(c) = Left(K, 0, Stream(Tail(c)))
<1>1. K \in Seq(Nat) /\ Len(K) >= 2 /\ Len(K) \in Nat
  BY StreamHead, PacketType
<1>2. SubSeq(K, 0 + 1, Len(K)) = K
  BY <1>1, SubSeqFull
<1>3. Stream(c) = K \o Stream(Tail(c))
  BY StreamHead
<1>4. 0 < Len(K)
  BY <1>1
<1> QED  BY <1>2, <1>3, <1>4 DEF Left

-----------------------------------------------------------------------------
(***************************************************************************)
(* The message of a packet.                                                *)
(***************************************************************************)

\* What a subscription gets: at most SUBSCRIPTIONDATALEN of n bytes f.
Given(ID, n, f) ==
  [topic |-> TRUE, id |-> ID,
   lastread |-> [i \in 1 .. IF n > SUBSCRIPTIONDATALEN
                            THEN SUBSCRIPTIONDATALEN - 1 ELSE n |-> f]]

MessageIs(m) ==
  IF m = Ping \/ Remaining(m) >= BASE THEN Nothing ELSE Given(IdOf(m), m.len, m.fill)

\* Bytes of a packet in the buffer, where the first is numbered 0.
LEMMA Shifted ==
  ASSUME NEW K, NEW b, NEW len \in Nat, \A i \in 1 .. len : b[i - 1] = K[i],
         NEW n \in Nat, NEW k \in Nat, NEW s, n + 1 + k <= len,
         \A i \in 1 .. k : K[n + 1 + i] = s[i]
  PROVE  \A i \in 1 .. k : b[n + i] = s[i]
<1> TAKE i \in 1 .. k
<1> PICK j \in 1 .. len : j = n + 1 + i
  OBVIOUS
<1>1. b[j - 1] = K[j]
  OBVIOUS
<1>2. j - 1 = n + i
  OBVIOUS
<1> QED  BY <1>1, <1>2

LEMMA Below ==
  ASSUME NEW n \in Nat, n < UINT16
  PROVE  n % UINT16 = n
BY DEF UINT16

\* A message in the buffer whose length took one byte.
InBuffer(b, len, tn, dn, q, e, ID, f) ==
  /\ len \in Nat /\ tn \in Nat \ {0} /\ dn \in {0, 2} /\ q \in {0, 1} /\ e \in Nat
  /\ tn = Len(TOPIC)
  /\ q = 1 => dn = 2 /\ ID = <<ID[1], ID[2]>>
  /\ q = 0 => dn = 0 /\ ID = <<>>
  /\ len = 4 + tn + dn + e /\ len < UINT16
  /\ b[0] = 48 + 2 * q /\ b[3] = tn
  /\ \A i \in 1 .. tn : b[3 + i] = TOPIC[i]
  /\ \A i \in 1 .. dn : b[3 + tn + i] = ID[i]
  /\ \A i \in 1 .. e : b[3 + tn + dn + i] = f

LEMMA MessageBytes ==
  ASSUME NEW b, NEW len, NEW tn, NEW dn, NEW q, NEW e, NEW ID, NEW f,
         InBuffer(b, len, tn, dn, q, e, ID, f)
  PROVE  Message(b, len) = Given(ID, e, f)
<1> USE DEF InBuffer
<1> DEFINE kept == IF e > SUBSCRIPTIONDATALEN THEN SUBSCRIPTIONDATALEN - 1 ELSE e
<1>1. b[0] \div 16 = PUBLISH /\ ((b[0] \div 2) % 4 = 1 <=> q = 1)
  <2>1. CASE q = 0
    BY <2>1 DEF PUBLISH
  <2>2. CASE q = 1
    BY <2>2 DEF PUBLISH
  <2> QED  BY <2>1, <2>2
<1>2. /\ len >= 3 /\ b[0] \div 16 = PUBLISH /\ b[3] = Len(TOPIC)
      /\ \A i \in 1 .. b[3] : b[3 + i] = TOPIC[i]
  <2>1. len >= 3
    OBVIOUS
  <2> QED  BY <1>1, <2>1, Zenon
<1>3. (IF (b[0] \div 2) % 4 = 1 THEN 2 ELSE 0) = dn
  BY <1>1
<1>4. (IF (b[0] \div 2) % 4 = 1 THEN <<b[b[3] + 4], b[b[3] + 5]>> ELSE <<>>) = ID
  <2>1. CASE q = 1
    <3>1. 1 \in 1 .. dn /\ 2 \in 1 .. dn /\ 3 + tn + 1 = tn + 4 /\ 3 + tn + 2 = tn + 5
      BY <2>1
    <3>2. b[tn + 4] = ID[1] /\ b[tn + 5] = ID[2]
      BY <3>1
    <3> QED  BY <1>1, <2>1, <3>2, Zenon
  <2>2. CASE q = 0
    BY <1>1, <2>2
  <2> QED  BY <2>1, <2>2
<1>5. (len - b[3] - dn - 4) % UINT16 = e
  <2>1. len - tn - dn - 4 = e
    BY SMTT(30)
  <2>2. e % UINT16 = e
    <3>1. e < UINT16
      BY Sizes
    <3> QED  BY <3>1, Below
  <2> QED  BY <2>1, <2>2
<1>6. [i \in 1 .. kept |-> b[3 + b[3] + dn + i]] = [i \in 1 .. kept |-> f]
  <2>1. ASSUME NEW i \in 1 .. kept PROVE b[3 + tn + dn + i] = f
    <3> i \in 1 .. e  BY Sizes
    <3> QED  OBVIOUS
  <2> HIDE DEF kept
  <2> QED  BY <2>1
<1> HIDE DEF InBuffer
<1> QED
  BY <1>2, <1>3, <1>4, <1>5, <1>6, Zenon DEF Message, Given

\* Once a packet lies in the buffer with all its bytes, the subscription gets
\* its message, if its length takes one byte, and nothing otherwise.
LEMMA MessageOf ==
  ASSUME NEW m \in Sent, NEW b, NEW len \in Nat, len = Len(Packet(m)), len <= MAXBUFFERSIZE,
         \A i \in 1 .. len : b[i - 1] = Packet(m)[i]
  PROVE  Message(b, len) = MessageIs(m)
<1>1. CASE m = Ping
  <2>1. Packet(m) = <<16 * PINGRESP, 0>>
    BY <1>1, Zenon DEF Packet
  <2>2. Len(<<16 * PINGRESP, 0>>) = 2
    OBVIOUS
  <2>3. ~(len >= 3)
    BY <2>1, <2>2
  <2> QED  BY <1>1, <2>3, Zenon DEF Message, MessageIs
<1>2. CASE m # Ping
  <2>1. m \in Publishes /\ Packet(m) = PublishPacket(m) /\ Size(m) = Remaining(m)
    BY <1>2, Zenon DEF Sent, Packet, Size
  <2> PICK K : K = PublishPacket(m)
    OBVIOUS
  <2> PICK tn \in Nat \ {0} : tn = Len(TOPIC)
    BY TopicLength
  <2> PICK q \in {0, 1}, e \in Nat : q = m.qos /\ e = m.len
    BY <2>1, NotPing
  <2> PICK dn \in {0, 2} : dn = Len(IdOf(m))
    BY <2>1, IdIs
  <2> PICK R \in 0 .. UINT16 - 1 : R = Remaining(m)
    BY <2>1, SizeIs
  <2>2. R = 2 + tn + dn + e
    BY Zenon DEF Remaining
  <2>3. /\ len = Len(K) /\ \A i \in 1 .. len : b[i - 1] = K[i]
    BY <2>1
  <2>4. R < len
    <3> PICK ln \in Nat \ {0} : ln = Len(LengthBytes[R])
      BY LengthType
    <3>1. Published(K, m, ln, tn, dn)
      BY <2>1, PublishBytes
    <3>2. Len(K) = 1 + ln + R
      BY <3>1, Zenon DEF Published
    <3> QED  BY <2>3, <3>2
  <2>5. CASE R >= BASE
    <3>1. Len(LengthBytes[R]) = 2
      <4>1. R < BASE * BASE
        BY <2>4, Sizes, SizeAssumption DEF TwoBytes
      <4>2. R \in Nat /\ UINT16 \in Nat /\ R < UINT16
        BY Sizes
      <4>3. R \div BASE \in Nat /\ R \div BASE < BASE /\ R \div BASE < R
        BY <2>5, <4>1, <4>2, Digit
      <4> PICK Q \in 0 .. UINT16 - 1 : Q = R \div BASE
        BY <4>2, <4>3
      <4>4. Len(LengthBytes[Q]) = 1
        BY <4>3, LengthFirst
      <4>5. Len(LengthBytes[R]) = 1 + Len(LengthBytes[Q])
        BY <2>5, LengthFirst
      <4> QED  BY <4>4, <4>5
    <3>2. K[4] = 0 /\ Len(K) = 3 + R
      <4>1. Published(K, m, 2, tn, dn)
        BY <2>1, <3>1, PublishBytes
      <4>2. K[1 + 2 + 1] = 0 /\ Len(K) = 1 + 2 + R
        BY <4>1, Zenon DEF Published
      <4> QED  BY <4>2
    <3>3. b[3] = 0
      <4> 4 \in 1 .. len /\ 4 - 1 = 3  BY <2>2, <2>3, <3>2
      <4> QED  BY <2>3, <3>2
    <3>4. b[3] # Len(TOPIC)
      BY <3>3
    <3> QED  BY <2>5, <3>4, Zenon DEF Message, MessageIs
  <2>6. CASE R < BASE
    <3>1. Len(LengthBytes[R]) = 1
      BY <2>6, LengthFirst
    <3>2. /\ Len(K) = 1 + 1 + R /\ K[1] = 48 + 2 * q /\ K[1 + 1 + 2] = tn
          /\ \A i \in 1 .. tn : K[1 + 1 + 2 + i] = TOPIC[i]
          /\ \A i \in 1 .. dn : K[1 + 1 + 2 + tn + i] = IdOf(m)[i]
          /\ \A i \in 1 .. e : K[1 + 1 + 2 + tn + dn + i] = m.fill
      <4>1. Published(K, m, 1, tn, dn)
        BY <2>1, <3>1, PublishBytes
      <4> QED  BY <4>1, Zenon DEF Published
    <3>3. len = 4 + tn + dn + e /\ len < UINT16
      <4>1. len < UINT16
        BY Sizes, SizeAssumption
      <4>2. len = 1 + 1 + R
        BY <2>3, <3>2, Zenon
      <4>3. 1 + 1 + R = 4 + tn + dn + e
        BY <2>2
      <4> QED  BY <4>1, <4>2, <4>3, Zenon
    <3>4. b[0] = 48 + 2 * q /\ b[3] = tn
      <4>1. 1 \in 1 .. len /\ 4 \in 1 .. len /\ 1 - 1 = 0 /\ 4 - 1 = 3 /\ 1 + 1 + 2 = 4
        BY <3>3
      <4>2. b[0] = K[1] /\ b[3] = K[4]
        BY <2>3, <4>1
      <4> QED  BY <3>2, <4>1, <4>2, Zenon
    <3>5. \A i \in 1 .. tn : b[3 + i] = TOPIC[i]
      <4>1. \A i \in 1 .. tn : K[3 + 1 + i] = TOPIC[i]
        <5>1. \A i \in 1 .. tn : K[1 + 1 + 2 + i] = TOPIC[i]
          BY <3>2, Zenon
        <5> QED  BY <5>1
      <4>2. 3 + 1 + tn <= len
        BY <3>3
      <4> QED  BY <2>3, <4>1, <4>2, Shifted, SMTT(30)
    <3>6. \A i \in 1 .. dn : b[3 + tn + i] = IdOf(m)[i]
      <4>1. \A i \in 1 .. dn : K[3 + tn + 1 + i] = IdOf(m)[i]
        <5>1. \A i \in 1 .. dn : K[1 + 1 + 2 + tn + i] = IdOf(m)[i]
          BY <3>2, Zenon
        <5> QED  BY <5>1
      <4>2. 3 + tn + 1 + dn <= len
        BY <3>3
      <4> QED  BY <2>3, <4>1, <4>2, Shifted, SMTT(30)
    <3>7. \A i \in 1 .. e : b[3 + tn + dn + i] = m.fill
      <4> TAKE i \in 1 .. e
      <4> PICK j \in 1 .. len : j = 4 + tn + dn + i
        BY <3>3
      <4>1. K[1 + 1 + 2 + tn + dn + i] = m.fill
        BY <3>2, Zenon
      <4>2. b[j - 1] = K[j]
        BY <2>3, Zenon
      <4>3. j - 1 = 3 + tn + dn + i /\ j = 1 + 1 + 2 + tn + dn + i
        OBVIOUS
      <4> QED  BY <4>1, <4>2, <4>3, Zenon
    <3>8. /\ q = 1 => dn = 2 /\ IdOf(m) = <<IdOf(m)[1], IdOf(m)[2]>>
          /\ q = 0 => dn = 0 /\ IdOf(m) = <<>>
      <4>1. ASSUME q = 1 PROVE dn = 2 /\ IdOf(m) = <<IdOf(m)[1], IdOf(m)[2]>>
        <5>1. IdOf(m) = <<0, m.id>> /\ dn = 2
          BY <2>1, <4>1, IdIs, Zenon
        <5>2. <<0, m.id>>[1] = 0 /\ <<0, m.id>>[2] = m.id
          OBVIOUS
        <5> QED  BY <5>1, <5>2, Zenon
      <4>2. ASSUME q = 0 PROVE dn = 0 /\ IdOf(m) = <<>>
        BY <2>1, <4>2, IdIs, Zenon
      <4> QED  BY <4>1, <4>2
    <3>9. Message(b, len) = Given(IdOf(m), e, m.fill)
      <4>1. InBuffer(b, len, tn, dn, q, e, IdOf(m), m.fill)
        BY <3>3, <3>4, <3>5, <3>6, <3>7, <3>8, Zenon DEF InBuffer
      <4> QED  BY <4>1, MessageBytes
    <3>10. ~(R >= BASE)
      BY <2>6, Sizes
    <3> QED  BY <1>2, <3>9, <3>10, Zenon DEF MessageIs
  <2> QED  BY <2>5, <2>6, Sizes
<1> QED  BY <1>1, <1>2

-----------------------------------------------------------------------------
(***************************************************************************)
(* Reading the length of a packet.                                         *)
(***************************************************************************)

\* Of the length of m the part n is still to come, behind the first k bytes of
\* the packet, after v and in units of u.
Due(m, n, k, v, u) ==
  /\ n \in 0 .. UINT16 - 1
  /\ v + n * u = Size(m)
  /\ k + Len(LengthBytes[n]) + Size(m) = Len(Packet(m))
  /\ \A i \in 1 .. Len(LengthBytes[n]) : Packet(m)[k + i] = LengthBytes[n][i]

LEMMA DueAtFirst ==
  ASSUME NEW m \in Sent
  PROVE  Due(m, Size(m), 1, 0, 1)
<1> PICK n \in 0 .. UINT16 - 1 : n = Size(m)
  BY SizeIs
<1> PICK l \in Nat \ {0} : l = Len(LengthBytes[n])
  BY LengthType
<1>1. /\ Len(Packet(m)) = 1 + l + n
      /\ \A i \in 1 .. l : Packet(m)[1 + i] = LengthBytes[n][i]
  BY PacketBytes
<1>2. 0 + n * 1 = n
  OBVIOUS
<1> QED  BY <1>1, <1>2, Zenon DEF Due

LEMMA DueLast ==
  ASSUME NEW m \in Sent, NEW n, NEW k \in Nat, NEW v \in Nat, NEW u \in Nat, Due(m, n, k, v, u),
         n < BASE, NEW x, x = Packet(m)[k + 1]
  PROVE  /\ (x \div BASE) % 2 = 0 /\ v + (x % BASE) * u = Size(m)
         /\ k + 1 + Size(m) = Len(Packet(m))
<1>1. /\ n \in 0 .. UINT16 - 1 /\ v + n * u = Size(m)
      /\ k + Len(LengthBytes[n]) + Size(m) = Len(Packet(m))
      /\ \A i \in 1 .. Len(LengthBytes[n]) : Packet(m)[k + i] = LengthBytes[n][i]
  BY Zenon DEF Due
<1>2. LengthBytes[n][1] = n /\ Len(LengthBytes[n]) = 1
  BY <1>1, LengthFirst
<1>3. x = n
  <2> 1 \in 1 .. 1
    OBVIOUS
  <2> QED  BY <1>1, <1>2, Zenon
<1>4. n \in 0 .. BASE - 1
  BY <1>1, Sizes
<1>5. n \div BASE = 0 /\ n % BASE = n
  BY <1>4, LengthByte, Zenon
<1>6. (x \div BASE) % 2 = 0
  BY <1>3, <1>5
<1>7. v + (x % BASE) * u = Size(m)
  BY <1>1, <1>3, <1>5, Zenon
<1>8. k + 1 + Size(m) = Len(Packet(m))
  BY <1>1, <1>2, Zenon
<1> QED  BY <1>6, <1>7, <1>8

LEMMA DueMore ==
  ASSUME NEW m \in Sent, NEW n, NEW k \in Nat, NEW v \in Nat, NEW u \in Nat, Due(m, n, k, v, u),
         n >= BASE, NEW x, x = Packet(m)[k + 1]
  PROVE  /\ (x \div BASE) % 2 = 1 /\ k + 1 < Len(Packet(m))
         /\ Due(m, n \div BASE, k + 1, v + (x % BASE) * u, u * BASE)
<1>1. /\ n \in 0 .. UINT16 - 1 /\ v + n * u = Size(m)
      /\ k + Len(LengthBytes[n]) + Size(m) = Len(Packet(m))
      /\ \A i \in 1 .. Len(LengthBytes[n]) : Packet(m)[k + i] = LengthBytes[n][i]
  BY Zenon DEF Due
<1>2. n \in Nat /\ n < UINT16 /\ BASE \in Nat /\ UINT16 \in Nat
  BY <1>1, Sizes
<1>14. PICK q \in 0 .. UINT16 - 1 : q = n \div BASE
  <2>1. n \div BASE \in Nat /\ n \div BASE < n
    BY <1>2, Digit
  <2> QED  BY <1>2, <2>1
<1>15. PICK r \in 0 .. BASE - 1 : r = n % BASE
  BY <1>2, Digit
<1>3. n = BASE * q + r
  BY <1>2, <1>14, <1>15, Digit
<1>16. PICK l \in Nat \ {0} : l = Len(LengthBytes[q])
  BY LengthType
<1>4. LengthBytes[n][1] = r + BASE
  BY <1>1, <1>15, LengthFirst
<1>5. Len(LengthBytes[n]) = 1 + l
  BY <1>1, <1>14, <1>16, LengthFirst
<1>6. \A i \in 1 .. l : LengthBytes[n][1 + i] = LengthBytes[q][i]
  BY <1>1, <1>14, <1>16, LengthFirst
<1>7. x = r + BASE
  <2> 1 \in 1 .. Len(LengthBytes[n])
    BY <1>5
  <2> QED  BY <1>1, <1>4, Zenon
<1>8. x \div BASE = 1 /\ x % BASE = r
  BY <1>7, LengthByte, Zenon
<1>9. (x \div BASE) % 2 = 1
  BY <1>8
<1>10. (v + (x % BASE) * u) + q * (u * BASE) = Size(m)
  <2>1. q \in Nat /\ r \in Nat
    BY <1>2
  <2>2. (v + r * u) + q * (u * BASE) = v + (BASE * q + r) * u
    BY <1>2, <2>1
  <2> QED  BY <1>1, <1>3, <1>8, <2>2, Zenon
<1>11. k + 1 + l + Size(m) = Len(Packet(m)) /\ Size(m) \in Nat
  <2> PICK s \in Nat : s = Size(m)
    BY SizeIs, Sizes
  <2>1. k + (1 + l) + s = Len(Packet(m))
    BY <1>1, <1>5, Zenon
  <2>2. k + (1 + l) + s = k + 1 + l + s
    OBVIOUS
  <2> QED  BY <2>1, <2>2, Zenon
<1>12. k + 1 < Len(Packet(m))
  <2>1. k + 1 < k + 1 + l + Size(m)
    BY <1>11
  <2> QED  BY <1>11, <2>1, Zenon
<1>13. \A i \in 1 .. l : Packet(m)[(k + 1) + i] = LengthBytes[q][i]
  <2> TAKE i \in 1 .. l
  <2> PICK j \in 1 .. Len(LengthBytes[n]) : j = 1 + i
    BY <1>5
  <2>1. Packet(m)[k + j] = LengthBytes[n][j]
    BY <1>1, Zenon
  <2>2. k + j = (k + 1) + i
    OBVIOUS
  <2> QED  BY <1>6, <2>1, <2>2, Zenon
<1> QED  BY <1>9, <1>10, <1>11, <1>12, <1>13, <1>14, <1>16, Zenon DEF Due

-----------------------------------------------------------------------------
(***************************************************************************)
(* The inductive invariant.                                                *)
(***************************************************************************)

\* Where readFullPacket is in the length, whatever has come.
Place ==
  /\ phase # "body" => want = 0
  /\ phase = "type" => p = 0 /\ value = 0 /\ multiplier = 1
  /\ phase = "length" => \/ p = 1 /\ multiplier = 1
                         \/ p = 2 /\ multiplier = BASE
                         \/ p = 3 /\ multiplier = BASE * BASE
                         \/ p = 4 /\ multiplier = BASE * BASE * BASE

Known == coming \in Seq(Sent) /\ of \in Sent

\* The first p bytes of the packet K are in the buffer, the others at the front
\* of the wire, before the packets that follow.
Cut(K) ==
  /\ p < Len(K)
  /\ \A i \in 1 .. p : buffer[i - 1] = K[i]
  /\ wire = Left(K, p, Stream(Tail(coming)))

\* While all came in time, reading is at its place in the packet it reads.
InPacket == clean =>
  IF coming = <<>> THEN phase = "type" /\ wire = <<>>
  ELSE /\ Cut(Packet(Head(coming)))
       /\ phase = "length" => \E n : Due(Head(coming), n, p, value, multiplier)
       /\ phase = "body" => p + want = Len(Packet(Head(coming)))

\* What the code makes of a message of one-byte length, to the byte.
Exact == clean =>
  got = IF of = Ping \/ Remaining(of) >= BASE THEN Nothing
        ELSE [topic |-> TRUE, id |-> IdOf(of),
              lastread |-> [i \in 1 .. IF of.len > SUBSCRIPTIONDATALEN
                                       THEN SUBSCRIPTIONDATALEN - 1 ELSE of.len |-> of.fill]]

IInv == TypeOK /\ Place /\ Known /\ InPacket /\ Exact

LEMMA ExactIs == Exact <=> (clean => got = MessageIs(of))
BY Zenon DEF Exact, MessageIs, Given

-----------------------------------------------------------------------------
(***************************************************************************)
(* Types and places.                                                       *)
(***************************************************************************)

\* The bytes of the stream, the packets kept apart, and the bounds.
TakeTypes == wire' \in Seq(Nat) /\ buffer' \in [0 .. MAXBUFFERSIZE - 1 -> Nat]
             /\ packets' \in 0 .. MaxPackets /\ stalls' \in 0 .. MaxStalls

LEMMA TakeIs ==
  ASSUME TypeOK, Take
  PROVE  /\ TakeTypes /\ Byte \in Nat /\ wire # <<>> /\ wire' = Tail(wire)
         /\ buffer'[p] = Byte
         /\ \A i \in 0 .. MAXBUFFERSIZE - 1 : i # p => buffer'[i] = buffer[i]
<1>1. /\ wire \in Seq(Nat) /\ wire # <<>> /\ wire' = Tail(wire)
      /\ buffer \in [0 .. MAXBUFFERSIZE - 1 -> Nat] /\ p \in 0 .. MAXBUFFERSIZE - 1
      /\ buffer' = [buffer EXCEPT ![p] = Byte]
  BY DEF TypeOK, Take
<1>2. Byte \in Nat /\ wire' \in Seq(Nat)
  BY <1>1, HeadTailProperties DEF Byte
<1>3. packets' \in 0 .. MaxPackets /\ stalls' \in 0 .. MaxStalls
  BY DEF TypeOK, Take
<1>4. /\ buffer' \in [0 .. MAXBUFFERSIZE - 1 -> Nat] /\ buffer'[p] = Byte
      /\ \A i \in 0 .. MAXBUFFERSIZE - 1 : i # p => buffer'[i] = buffer[i]
  BY <1>1, <1>2
<1> QED  BY <1>1, <1>2, <1>3, <1>4 DEF TakeTypes

LEMMA ReturnsTypes ==
  ASSUME TakeTypes, clean' \in BOOLEAN, NEW len, Returns(len)
  PROVE  TypeOK' /\ Place'
<1>1. phase' = "type" /\ p' = 0 /\ want' = 0 /\ value' = 0 /\ multiplier' = 1
  BY DEF Returns
<1>2. 0 \in 0 .. MAXBUFFERSIZE - 1 /\ 0 \in 0 .. MAXBUFFERSIZE - 0
  BY Sizes
<1>3. TypeOK'
  BY <1>1, <1>2 DEF TypeOK, TakeTypes
<1> QED  BY <1>1, <1>3 DEF Place

LEMMA SendTypes ==
  ASSUME IInv, NEW m \in Sent, Send(m)
  PROVE  TypeOK' /\ Place'
<1>1. Packet(m) \in Seq(Nat)
  BY PacketType
<1>2. wire' \in Seq(Nat) /\ packets' \in 0 .. MaxPackets
  BY <1>1, ConcatProperties, SizeAssumption DEF IInv, TypeOK, Send
<1>3. UNCHANGED <<buffer, phase, p, want, value, multiplier, clean, stalls>>
  BY DEF Send, reading
<1> QED  BY <1>2, <1>3 DEF IInv, TypeOK, Place

LEMMA ReadTypeTypes ==
  ASSUME IInv, ReadType
  PROVE  TypeOK' /\ Place'
<1>1. TypeOK /\ Take /\ phase = "type" /\ phase' = "length" /\ p' = 1
      /\ UNCHANGED <<coming, want, value, multiplier, got, of, clean>>
  BY DEF IInv, ReadType
<1>2. TakeTypes
  BY <1>1, TakeIs
<1>3. want = 0
  BY <1>1 DEF IInv, Place
<1>4. value = 0 /\ multiplier = 1
  BY <1>1 DEF IInv, Place
<1>5. TypeOK'
  BY <1>1, <1>2, <1>3, Sizes DEF TypeOK, TakeTypes
<1> QED  BY <1>1, <1>3, <1>4, <1>5 DEF Place

\* In the length, the place and the unit go together.
LEMMA Places ==
  ASSUME IInv, phase = "length", ~Malformed
  PROVE  /\ p \in 1 .. 3 /\ multiplier * BASE \in Nat /\ value \in Nat /\ multiplier \in Nat
         /\ \/ p + 1 = 2 /\ multiplier * BASE = BASE
            \/ p + 1 = 3 /\ multiplier * BASE = BASE * BASE
            \/ p + 1 = 4 /\ multiplier * BASE = BASE * BASE * BASE
<1>1. BASE \in Nat /\ BASE >= 2 /\ value \in Nat /\ multiplier \in Nat
  BY Sizes DEF IInv, TypeOK
<1>2. ~(multiplier * BASE > BASE * BASE * BASE)
  BY DEF Malformed
<1>3. CASE p = 1 /\ multiplier = 1
  BY <1>1, <1>3
<1>4. CASE p = 2 /\ multiplier = BASE
  BY <1>1, <1>4
<1>5. CASE p = 3 /\ multiplier = BASE * BASE
  BY <1>1, <1>5
<1>6. CASE p = 4 /\ multiplier = BASE * BASE * BASE
  <2> DEFINE c == BASE * BASE * BASE
  <2>1. c \in Nat /\ c > 0
    BY <1>1
  <2> HIDE DEF c
  <2>2. c * BASE > c
    BY <1>1, <2>1
  <2> QED  BY <1>2, <1>6, <2>2 DEF c
<1> QED  BY <1>3, <1>4, <1>5, <1>6 DEF IInv, Place

LEMMA LengthType2 ==
  ASSUME IInv, Take, phase = "length"
  PROVE  Length \in Nat
<1>1. Byte \in Nat /\ value \in Nat /\ multiplier \in Nat
  BY TakeIs DEF IInv, TypeOK
<1>2. Byte % BASE \in Nat
  BY <1>1, Digit
<1> QED  BY <1>1, <1>2 DEF Length

LEMMA ReadLengthTypes ==
  ASSUME IInv, ReadLength
  PROVE  TypeOK' /\ Place'
<1>1. TypeOK /\ Place /\ Take /\ phase = "length"
  BY DEF IInv, ReadLength
<1>2. TakeTypes
  BY <1>1, TakeIs
<1>3. want = 0
  BY <1>1 DEF Place
<1>4. CASE Malformed /\ clean' = FALSE /\ Returns(0)
  BY <1>2, <1>4, ReturnsTypes
<1>5. CASE /\ ~Malformed /\ More
           /\ p' = p + 1 /\ value' = Length /\ multiplier' = multiplier * BASE
           /\ UNCHANGED <<coming, phase, want, got, of, clean>>
  <2>1. Length \in Nat
    BY <1>1, LengthType2
  <2>2. /\ p \in 1 .. 3 /\ multiplier' \in Nat
        /\ \/ p' = 2 /\ multiplier' = BASE
           \/ p' = 3 /\ multiplier' = BASE * BASE
           \/ p' = 4 /\ multiplier' = BASE * BASE * BASE
    BY <1>1, <1>5, Places
  <2>3. Place'
    BY <1>1, <1>3, <1>5, <2>2 DEF Place
  <2>4. p' \in 0 .. MAXBUFFERSIZE - 1 /\ want' \in 0 .. MAXBUFFERSIZE - p'
    BY <1>3, <1>5, <2>2, Sizes
  <2>5. value' \in Nat /\ phase' = "length" /\ clean' \in BOOLEAN
    BY <1>1, <1>5, <2>1 DEF TypeOK
  <2> QED  BY <1>2, <2>2, <2>3, <2>4, <2>5 DEF TypeOK, TakeTypes
<1>6. CASE /\ ~Malformed /\ ~More /\ Length > 0
           /\ p' = p + 1 /\ value' = Length /\ multiplier' = multiplier * BASE
           /\ phase' = "body"
           /\ AskBody(Length)
           /\ UNCHANGED <<coming, got, of>>
  <2>1. Length \in Nat
    BY <1>1, LengthType2
  <2>2. p \in 1 .. 3 /\ multiplier' \in Nat
    BY <1>1, <1>6, Places
  <2>3. want' = (IF Length > MAXBUFFERSIZE - p' - 1 THEN MAXBUFFERSIZE - p' - 1 ELSE Length)
    BY <1>6 DEF AskBody
  <2>4. clean' \in BOOLEAN
    BY <1>6 DEF AskBody
  <2>5. p' \in 0 .. MAXBUFFERSIZE - 1 /\ want' \in 0 .. MAXBUFFERSIZE - p'
    <3> PICK l \in Nat : l = Length
      BY <2>1
    <3> HIDE DEF Length
    <3>1. p' = p + 1
      BY <1>6
    <3> QED  BY <2>2, <2>3, <3>1, Sizes
  <2>6. TypeOK'
    BY <1>2, <1>6, <2>1, <2>2, <2>4, <2>5 DEF TypeOK, TakeTypes
  <2> QED  BY <1>6, <2>6 DEF Place
<1>7. CASE ~Malformed /\ ~More /\ Length = 0 /\ UNCHANGED clean /\ Returns(p + 1)
  <2> clean' \in BOOLEAN
    BY <1>1, <1>7 DEF TypeOK
  <2> QED  BY <1>2, <1>7, ReturnsTypes
<1> QED  BY <1>4, <1>5, <1>6, <1>7 DEF ReadLength

LEMMA ReadBodyTypes ==
  ASSUME IInv, ReadBody
  PROVE  TypeOK' /\ Place'
<1>1. TypeOK /\ Place /\ Take /\ phase = "body" /\ clean' = clean /\ clean \in BOOLEAN
  BY DEF IInv, TypeOK, ReadBody
<1>2. TakeTypes
  BY <1>1, TakeIs
<1>3. CASE /\ want > 1
           /\ want' = want - 1 /\ p' = p + 1
           /\ UNCHANGED <<coming, phase, value, multiplier, got, of>>
  <2>1. p \in 0 .. MAXBUFFERSIZE - 1 /\ want \in 0 .. MAXBUFFERSIZE - p
    BY <1>1 DEF TypeOK
  <2>2. p' \in 0 .. MAXBUFFERSIZE - 1 /\ want' \in 0 .. MAXBUFFERSIZE - p'
    BY <1>3, <2>1, Sizes
  <2>3. TypeOK'
    BY <1>1, <1>2, <1>3, <2>2 DEF TypeOK, TakeTypes
  <2> QED  BY <1>1, <1>3, <2>3 DEF Place
<1>4. CASE want <= 1 /\ Returns(p + 1)
  BY <1>1, <1>2, <1>4, ReturnsTypes
<1> QED  BY <1>3, <1>4 DEF ReadBody

LEMMA StallTypes ==
  ASSUME IInv, Stall
  PROVE  TypeOK' /\ Place'
<1>1. TakeTypes
  BY SizeAssumption DEF IInv, TypeOK, Stall, TakeTypes
<1>2. clean' \in BOOLEAN /\ \E len : Returns(len)
  BY Zenon DEF Stall
<1> QED  BY <1>1, <1>2, ReturnsTypes

LEMMA OverType ==
  ASSUME NEW b \in [0 .. MAXBUFFERSIZE - 1 -> Nat], NEW s \in Outgoing \cup {CONNECT}
  PROVE  Over(b, s) \in [0 .. MAXBUFFERSIZE - 1 -> Nat]
<1>1. s \in Seq(Bytes) /\ Bytes \subseteq Nat
  BY OutgoingAssumption DEF Bytes
<1>2. s \in Seq(Nat)
  BY <1>1, SeqMonotonic
<1> PICK l \in Nat : l = Len(s)
  BY <1>2, LenProperties
<1>3. ASSUME NEW i \in 0 .. MAXBUFFERSIZE - 1
      PROVE  (IF i < l THEN s[i + 1] ELSE b[i]) \in Nat
  <2>1. CASE i < l
    <3> i + 1 \in 1 .. Len(s)
      BY <2>1, Sizes
    <3> QED  BY <1>2, <2>1, ElementOfSeq
  <2>2. CASE ~(i < l)
    BY <2>2
  <2> QED  BY <2>1, <2>2
<1> QED  BY <1>3 DEF Over

LEMMA SendOwnTypes ==
  ASSUME IInv, NEW s \in Outgoing, SendOwn(s)
  PROVE  TypeOK' /\ Place'
<1>1. buffer' \in [0 .. MAXBUFFERSIZE - 1 -> Nat]
  <2> buffer \in [0 .. MAXBUFFERSIZE - 1 -> Nat] /\ buffer' = Over(buffer, s)
    BY DEF IInv, TypeOK, SendOwn
  <2> QED  BY OverType
<1> QED  BY <1>1 DEF IInv, TypeOK, Place, SendOwn, reading

LEMMA ReconnectTypes ==
  ASSUME IInv, Reconnect
  PROVE  TypeOK' /\ Place'
<1>1. buffer' \in [0 .. MAXBUFFERSIZE - 1 -> Nat]
  <2> DEFINE b == [i \in DOMAIN buffer |-> 0]
  <2>1. b \in [0 .. MAXBUFFERSIZE - 1 -> Nat] /\ buffer' = Over(b, CONNECT)
    BY DEF IInv, TypeOK, Reconnect
  <2> HIDE DEF b
  <2> QED  BY <2>1, OverType
<1>2. wire' \in Seq(Nat) /\ clean' \in BOOLEAN
  <2> <<>> \in Seq(Nat)
    BY EmptySeq
  <2> QED  BY DEF Reconnect
<1>3. UNCHANGED <<phase, p, want, value, multiplier, packets, stalls>>
  BY DEF Reconnect, reading
<1>4. TypeOK /\ Place
  BY DEF IInv
<1>5. TypeOK'
  BY <1>1, <1>2, <1>3, <1>4 DEF TypeOK
<1> QED  BY <1>3, <1>4, <1>5 DEF Place

-----------------------------------------------------------------------------
(***************************************************************************)
(* The packet that is read.                                                *)
(***************************************************************************)

\* A byte read while all came in time is the next of the packet it is of.
LEMMA TakeCut ==
  ASSUME IInv, clean, Take, NEW K, K = Packet(Head(coming))
  PROVE  /\ coming # <<>> /\ K \in Seq(Nat) /\ Len(K) \in Nat /\ p \in Nat /\ p < Len(K)
         /\ Byte = K[p + 1]
         /\ wire' = Left(K, p + 1, Stream(Tail(coming)))
         /\ p + 1 = Len(K) => wire' = Stream(Tail(coming))
         /\ \A i \in 1 .. p + 1 : buffer'[i - 1] = K[i]
<1>1. TypeOK /\ coming \in Seq(Sent) /\ InPacket /\ wire # <<>>
  BY DEF IInv, Known, Take
<1>2. coming # <<>> /\ Cut(K)
  BY <1>1, Zenon DEF InPacket
<1>3. Head(coming) \in Sent /\ Tail(coming) \in Seq(Sent)
  BY <1>1, <1>2, StreamHead
<1>4. K \in Seq(Nat) /\ Len(K) \in Nat /\ Stream(Tail(coming)) \in Seq(Nat)
  BY <1>3, PacketType, StreamType
<1>5. /\ p < Len(K) /\ \A i \in 1 .. p : buffer[i - 1] = K[i]
      /\ wire = Left(K, p, Stream(Tail(coming)))
  BY <1>2, Zenon DEF Cut
<1>6. p \in Nat /\ p \in 0 .. MAXBUFFERSIZE - 1
  BY <1>1, Sizes DEF TypeOK
<1>7. /\ Head(wire) = K[p + 1] /\ Tail(wire) = Left(K, p + 1, Stream(Tail(coming)))
      /\ p + 1 = Len(K) => Tail(wire) = Stream(Tail(coming))
  BY <1>4, <1>5, <1>6, CutNext, Zenon
<1>8. /\ wire' = Tail(wire) /\ buffer'[p] = Byte
      /\ \A i \in 0 .. MAXBUFFERSIZE - 1 : i # p => buffer'[i] = buffer[i]
  BY <1>1, TakeIs
<1>9. Byte = K[p + 1]
  BY <1>7 DEF Byte
<1>10. ASSUME NEW i \in 1 .. p + 1 PROVE buffer'[i - 1] = K[i]
  <2>1. CASE i = p + 1
    <3> i - 1 = p
      BY <1>6, <2>1
    <3> QED  BY <1>8, <1>9, <2>1
  <2>2. CASE i # p + 1
    <3>1. i \in 1 .. p /\ i - 1 \in 0 .. MAXBUFFERSIZE - 1 /\ i - 1 # p
      BY <1>6, <2>2, Sizes
    <3> QED  BY <1>5, <1>8, <3>1
  <2> QED  BY <2>1, <2>2
<1> QED  BY <1>2, <1>4, <1>5, <1>6, <1>7, <1>8, <1>9, <1>10

\* Between two packets reading is at its place.
LEMMA Boundary ==
  ASSUME coming' \in Seq(Sent), p' = 0, phase' = "type", wire' = Stream(coming')
  PROVE  InPacket'
<1> PICK c \in Seq(Sent) : c = coming'
  OBVIOUS
<1>1. CASE c = <<>>
  <2>1. wire' = <<>>
    BY <1>1, StreamEmpty
  <2> QED  BY <1>1, <2>1 DEF InPacket
<1>2. CASE c # <<>>
  <2> PICK K : K = Packet(Head(c))
    OBVIOUS
  <2>1. 0 < Len(K) /\ Stream(c) = Left(K, 0, Stream(Tail(c)))
    BY <1>2, StreamCut
  <2>2. Cut(K)'
    BY <2>1 DEF Cut
  <2> QED  BY <1>2, <2>2, Zenon DEF InPacket
<1> QED  BY <1>1, <1>2

\* A packet whose last byte is read gives its message.
LEMMA Whole ==
  ASSUME IInv, clean, Take, clean', Returns(p + 1), p + 1 = Len(Packet(Head(coming)))
  PROVE  Known' /\ InPacket' /\ Exact'
<1> PICK K : K = Packet(Head(coming))
  OBVIOUS
<1>1. /\ coming # <<>> /\ p \in Nat /\ wire' = Stream(Tail(coming))
      /\ \A i \in 1 .. p + 1 : buffer'[i - 1] = K[i]
  BY TakeCut
<1>2. coming \in Seq(Sent)
  BY DEF IInv, Known
<1>3. Head(coming) \in Sent /\ Tail(coming) \in Seq(Sent)
  BY <1>1, <1>2, StreamHead
<1>4. p' = 0 /\ phase' = "type" /\ of' = Head(coming) /\ coming' = Tail(coming)
  BY DEF Returns
<1>5. got' = Message(buffer', p + 1)
  BY <1>1 DEF Returns
<1>6. p + 1 \in Nat /\ p + 1 <= MAXBUFFERSIZE
  BY Sizes DEF IInv, TypeOK
<1>7. got' = MessageIs(of')
  BY <1>1, <1>3, <1>4, <1>5, <1>6, MessageOf
<1>8. Known'
  BY <1>3, <1>4 DEF Known
<1>9. InPacket'
  BY <1>1, <1>3, <1>4, Boundary
<1>10. Exact'
  BY <1>7, Zenon DEF Exact, MessageIs, Given
<1> QED  BY <1>8, <1>9, <1>10
\* A byte in the middle of a packet.
LEMMA OneMore ==
  ASSUME IInv, clean, Take, NEW K, K = Packet(Head(coming)),
         p' = p + 1, coming' = coming, p + 1 < Len(K)
  PROVE  coming' # <<>> /\ K = Packet(Head(coming')) /\ Cut(K)'
<1>1. /\ coming # <<>> /\ wire' = Left(K, p + 1, Stream(Tail(coming)))
      /\ \A i \in 1 .. p + 1 : buffer'[i - 1] = K[i]
  BY TakeCut
<1>2. Cut(K)'
  BY <1>1 DEF Cut
<1> QED  BY <1>1, <1>2

\* A packet that is cut or late ends what is known of the stream.
LEMMA Unclean ==
  ASSUME ~clean'
  PROVE  InPacket' /\ Exact'
BY DEF InPacket, Exact

LEMMA ReturnsKnown ==
  ASSUME Known, ~clean', NEW len, Returns(len)
  PROVE  Known'
BY DEF Known, Returns

\* Nothing is handed on.
LEMMA KeepsIntact ==
  ASSUME IInv, UNCHANGED <<got, of>>, clean' => clean
  PROVE  Exact'
<1>1. Exact
  BY DEF IInv
<1> QED  BY <1>1 DEF Exact

LEMMA LeftAppend ==
  ASSUME NEW K \in Seq(Nat), NEW n \in Nat, n < Len(K), NEW S \in Seq(Nat), NEW s \in Seq(Nat)
  PROVE  Left(K, n, S) \o s = Left(K, n, S \o s)
<1> PICK k \in Nat \ {0} : k = Len(K)
  BY LenProperties
<1>1. \A i \in 1 .. k : K[i] \in Nat
  BY ElementOfSeq
<1> PICK i \in 1 .. k : i = n + 1
  OBVIOUS
<1>3. SubSeq(K, i, k) \in Seq(Nat)
  BY <1>1, SubSeqProperties
<1> PICK r \in Seq(Nat) : r = SubSeq(K, n + 1, Len(K))
  BY <1>3
<1>2. (r \o S) \o s = r \o (S \o s)
  BY Regroup
<1> QED  BY <1>2, Zenon DEF Left

LEMMA SendHolds ==
  ASSUME IInv, NEW m \in Sent, Send(m)
  PROVE  Known' /\ InPacket' /\ Exact'
<1>1. /\ TypeOK /\ Place /\ Known /\ InPacket
      /\ wire' = wire \o Packet(m) /\ coming' = Append(coming, m)
      /\ UNCHANGED <<buffer, phase, p, want, value, multiplier, got, of, clean>>
  BY DEF IInv, Send, reading
<1> PICK c \in Seq(Sent) : c = coming
  BY <1>1 DEF Known
<1>2. Known'
  BY <1>1, AppendProperties DEF Known
<1>3. Exact'
  BY <1>1, KeepsIntact
<1>4. CASE ~clean
  BY <1>1, <1>2, <1>4, Unclean
<1>5. CASE clean /\ c = <<>>
  <2>1. phase = "type" /\ wire = <<>> /\ p = 0
    BY <1>1, <1>5 DEF InPacket, Place
  <2>2. wire' = Stream(coming')
    BY <1>1, <1>5, <2>1, StreamEmpty, StreamAppend
  <2> QED  BY <1>1, <1>2, <1>3, <2>1, <2>2, Boundary DEF Known
<1>6. CASE clean /\ c # <<>>
  <2>1. Head(c) \in Sent /\ Tail(c) \in Seq(Sent)
    BY <1>6, StreamHead
  <2> PICK K \in Seq(Nat), T \in Seq(Sent) : K = Packet(Head(c)) /\ T = Tail(c)
    BY <2>1, PacketType
  <2> PICK d \in Seq(Sent) : d = Append(c, m)
    BY AppendProperties
  <2>2. Cut(K)
    BY <1>1, <1>6 DEF InPacket
  <2>3. d # <<>> /\ Head(d) = Head(c) /\ Tail(d) = Append(T, m)
    BY <1>6, AppendProperties, HeadTailAppend
  <2>4. Stream(T) \in Seq(Nat) /\ Packet(m) \in Seq(Nat) /\ K \in Seq(Nat)
    BY StreamType, PacketType
  <2>11. p \in Nat /\ p < Len(K)
    BY <1>1, <2>2, Sizes DEF Cut, TypeOK
  <2>5. wire' = Left(K, p, Stream(Tail(d)))
    <3>1. wire = Left(K, p, Stream(T))
      BY <2>2 DEF Cut
    <3>2. Stream(Append(T, m)) = Stream(T) \o Packet(m)
      BY StreamAppend
    <3>3. Left(K, p, Stream(T)) \o Packet(m) = Left(K, p, Stream(T) \o Packet(m))
      BY ONLY <2>4, <2>11, LeftAppend, Zenon
    <3> QED  BY <1>1, <2>3, <3>1, <3>2, <3>3, Zenon
  <2>6. Cut(K)'
    BY <1>1, <2>2, <2>5 DEF Cut
  <2>7. phase = "length" => \E n : Due(Head(d), n, p, value, multiplier)
    BY <1>1, <1>6, <2>3, Zenon DEF InPacket
  <2>8. phase = "body" => p + want = Len(K)
    BY <1>1, <1>6, Zenon DEF InPacket
  <2>9. K = Packet(Head(d)) /\ coming' = d
    BY <1>1, <2>3
  <2>10. InPacket'
    BY <1>1, <2>3, <2>6, <2>7, <2>8, <2>9, Zenon DEF InPacket
  <2> QED  BY <1>2, <1>3, <2>10
<1> QED  BY <1>2, <1>3, <1>4, <1>5, <1>6

LEMMA ReadTypeHolds ==
  ASSUME IInv, ReadType
  PROVE  Known' /\ InPacket' /\ Exact'
<1>1. /\ Place /\ Known /\ Take /\ phase = "type" /\ phase' = "length" /\ p' = 1
      /\ UNCHANGED <<coming, want, value, multiplier, got, of, clean>>
  BY DEF IInv, ReadType
<1>2. Known' /\ Exact'
  BY <1>1, KeepsIntact DEF Known
<1>3. CASE ~clean
  BY <1>1, <1>2, <1>3, Unclean
<1>4. CASE clean
  <2> PICK K : K = Packet(Head(coming))
    OBVIOUS
  <2>1. p = 0 /\ value = 0 /\ multiplier = 1
    BY <1>1 DEF Place
  <2>2. coming # <<>>
    BY <1>1, <1>4, TakeCut
  <2> PICK m \in Sent : m = Head(coming)
    BY <1>1, <2>2, StreamHead DEF Known
  <2>3. Due(m, Size(m), 1, 0, 1)
    BY DueAtFirst
  <2>4. p' = p + 1 /\ p + 1 < Len(K)
    BY <1>1, <2>1, PacketType
  <2>5. Cut(K)' /\ K = Packet(Head(coming'))
    BY <1>1, <1>4, <2>4, OneMore
  <2>6. \E n : Due(Head(coming'), n, p', value', multiplier')
    BY <1>1, <2>1, <2>3, Zenon
  <2>7. InPacket'
    BY <1>1, <2>2, <2>5, <2>6, Zenon DEF InPacket
  <2> QED  BY <1>2, <2>7
<1> QED  BY <1>3, <1>4

\* While all came in time, a byte without the flag is the last of the length.
LEMMA LastOfLength ==
  ASSUME IInv, clean, Take, phase = "length", ~More
  PROVE  /\ coming # <<>> /\ Length = Size(Head(coming))
         /\ p + 1 + Size(Head(coming)) = Len(Packet(Head(coming)))
<1>1. coming # <<>> /\ Byte = Packet(Head(coming))[p + 1]
  BY TakeCut
<1>2. TypeOK /\ coming \in Seq(Sent) /\ InPacket
  BY DEF IInv, Known
<1> PICK m \in Sent : m = Head(coming)
  BY <1>1, <1>2, StreamHead
<1>3. \E n : Due(m, n, p, value, multiplier)
  BY <1>1, <1>2, Zenon DEF InPacket
<1>4. PICK n : Due(m, n, p, value, multiplier)
  BY <1>3
<1>5. p \in Nat /\ value \in Nat /\ multiplier \in Nat
  BY <1>2, Sizes DEF TypeOK
<1>6. ~(n >= BASE)
  <2> SUFFICES ASSUME n >= BASE PROVE FALSE
    OBVIOUS
  <2>1. (Byte \div BASE) % 2 = 1
    BY <1>1, <1>4, <1>5, DueMore, Zenon
  <2> QED  BY <2>1 DEF More
<1>7. n < BASE
  <2> n \in 0 .. UINT16 - 1
    BY <1>4, Zenon DEF Due
  <2> QED  BY <1>6, Sizes
<1>8. /\ value + (Byte % BASE) * multiplier = Size(m)
      /\ p + 1 + Size(m) = Len(Packet(m))
  <2>1. Byte = Packet(m)[p + 1]
    BY <1>1
  <2>2. value + (Byte % BASE) * multiplier = Size(m)
    BY <1>4, <1>5, <1>7, <2>1, DueLast, SMT
  <2>3. p + 1 + Size(m) = Len(Packet(m))
    BY <1>4, <1>5, <1>7, <2>1, DueLast, Zenon
  <2> QED  BY <2>2, <2>3
<1> QED  BY <1>1, <1>8, Zenon DEF Length

LEMMA MoreOfLength ==
  ASSUME IInv, clean, Take, phase = "length", More
  PROVE  /\ coming # <<>> /\ p + 1 < Len(Packet(Head(coming)))
         /\ \E n : Due(Head(coming), n, p + 1, Length, multiplier * BASE)
<1>1. coming # <<>> /\ Byte = Packet(Head(coming))[p + 1]
  BY TakeCut
<1>2. TypeOK /\ coming \in Seq(Sent) /\ InPacket
  BY DEF IInv, Known
<1> PICK m \in Sent : m = Head(coming)
  BY <1>1, <1>2, StreamHead
<1>3. \E n : Due(m, n, p, value, multiplier)
  BY <1>1, <1>2, Zenon DEF InPacket
<1>4. PICK n : Due(m, n, p, value, multiplier)
  BY <1>3
<1>5. p \in Nat /\ value \in Nat /\ multiplier \in Nat
  BY <1>2, Sizes DEF TypeOK
<1>6. ~(n < BASE)
  <2> SUFFICES ASSUME n < BASE PROVE FALSE
    OBVIOUS
  <2>1. (Byte \div BASE) % 2 = 0
    BY <1>1, <1>4, <1>5, DueLast, ZenonT(40)
  <2> QED  BY <2>1 DEF More
<1>7. n >= BASE
  <2> n \in 0 .. UINT16 - 1
    BY <1>4, Zenon DEF Due
  <2> QED  BY <1>6, Sizes
<1>8. /\ p + 1 < Len(Packet(m))
      /\ Due(m, n \div BASE, p + 1, value + (Byte % BASE) * multiplier, multiplier * BASE)
  BY <1>1, <1>4, <1>5, <1>7, DueMore, Zenon
<1> QED  BY <1>1, <1>8, Zenon DEF Length

LEMMA ReadLengthHolds ==
  ASSUME IInv, ReadLength
  PROVE  Known' /\ InPacket' /\ Exact'
<1>1. TypeOK /\ Known /\ Take /\ phase = "length"
  BY DEF IInv, ReadLength
<1> PICK m, K : m = Head(coming) /\ K = Packet(m)
  OBVIOUS
<1>2. CASE Malformed /\ clean' = FALSE /\ Returns(0)
  BY <1>1, <1>2, Unclean, ReturnsKnown
<1>3. CASE /\ ~Malformed /\ More
           /\ p' = p + 1 /\ value' = Length /\ multiplier' = multiplier * BASE
           /\ UNCHANGED <<coming, phase, want, got, of, clean>>
  <2>1. Known' /\ Exact'
    BY <1>1, <1>3, KeepsIntact DEF Known
  <2>2. CASE ~clean
    BY <1>3, <2>1, <2>2, Unclean
  <2>3. CASE clean
    <3>1. p + 1 < Len(K) /\ \E n : Due(m, n, p + 1, Length, multiplier * BASE)
      BY <1>1, <1>3, <2>3, MoreOfLength
    <3>2. coming' # <<>> /\ K = Packet(Head(coming')) /\ Cut(K)'
      BY <1>1, <1>3, <2>3, <3>1, OneMore
    <3>3. \E n : Due(Head(coming'), n, p', value', multiplier')
      BY <1>3, <3>1, Zenon
    <3>4. InPacket'
      BY <1>1, <1>3, <3>2, <3>3, Zenon DEF InPacket
    <3> QED  BY <2>1, <3>4
  <2> QED  BY <2>2, <2>3
<1>4. CASE /\ ~Malformed /\ ~More /\ Length > 0
           /\ p' = p + 1 /\ value' = Length /\ multiplier' = multiplier * BASE
           /\ phase' = "body"
           /\ AskBody(Length)
           /\ UNCHANGED <<coming, got, of>>
  <2>1. clean' => clean /\ want' = Length
    <3>1. want' = (IF Length > MAXBUFFERSIZE - p' - 1 THEN MAXBUFFERSIZE - p' - 1 ELSE Length)
          /\ clean' = (clean /\ Length <= MAXBUFFERSIZE - p' - 1)
      BY <1>4, Zenon DEF AskBody
    <3> PICK l \in Nat : l = Length
      BY <1>1, LengthType2
    <3>2. MAXBUFFERSIZE - p' - 1 \in Int
      BY <1>1, <1>4, Sizes DEF TypeOK
    <3> PICK r \in Int : r = MAXBUFFERSIZE - p' - 1
      BY <3>2
    <3>3. want' = (IF l > r THEN r ELSE l) /\ clean' = (clean /\ l <= r)
      BY <3>1, Zenon
    <3>4. clean' => clean /\ l <= r
      BY <3>3, Zenon
    <3>5. l <= r => want' = l
      BY <3>3
    <3> QED  BY <3>4, <3>5, Zenon
  <2>2. Known' /\ Exact'
    BY <1>1, <1>4, <2>1, KeepsIntact DEF Known
  <2>3. CASE ~clean'
    BY <2>2, <2>3, Unclean
  <2>4. CASE clean'
    <3>1. coming # <<>> /\ Length = Size(m) /\ p + 1 + Size(m) = Len(K)
      BY <1>1, <1>4, <2>1, <2>4, LastOfLength
    <3>2. p' + want' = Len(K)
      BY <1>4, <2>1, <2>4, <3>1, Zenon
    <3>3. p + 1 < Len(K)
      <4>1. m \in Sent
        BY <1>1, <3>1, StreamHead DEF Known
      <4> PICK l \in Nat, k \in Nat : l = Size(m) /\ k = p + 1
        BY <4>1, SizeIs, <1>1, Sizes DEF TypeOK
      <4>2. l > 0
        BY <1>4, <3>1
      <4> QED  BY <3>1, <4>2
    <3>4. coming' # <<>> /\ K = Packet(Head(coming')) /\ Cut(K)'
      BY <1>1, <1>4, <2>1, <2>4, <3>3, OneMore
    <3>5. InPacket'
      BY <1>4, <3>2, <3>4 DEF InPacket
    <3> QED  BY <2>2, <3>5
  <2> QED  BY <2>3, <2>4
<1>5. CASE ~Malformed /\ ~More /\ Length = 0 /\ UNCHANGED clean /\ Returns(p + 1)
  <2>1. CASE ~clean
    BY <1>1, <1>5, <2>1, Unclean, ReturnsKnown
  <2>2. CASE clean
    <3>1. 0 = Size(m) /\ p + 1 + Size(m) = Len(K)
      BY <1>1, <1>5, <2>2, LastOfLength
    <3>2. p + 1 = Len(K)
      <4>1. p \in Nat
        BY <1>1, Sizes DEF TypeOK
      <4> QED  BY <3>1, <4>1
    <3> QED  BY <1>1, <1>5, <2>2, <3>2, Whole
  <2> QED  BY <2>1, <2>2
<1> QED  BY <1>2, <1>3, <1>4, <1>5, Zenon DEF ReadLength

LEMMA ReadBodyHolds ==
  ASSUME IInv, ReadBody
  PROVE  Known' /\ InPacket' /\ Exact'
<1>1. TypeOK /\ Known /\ InPacket /\ Take /\ phase = "body" /\ clean' = clean
  BY DEF IInv, ReadBody
<1> PICK K : K = Packet(Head(coming))
  OBVIOUS
<1>2. p \in Nat /\ want \in Nat
  BY <1>1, Sizes DEF TypeOK
<1>3. clean => p < Len(K) /\ p + want = Len(K)
  BY <1>1, TakeCut DEF InPacket
<1>4. CASE /\ want > 1
           /\ want' = want - 1 /\ p' = p + 1
           /\ UNCHANGED <<coming, phase, value, multiplier, got, of>>
  <2>1. Known' /\ Exact'
    BY <1>1, <1>4, KeepsIntact DEF Known
  <2>2. CASE ~clean
    BY <1>1, <2>1, <2>2, Unclean
  <2>3. CASE clean
    <3>1. p + 1 < Len(K) /\ p' + want' = Len(K)
      BY <1>2, <1>3, <1>4, <2>3
    <3>2. coming' # <<>> /\ K = Packet(Head(coming')) /\ Cut(K)'
      BY <1>1, <1>4, <2>3, <3>1, OneMore
    <3>3. InPacket'
      BY <1>1, <1>4, <3>1, <3>2 DEF InPacket
    <3> QED  BY <2>1, <3>3
  <2> QED  BY <2>2, <2>3
<1>5. CASE want <= 1 /\ Returns(p + 1)
  <2>1. CASE ~clean
    BY <1>1, <1>5, <2>1, Unclean, ReturnsKnown
  <2>2. CASE clean
    <3>1. p + 1 = Len(K)
      BY <1>2, <1>3, <1>5, <2>2
    <3> QED  BY <1>1, <1>5, <2>2, <3>1, Whole
  <2> QED  BY <2>1, <2>2
<1> QED  BY <1>4, <1>5 DEF ReadBody

LEMMA StallHolds ==
  ASSUME IInv, Stall
  PROVE  Known' /\ InPacket' /\ Exact'
<1>1. Known /\ ~clean'
  BY DEF IInv, Stall
<1>2. \E len : Returns(len)
  BY Zenon DEF Stall
<1> QED  BY <1>1, <1>2, Unclean, ReturnsKnown

LEMMA SendOwnHolds ==
  ASSUME IInv, NEW s \in Outgoing, SendOwn(s)
  PROVE  Known' /\ InPacket' /\ Exact'
<1>1. /\ Place /\ Known /\ InPacket /\ phase = "type"
      /\ UNCHANGED <<wire, coming, phase, p, want, value, multiplier, got, of, clean>>
  BY DEF IInv, SendOwn, reading
<1>2. Known' /\ Exact'
  BY <1>1, KeepsIntact DEF Known
<1>3. p = 0
  BY <1>1 DEF Place
<1>4. CASE ~clean
  BY <1>1, <1>2, <1>4, Unclean
<1>5. CASE clean /\ coming = <<>>
  BY <1>1, <1>2, <1>5 DEF InPacket
<1>6. CASE clean /\ coming # <<>>
  <2> PICK K : K = Packet(Head(coming))
    OBVIOUS
  <2>1. Cut(K)
    BY <1>1, <1>6, Zenon DEF InPacket
  <2>2. Cut(K)'
    BY <1>1, <1>3, <2>1 DEF Cut
  <2> QED  BY <1>1, <1>2, <1>6, <2>2 DEF InPacket
<1> QED  BY <1>4, <1>5, <1>6

LEMMA ReconnectHolds ==
  ASSUME IInv, Reconnect
  PROVE  Known' /\ InPacket' /\ Exact'
<1>1. /\ phase' = "type" /\ wire' = <<>> /\ coming' = <<>> /\ got' = Nothing /\ of' = Ping
  BY DEF Reconnect, reading
<1>2. <<>> \in Seq(Sent) /\ Ping \in Sent
  BY EmptySeq DEF Sent
<1>3. Known'
  BY <1>1, <1>2 DEF Known
<1>4. InPacket'
  BY <1>1 DEF InPacket
<1>5. Exact'
  BY <1>1, Zenon DEF Exact
<1> QED  BY <1>3, <1>4, <1>5

-----------------------------------------------------------------------------
(***************************************************************************)
(* The theorems.                                                           *)
(***************************************************************************)

LEMMA InitHolds == Init => IInv
<1> SUFFICES ASSUME Init PROVE IInv
  OBVIOUS
<1> USE DEF Init
<1>1. <<>> \in Seq(Nat) /\ <<>> \in Seq(Sent) /\ Ping \in Sent
  BY EmptySeq DEF Sent
<1>2. TypeOK
  BY <1>1, Sizes, SizeAssumption DEF TypeOK
<1>3. Place
  BY DEF Place
<1>4. Known
  BY <1>1 DEF Known
<1>5. InPacket
  BY DEF InPacket
<1>6. Exact
  BY Zenon DEF Exact
<1> QED  BY <1>2, <1>3, <1>4, <1>5, <1>6 DEF IInv

LEMMA NextHolds == IInv /\ [Next]_vars => IInv'
<1> SUFFICES ASSUME IInv, [Next]_vars PROVE IInv'
  OBVIOUS
<1> USE DEF IInv
<1>1. ASSUME NEW m \in Messages,
             Send([qos |-> m.qos, len |-> m.len, fill |-> m.fill, id |-> packets])
      PROVE  IInv'
  <2> DEFINE s == [qos |-> m.qos, len |-> m.len, fill |-> m.fill, id |-> packets]
  <2>1. m \in [qos : {0, 1}, len : Nat, fill : Nat] /\ Len(TOPIC) + m.len + 4 < UINT16
    BY MessagesAssumption
  <2>2. packets \in Nat
    BY SizeAssumption DEF TypeOK
  <2>3. s \in Sent
    BY <2>1, <2>2 DEF Sent, Publishes
  <2> HIDE DEF s
  <2>4. Send(s)
    BY <1>1 DEF s
  <2> QED  BY <2>3, <2>4, SendTypes, SendHolds
<1>2. ASSUME Send(Ping) PROVE IInv'
  <2> Ping \in Sent
    BY DEF Sent
  <2> QED  BY <1>2, SendTypes, SendHolds
<1>3. ASSUME ReadType PROVE IInv'
  BY <1>3, ReadTypeTypes, ReadTypeHolds
<1>4. ASSUME ReadLength PROVE IInv'
  BY <1>4, ReadLengthTypes, ReadLengthHolds
<1>5. ASSUME ReadBody PROVE IInv'
  BY <1>5, ReadBodyTypes, ReadBodyHolds
<1>6. ASSUME Stall PROVE IInv'
  BY <1>6, StallTypes, StallHolds
<1>7. ASSUME NEW s \in Outgoing, SendOwn(s) PROVE IInv'
  BY <1>7, SendOwnTypes, SendOwnHolds
<1>8. ASSUME Reconnect PROVE IInv'
  BY <1>8, ReconnectTypes, ReconnectHolds
<1>9. ASSUME UNCHANGED vars PROVE IInv'
  <2>1. UNCHANGED <<wire, coming, buffer, phase, p, want, value, multiplier,
                    got, of, clean, packets, stalls>>
    BY <1>9 DEF vars, reading
  <2>2. TypeOK'
    BY <2>1 DEF TypeOK
  <2>3. Place' /\ Known'
    BY <2>1 DEF Place, Known
  <2>4. InPacket'
    BY <2>1 DEF InPacket, Cut
  <2>5. Exact'
    BY <2>1, KeepsIntact
  <2> QED  BY <2>2, <2>3, <2>4, <2>5
<1> QED
  BY <1>1, <1>2, <1>3, <1>4, <1>5, <1>6, <1>7, <1>8, <1>9 DEF Next, Read

\* What is in the buffer, on the wire and announced belongs together in every
\* reachable state, whatever the broker sends (readFullPacket, readPacket).
THEOREM Invariant == Spec => []IInv
BY InitHolds, NextHolds, PTL DEF Spec

\* readFullPacket never asks for more of a body than the buffer has room for,
\* and writes every byte within the buffer.
THEOREM TypeCorrect == Spec => []TypeOK
<1>1. IInv => TypeOK
  BY DEF IInv
<1> QED  BY <1>1, Invariant, PTL

LEMMA InPacketAligned == IInv => Aligned
<1> SUFFICES ASSUME IInv, clean PROVE Aligned
  BY DEF Aligned
<1>1. TypeOK /\ Place /\ coming \in Seq(Sent) /\ InPacket
  BY DEF IInv, Known
<1>2. ASSUME phase = "type" PROVE wire = Stream(coming)
  <2>1. CASE coming = <<>>
    BY <1>1, <2>1, StreamEmpty DEF InPacket
  <2>2. CASE coming # <<>>
    <3> PICK K : K = Packet(Head(coming))
      OBVIOUS
    <3>1. Cut(K)
      BY <1>1, <2>2, Zenon DEF InPacket
    <3>2. p = 0
      BY <1>1, <1>2 DEF Place
    <3>3. wire = Left(K, 0, Stream(Tail(coming)))
      BY <3>1, <3>2 DEF Cut
    <3> QED  BY <1>1, <2>2, <3>3, StreamCut
  <2> QED  BY <2>1, <2>2
<1>3. ASSUME phase = "body"
      PROVE  coming # <<>> /\ Len(Packet(Head(coming))) = p + want /\ Len(wire) >= want
  <2> PICK K : K = Packet(Head(coming))
    OBVIOUS
  <2>1. coming # <<>> /\ Cut(K) /\ p + want = Len(K)
    BY <1>1, <1>3 DEF InPacket
  <2>2. Head(coming) \in Sent /\ Tail(coming) \in Seq(Sent)
    BY <1>1, <2>1, StreamHead
  <2> PICK S \in Seq(Nat) : S = Stream(Tail(coming))
    BY <2>2, StreamType
  <2>3. K \in Seq(Nat) /\ p \in Nat /\ want \in Nat /\ p < Len(K) /\ wire = Left(K, p, S)
    BY <1>1, <2>1, <2>2, PacketType, Sizes, SMTT(30) DEF Cut, TypeOK
  <2>4. Len(wire) = Len(K) - p + Len(S)
    BY <2>3, CutNext, Zenon
  <2>5. Len(S) \in Nat
    BY LenProperties
  <2> QED  BY <2>1, <2>3, <2>4, <2>5
<1> QED  BY <1>2, <1>3, Zenon DEF Aligned, Stream

\* While every packet came in time and fitted, readFullPacket stays at the
\* boundaries publishPacket drew, whatever the packets hold and however many
\* bytes their lengths take.
THEOREM AlignedHolds == Spec => []Aligned
BY InPacketAligned, Invariant, PTL

\* Every message handed on is the one the broker sent, with its identifier and
\* its data, or the first SUBSCRIPTIONDATALEN - 1 bytes of it at least, if its
\* length takes one byte, and none is made of another
\* (handleSubscriptionPacket).
THEOREM IntactHolds == Spec => []Intact
<1>1. ASSUME IInv PROVE Intact
  <2> SUFFICES ASSUME clean, ~(of = Ping \/ Remaining(of) >= BASE)
      PROVE  \E n \in {SUBSCRIPTIONDATALEN - 1, SUBSCRIPTIONDATALEN} :
               got = [topic |-> TRUE, id |-> IdOf(of),
                      lastread |-> [i \in 1 .. IF of.len < n THEN of.len ELSE n |-> of.fill]]
    BY <1>1, Zenon DEF IInv, Exact, Intact
  <2> DEFINE Cap(k) == [topic |-> TRUE, id |-> IdOf(of), lastread |-> [i \in 1 .. k |-> of.fill]]
  <2>1. got = Cap(IF of.len > SUBSCRIPTIONDATALEN THEN SUBSCRIPTIONDATALEN - 1 ELSE of.len)
    BY <1>1, Zenon DEF IInv, Exact
  <2>2. of.len \in Nat
    <3>1. of \in Publishes
      BY <1>1 DEF IInv, Known, Sent
    <3> QED  BY <3>1, NotPing
  <2> PICK l \in Nat, S \in Nat \ {0} : l = of.len /\ S = SUBSCRIPTIONDATALEN
    BY <2>2, Sizes
  <2>3. CASE l > S
    <3>1. (IF l > S THEN S - 1 ELSE l) = (IF l < S - 1 THEN l ELSE S - 1)
      BY <2>3
    <3> QED  BY <2>1, <3>1, Zenon
  <2>4. CASE ~(l > S)
    <3>1. (IF l > S THEN S - 1 ELSE l) = (IF l < S THEN l ELSE S)
      BY <2>4
    <3> QED  BY <2>1, <3>1, Zenon
  <2> QED  BY <2>3, <2>4
<1> QED  BY <1>1, Invariant, PTL
=============================================================================
