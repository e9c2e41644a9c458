--------------------------- MODULE Search_proofs ---------------------------
(***************************************************************************)
(* That both searches of the repository, OneWire's and the alarm search of *)
(* DallasTemperature, find every device once, for addresses of any length  *)
(* and any devices.  Both walk the tree of the addresses and return what   *)
(* lies to the left of their path; the first section is about such paths,  *)
(* the others are about what each search keeps from one call to the next.  *)
(***************************************************************************)
EXTENDS OneWireSearch, DallasAlarm, TLAPS

-----------------------------------------------------------------------------
(***************************************************************************)
(* A path r through the tree of the addresses B, before bit p: what leaves *)
(* it to the left, where the last branch to its right is, and how that     *)
(* changes when bit p is set.                                              *)
(***************************************************************************)

\* The devices that leave the path r to its left before bit p.
Left(B, r, p) ==
  {d \in B : \E k \in 1 .. p - 1 : Agree(d, r, k - 1) /\ d[k] = 0 /\ r[k] = 1}

\* Every device is on the path up to bit p or leaves it at one bit.
Split(B, r, p) ==
  \A d \in B : \/ Agree(d, r, p - 1)
               \/ \E k \in 1 .. p - 1 : Agree(d, r, k - 1) /\ d[k] # r[k]

\* z is the last bit before p at which a device leaves the path to the right,
\* 0 when none does.
Junction(B, r, z, p) ==
  /\ z \in 0 .. p - 1
  /\ z > 0 => r[z] = 0 /\ \E d \in B : Agree(d, r, z - 1) /\ d[z] = 1
  /\ \A k \in z + 1 .. p - 1 :
       r[k] = 0 => \A d \in B : Agree(d, r, k - 1) => d[k] = 0

-----------------------------------------------------------------------------
\* Setting bit p changes nothing before it.
LEMMA AgreeKept ==
  ASSUME NEW r \in Addr, NEW p \in 1 .. N, NEW b \in {0, 1}, NEW d, NEW k \in 1 .. p
  PROVE  Agree(d, [r EXCEPT ![p] = b], k - 1) <=> Agree(d, r, k - 1)
BY BitsAssumption DEF Agree, Addr

\* To agree up to bit p is to agree before it and in it.
LEMMA AgreeStep ==
  ASSUME NEW r, NEW p \in 1 .. N, NEW d
  PROVE  Agree(d, r, p) <=> Agree(d, r, p - 1) /\ d[p] = r[p]
BY BitsAssumption DEF Agree

\* Two addresses that agree everywhere are one.
LEMMA AgreeAll ==
  ASSUME NEW r \in Addr, NEW d \in Addr, Agree(d, r, N)
  PROVE  d = r
BY BitsAssumption DEF Agree, Addr

LEMMA SplitStep ==
  ASSUME NEW B \in SUBSET Addr, NEW r \in Addr, NEW p \in 1 .. N, NEW b \in {0, 1},
         Split(B, r, p)
  PROVE  Split(B, [r EXCEPT ![p] = b], p + 1)
<1> DEFINE s == [r EXCEPT ![p] = b]
<1>0. (p + 1) - 1 = p
  BY BitsAssumption
<1> SUFFICES ASSUME NEW d \in B
             PROVE  \/ Agree(d, s, p)
                    \/ \E k \in 1 .. p : Agree(d, s, k - 1) /\ d[k] # s[k]
  BY <1>0, Zenon DEF Split
<1>1. \A k \in 1 .. p : Agree(d, s, k - 1) <=> Agree(d, r, k - 1)
  BY AgreeKept
<1>2. \A k \in 1 .. p - 1 : s[k] = r[k]
  BY BitsAssumption DEF Addr
<1>2a. p \in 1 .. p /\ \A k \in 1 .. p - 1 : k \in 1 .. p
  BY BitsAssumption
<1>3. CASE Agree(d, r, p - 1)
  <2>1. Agree(d, s, p - 1)
    BY <1>1, <1>2a, <1>3
  <2>2. Agree(d, s, p) <=> Agree(d, s, p - 1) /\ d[p] = s[p]
    BY AgreeStep
  <2> QED  BY <2>1, <2>2, <1>2a
<1>4. CASE \E k \in 1 .. p - 1 : Agree(d, r, k - 1) /\ d[k] # r[k]
  <2>1. PICK k \in 1 .. p - 1 : Agree(d, r, k - 1) /\ d[k] # r[k]
    BY <1>4
  <2>2. Agree(d, s, k - 1) /\ d[k] # s[k]
    BY <1>1, <1>2, <1>2a, <2>1
  <2> QED  BY <1>2a, <2>2
<1> QED  BY <1>3, <1>4 DEF Split

\* Going to the right is all that adds to the left of the path.
LEMMA LeftStep ==
  ASSUME NEW B \in SUBSET Addr, NEW r \in Addr, NEW p \in 1 .. N, NEW b \in {0, 1},
         NEW d \in B
  PROVE  d \in Left(B, [r EXCEPT ![p] = b], p + 1)
           <=> \/ d \in Left(B, r, p)
               \/ Agree(d, r, p - 1) /\ d[p] = 0 /\ b = 1
<1> DEFINE s == [r EXCEPT ![p] = b]
<1>0. p \in 1 .. p /\ (\A k \in 1 .. p - 1 : k \in 1 .. p) /\ (p + 1) - 1 = p
  BY BitsAssumption
<1>1. \A k \in 1 .. p : Agree(d, s, k - 1) <=> Agree(d, r, k - 1)
  BY AgreeKept
<1>2. \A k \in 1 .. p - 1 : s[k] = r[k]
  BY BitsAssumption DEF Addr
<1>3. s[p] = b
  BY DEF Addr
<1>4. ASSUME NEW k \in 1 .. p, Agree(d, s, k - 1), d[k] = 0, s[k] = 1
      PROVE  d \in Left(B, r, p) \/ (Agree(d, r, p - 1) /\ d[p] = 0 /\ b = 1)
  <2>1. Agree(d, r, k - 1)
    BY <1>0, <1>1, <1>4
  <2>2. CASE k = p
    BY <2>1, <2>2, <1>3, <1>4
  <2>3. CASE k \in 1 .. p - 1
    BY <2>1, <2>3, <1>2, <1>4 DEF Left
  <2> QED  BY <2>2, <2>3
<1>5. ASSUME NEW k \in 1 .. p - 1, Agree(d, r, k - 1), d[k] = 0, r[k] = 1
      PROVE  d \in Left(B, s, p + 1)
  <2>1. Agree(d, s, k - 1) /\ s[k] = 1 /\ k \in 1 .. (p + 1) - 1
    BY <1>0, <1>1, <1>2, <1>5
  <2> QED  BY <2>1, <1>5 DEF Left
<1>6. ASSUME Agree(d, r, p - 1), d[p] = 0, b = 1
      PROVE  d \in Left(B, s, p + 1)
  <2>1. Agree(d, s, p - 1) /\ s[p] = 1 /\ p \in 1 .. (p + 1) - 1
    BY <1>0, <1>1, <1>3, <1>6
  <2> QED  BY <2>1, <1>6 DEF Left
<1>7. d \in Left(B, s, p + 1)
        => \E k \in 1 .. p : Agree(d, s, k - 1) /\ d[k] = 0 /\ s[k] = 1
  BY <1>0, Zenon DEF Left
<1> QED  BY <1>4, <1>5, <1>6, <1>7 DEF Left

\* The branch to the right that was left for later is the last one.
LEMMA JunctionStep ==
  ASSUME NEW B \in SUBSET Addr, NEW r \in Addr, NEW p \in 1 .. N, NEW b \in {0, 1},
         NEW z, Junction(B, r, z, p)
  PROVE  LET s == [r EXCEPT ![p] = b]
             branch == b = 0 /\ \E d \in B : Agree(d, r, p - 1) /\ d[p] = 1
         IN  Junction(B, s, IF branch THEN p ELSE z, p + 1)
<1> DEFINE s == [r EXCEPT ![p] = b]
           branch == b = 0 /\ \E d \in B : Agree(d, r, p - 1) /\ d[p] = 1
<1>0. p \in 1 .. p /\ (\A k \in 1 .. p - 1 : k \in 1 .. p) /\ (p + 1) - 1 = p
  BY BitsAssumption
<1>1. \A d \in B, k \in 1 .. p : Agree(d, s, k - 1) <=> Agree(d, r, k - 1)
  BY AgreeKept
<1>2. \A k \in 1 .. p - 1 : s[k] = r[k]
  BY BitsAssumption DEF Addr
<1>3. s[p] = b
  BY DEF Addr
<1>4. CASE branch
  <2>1. \E d \in B : Agree(d, s, p - 1) /\ d[p] = 1
    BY <1>0, <1>1, <1>4
  <2> QED  BY <2>1, <1>3, <1>4 DEF Junction
<1>5. CASE ~branch
  <2>1. z \in 0 .. (p + 1) - 1
    BY DEF Junction
  <2>2. z > 0 => s[z] = 0 /\ \E d \in B : Agree(d, s, z - 1) /\ d[z] = 1
    <3> SUFFICES ASSUME z > 0
                 PROVE  s[z] = 0 /\ \E d \in B : Agree(d, s, z - 1) /\ d[z] = 1
      OBVIOUS
    <3>1. z \in 1 .. p - 1 /\ r[z] = 0
      BY DEF Junction
    <3>2. PICK d \in B : Agree(d, r, z - 1) /\ d[z] = 1
      BY DEF Junction
    <3>3. Agree(d, s, z - 1)
      BY <1>0, <1>1, <3>1, <3>2
    <3> QED  BY <3>1, <3>2, <3>3, <1>2
  <2>3. ASSUME NEW k \in z + 1 .. (p + 1) - 1, s[k] = 0, NEW d \in B, Agree(d, s, k - 1)
        PROVE  d[k] = 0
    <3>1. k \in 1 .. p
      BY <2>1
    <3>2. Agree(d, r, k - 1)
      BY <1>0, <1>1, <2>3, <3>1
    <3>3. CASE k = p
      <4>1. d[p] \in {0, 1}
        BY DEF Addr
      <4> QED  BY <4>1, <3>2, <3>3, <1>3, <1>5, <2>3
    <3>4. CASE k < p
      <4>1. k \in z + 1 .. p - 1 /\ r[k] = 0
        BY <3>1, <3>4, <1>2, <2>1, <2>3
      <4> QED  BY <4>1, <3>2 DEF Junction
    <3> QED  BY <3>1, <3>3, <3>4
  <2> QED  BY <1>5, <2>1, <2>2, <2>3 DEF Junction
<1> QED  BY <1>4, <1>5

\* Nothing lies left of a path that has not begun.
LEMMA LeftEmpty ==
  ASSUME NEW B, NEW r, NEW p \in {0, 1}
  PROVE  Left(B, r, p) = {}
BY DEF Left

-----------------------------------------------------------------------------
\* A path with no branch to its right has everything else to its left.
LEMMA NothingRight ==
  ASSUME NEW B \in SUBSET Addr, NEW r \in B,
         Split(B, r, N + 1), Junction(B, r, 0, N + 1)
  PROVE  Left(B, r, N + 1) \cup {r} = B
<1> SUFFICES ASSUME NEW d \in B PROVE d \in Left(B, r, N + 1) \cup {r}
  BY DEF Left
<1>1. d \in Addr /\ r \in Addr /\ (N + 1) - 1 = N
  BY BitsAssumption
<1>2. CASE Agree(d, r, N)
  BY <1>1, <1>2, AgreeAll
<1>3. CASE \E k \in 1 .. N : Agree(d, r, k - 1) /\ d[k] # r[k]
  <2>1. PICK k \in 1 .. N : Agree(d, r, k - 1) /\ d[k] # r[k]
    BY <1>3
  <2>2. d[k] \in {0, 1} /\ r[k] \in {0, 1}
    BY <1>1 DEF Addr
  <2>3. k \in 0 + 1 .. (N + 1) - 1
    BY BitsAssumption
  <2>4. r[k] = 0 => d[k] = 0
    BY <2>1, <2>3 DEF Junction
  <2>5. r[k] = 1 /\ d[k] = 0
    BY <2>1, <2>2, <2>4
  <2> QED  BY <2>1, <2>3, <2>5 DEF Left
<1>4. Agree(d, r, N) \/ \E k \in 1 .. N : Agree(d, r, k - 1) /\ d[k] # r[k]
  BY <1>1, Zenon DEF Split
<1> QED  BY <1>2, <1>3, <1>4

\* Turning right at the last branch leaves the address before to the left, with
\* all that was left of it, and nothing else.
LEMMA TurnRight ==
  ASSUME NEW B \in SUBSET Addr, NEW r \in B, NEW p \in 1 .. N,
         Split(B, r, N + 1), Junction(B, r, p, N + 1)
  PROVE  Left(B, [r EXCEPT ![p] = 1], p + 1) = Left(B, r, N + 1) \cup {r}
<1> DEFINE s == [r EXCEPT ![p] = 1]
<1>1. /\ r \in Addr /\ r[p] = 0 /\ 1 \in {0, 1} /\ (N + 1) - 1 = N
      /\ \A k \in 1 .. N : k \in 1 .. (N + 1) - 1 /\ (k > p => k \in p + 1 .. (N + 1) - 1)
  BY BitsAssumption DEF Junction
<1>2. \A d \in B : d \in Left(B, s, p + 1)
         <=> d \in Left(B, r, p) \/ (Agree(d, r, p - 1) /\ d[p] = 0)
  BY <1>1, LeftStep
<1>3. ASSUME NEW d \in Left(B, r, N + 1) \cup {r}
      PROVE  d \in Left(B, s, p + 1)
  <2>1. CASE d = r
    <3>1. Agree(r, r, p - 1)
      BY DEF Agree
    <3> QED  BY <1>1, <1>2, <2>1, <3>1
  <2>2. CASE d \in Left(B, r, N + 1)
    <3>1. PICK k \in 1 .. N : Agree(d, r, k - 1) /\ d[k] = 0 /\ r[k] = 1
      BY <1>1, <2>2, Zenon DEF Left
    <3>2. d \in B
      BY <2>2 DEF Left
    <3>3. CASE k < p
      <4>1. k \in 1 .. p - 1
        BY BitsAssumption, <3>3
      <4> QED  BY <1>2, <3>1, <3>2, <4>1 DEF Left
    <3>4. CASE k > p
      <4>1. p \in 1 .. k - 1 /\ \A j \in 1 .. p - 1 : j \in 1 .. k - 1
        BY BitsAssumption, <3>4
      <4>2. Agree(d, r, p - 1) /\ d[p] = r[p]
        BY <3>1, <4>1 DEF Agree
      <4> QED  BY <1>1, <1>2, <3>2, <4>2
    <3>5. k # p
      BY <1>1, <3>1
    <3> QED  BY BitsAssumption, <3>3, <3>4, <3>5
  <2> QED  BY <2>1, <2>2
<1>4. ASSUME NEW d \in Left(B, s, p + 1)
      PROVE  d \in Left(B, r, N + 1) \cup {r}
  <2>1. d \in B /\ d \in Addr
    BY DEF Left
  <2>2. CASE d \in Left(B, r, p)
    <3>1. \A k \in 1 .. p - 1 : k \in 1 .. (N + 1) - 1
      BY BitsAssumption
    <3> QED  BY <2>2, <3>1 DEF Left
  <2>3. CASE Agree(d, r, p - 1) /\ d[p] = 0
    <3>1. CASE Agree(d, r, N)
      BY <1>1, <2>1, <3>1, AgreeAll
    <3>2. CASE \E k \in 1 .. N : Agree(d, r, k - 1) /\ d[k] # r[k]
      <4>1. PICK k \in 1 .. N : Agree(d, r, k - 1) /\ d[k] # r[k]
        BY <3>2
      <4>2. k # p /\ ~(k \in 1 .. p - 1)
        BY <1>1, <2>3, <4>1 DEF Agree
      <4>3. k > p
        BY BitsAssumption, <4>2
      <4>4. r[k] = 0 => d[k] = 0
        BY <1>1, <2>1, <4>1, <4>3 DEF Junction
      <4>5. d[k] \in {0, 1} /\ r[k] \in {0, 1}
        BY <1>1, <2>1 DEF Addr
      <4>6. d[k] = 0 /\ r[k] = 1
        BY <4>1, <4>4, <4>5
      <4> QED  BY <1>1, <2>1, <4>1, <4>6 DEF Left
    <3>3. Agree(d, r, N) \/ \E k \in 1 .. N : Agree(d, r, k - 1) /\ d[k] # r[k]
      BY <1>1, <2>1, Zenon DEF Split
    <3> QED  BY <3>1, <3>2, <3>3
  <2> QED  BY <1>2, <2>1, <2>2, <2>3
<1> QED  BY <1>3, <1>4

-----------------------------------------------------------------------------
(***************************************************************************)
(* OneWire.  The invariant relates the three things a call leaves (rom,    *)
(* lastDiscrepancy, lastDevice) to the tree: what has been returned lies to *)
(* the left of rom, and the last discrepancy is the deepest branch to the  *)
(* right of it.                                                            *)
(***************************************************************************)

\* The devices the search that began at target is to return.
InScope(d) == target = NoFamily \/ Family(d) = target

\* What has been returned when bit p comes next: what lies left of the path.
Returned(r, p) == /\ found \subseteq Left(bus, r, p)
                  /\ \A d \in Left(bus, r, p) : InScope(d) => d \in found

\* A call that found nothing leaves the state of a first call.
EndedIsAnew == ended => pos = 0 /\ lastDiscrepancy = 0 /\ lastDevice = FALSE

\* In a call, the devices that answer are those on the path.
OnPath == pos > 0 =>
  /\ \A a \in answering : Agree(a, rom, pos - 1)
  /\ pos = N + 1 => rom \in Devices
  /\ steady => /\ answering # {}
               /\ \A a \in bus : Agree(a, rom, pos - 1) => a \in answering
               /\ Split(bus, rom, pos)
               /\ Junction(bus, rom, lastZero, pos)

\* Before the first device of target_search: the path keeps to the family.
Guided == /\ lastDiscrepancy = N
          /\ \A k \in FAMILY + 1 .. N : k >= pos => rom[k] = 0
          /\ (\E a \in bus : Family(a) = target)
               => \A k \in 1 .. FAMILY : rom[k] = target[k]
          /\ \A d \in Left(bus, rom, pos) : Family(d) # target

\* Before the first device.
First == steady /\ ~ended /\ found = {} =>
  /\ lastDevice = FALSE
  /\ target = NoFamily => lastDiscrepancy = 0
  /\ target # NoFamily => Guided

\* After a device, until the path leaves its address: everything up to it has
\* been returned, and lastDiscrepancy is where the next one leaves it.
Again == steady /\ ~ended /\ found # {} =>
  /\ IF pos = 0 THEN lastDevice = (lastDiscrepancy = 0) ELSE lastDiscrepancy > 0
  /\ pos = 0 \/ pos <= lastDiscrepancy =>
       /\ rom \in bus
       /\ Split(bus, rom, N + 1)
       /\ Junction(bus, rom, lastDiscrepancy, N + 1)
       /\ found \subseteq Left(bus, rom, N + 1) \cup {rom}
       /\ \A d \in Left(bus, rom, N + 1) \cup {rom} : InScope(d) => d \in found

\* Beyond the last discrepancy.
Beyond == steady /\ pos > lastDiscrepancy => Returned(rom, pos)

\* At the end.
Complete == steady /\ ended /\ (\A a \in bus : Family(a) # NoFamily)
              => \A d \in bus : InScope(d) => d \in found

IInv == /\ TypeOK
        /\ Real
        /\ EndedIsAnew
        /\ OnPath
        /\ First
        /\ Again
        /\ Beyond
        /\ Complete

-----------------------------------------------------------------------------
USE SizeAssumption, BitsAssumption

LEMMA Sizes == N \in Nat /\ N > 1 /\ FAMILY \in 1 .. N - 1 /\ NoFamily \in Families
BY DEF NoFamily, Families

LEMMA InitInv == Init => IInv
<1> SUFFICES ASSUME Init PROVE IInv
  OBVIOUS
<1>1. TypeOK
  <2>1. /\ bus \subseteq Devices /\ answering \subseteq bus /\ found \subseteq Addr
        /\ lastDevice \in BOOLEAN /\ ended \in BOOLEAN /\ steady \in BOOLEAN
    BY DEF Init
  <2>2. /\ pos \in 0 .. N + 1 /\ lastZero \in 0 .. N /\ lastDiscrepancy \in 0 .. N
        /\ changes \in 0 .. MaxChanges
    BY Sizes DEF Init
  <2>3. rom \in Addr /\ target \in Families
    BY Sizes DEF Init, Addr
  <2> QED  BY <2>1, <2>2, <2>3 DEF TypeOK
<1>2. Real /\ EndedIsAnew /\ OnPath
  BY DEF Init, Real, EndedIsAnew, OnPath
<1>3. First /\ Again /\ Beyond /\ Complete
  BY DEF Init, First, Again, Beyond, Complete
<1> QED  BY <1>1, <1>2, <1>3 DEF IInv

\* A first call is ahead.
LEMMA AnewInv ==
  ASSUME IInv, NEW f \in Families, Anew(f), bus' = bus, answering' = answering, pos = 0,
         pos' = 0, lastZero' = lastZero, changes' = changes, lastDevice' = FALSE,
         rom' \in Addr,
         \/ f = NoFamily /\ lastDiscrepancy' = 0
         \/ /\ f # NoFamily
            /\ lastDiscrepancy' = N
            /\ rom' = [k \in 1 .. N |-> IF k \in 1 .. FAMILY THEN f[k] ELSE 0]
  PROVE  IInv'
<1>1. TypeOK'
  <2>1. (lastDiscrepancy \in 0 .. N)' /\ (found = {})' /\ (target \in Families)'
    BY Sizes DEF Anew
  <2> QED  BY <2>1 DEF IInv, TypeOK, Anew
<1>2. Real' /\ EndedIsAnew' /\ OnPath' /\ Again' /\ Complete'
  BY DEF Anew, Real, EndedIsAnew, OnPath, Again, Complete
<1>3. Beyond'
  <2>1. ~(pos > lastDiscrepancy)'
    BY Sizes
  <2> QED  BY <2>1 DEF Beyond
<1>4. First'
  <2>1. CASE f = NoFamily
    BY <2>1 DEF Anew, First
  <2>2. CASE f # NoFamily
    <3>1. (\A k \in FAMILY + 1 .. N : rom[k] = 0)' /\ (\A k \in 1 .. FAMILY : rom[k] = target[k])'
      BY <2>2, Sizes DEF Anew
    <3>2. (Left(bus, rom, pos) = {})'
      BY LeftEmpty
    <3>3. Guided'
      BY <2>2, <3>1, <3>2 DEF Guided
    <3> QED  BY <2>2, <3>3 DEF Anew, First
  <2> QED  BY <2>1, <2>2
<1> QED  BY <1>1, <1>2, <1>3, <1>4 DEF IInv

LEMMA ResetSearchInv == IInv /\ ResetSearch => IInv'
<1> SUFFICES ASSUME IInv, ResetSearch PROVE IInv'
  OBVIOUS
<1>1. [k \in 1 .. N |-> 0] \in Addr
  BY DEF Addr
<1> QED  BY <1>1, Sizes, AnewInv DEF ResetSearch

LEMMA TargetSearchInv ==
  ASSUME IInv, NEW f \in Families \ {NoFamily}, TargetSearch(f)
  PROVE  IInv'
<1>1. [k \in 1 .. N |-> IF k \in 1 .. FAMILY THEN f[k] ELSE 0] \in Addr
  BY DEF Addr, Families
<1> QED  BY <1>1, AnewInv DEF TargetSearch

LEMMA NothingTypes ==
  ASSUME TypeOK, Nothing, found' = found,
         UNCHANGED <<bus, rom, lastZero, changes>>, UNCHANGED kept
  PROVE  TypeOK'
<1>1. (answering \subseteq bus)' /\ (lastDevice \in BOOLEAN)' /\ (ended \in BOOLEAN)'
  BY DEF Nothing
<1>2. (pos \in 0 .. N + 1)' /\ (lastDiscrepancy \in 0 .. N)'
  BY Sizes DEF Nothing
<1> QED  BY <1>1, <1>2 DEF TypeOK, kept

\* When the search ends because nothing is left, everything was returned.
LEMMA SearchEndedInv == IInv /\ SearchEnded => IInv'
<1> SUFFICES ASSUME IInv, SearchEnded PROVE IInv'
  OBVIOUS
<1> USE DEF SearchEnded, Nothing, kept
<1>1. TypeOK'
  BY NothingTypes DEF IInv
<1>2. Real' /\ EndedIsAnew' /\ OnPath' /\ First' /\ Again' /\ Beyond'
  BY DEF IInv, Real, EndedIsAnew, OnPath, First, Again, Beyond
<1>3. Complete'
  <2> SUFFICES ASSUME steady, \A a \in bus : Family(a) # NoFamily, NEW d \in bus, InScope(d)
               PROVE  d \in found
    BY DEF Complete, InScope
  <2>1. CASE ended
    BY <2>1 DEF IInv, Complete
  <2>2. CASE ~ended
    <3>1. lastDevice /\ found # {} /\ lastDiscrepancy = 0
      BY <2>2 DEF IInv, First, Again
    <3>2. /\ rom \in bus /\ Split(bus, rom, N + 1) /\ Junction(bus, rom, 0, N + 1)
          /\ \A e \in Left(bus, rom, N + 1) \cup {rom} : InScope(e) => e \in found
      BY <2>2, <3>1 DEF IInv, Again
    <3>3. bus \in SUBSET Addr
      BY DevicesAssumption DEF IInv, TypeOK
    <3>4. Left(bus, rom, N + 1) \cup {rom} = bus
      BY <3>2, <3>3, NothingRight
    <3> QED  BY <3>2, <3>4
  <2> QED  BY <2>1, <2>2
<1> QED  BY <1>1, <1>2, <1>3 DEF IInv

LEMMA SearchBeginsInv == IInv /\ SearchBegins => IInv'
<1> SUFFICES ASSUME IInv, SearchBegins PROVE IInv'
  OBVIOUS
<1> USE DEF SearchBegins
<1>1. /\ ended' = FALSE /\ bus' = bus /\ rom' = rom /\ lastDiscrepancy' = lastDiscrepancy
      /\ \/ /\ ended /\ found' = {} /\ steady' = TRUE /\ target' = NoFamily
            /\ lastDiscrepancy = 0
         \/ ~ended /\ found' = found /\ steady' = steady /\ target' = target
  BY DEF Anew, kept, IInv, TypeOK, EndedIsAnew
<1>2. Left(bus, rom, 0) = {} /\ (Left(bus, rom, 1) = {})
  BY LeftEmpty
<1>3. TypeOK'
  <2>1. (pos \in 0 .. N + 1)' /\ (lastZero \in 0 .. N)'
    BY Sizes
  <2>2. (steady \in BOOLEAN)' /\ (found \subseteq Addr)' /\ (target \in Families)'
    BY <1>1, Sizes DEF IInv, TypeOK
  <2> QED  BY <1>1, <2>1, <2>2 DEF IInv, TypeOK
<1>4. Real'
  BY <1>1 DEF IInv, Real
<1>5. EndedIsAnew' /\ Complete'
  BY <1>1 DEF EndedIsAnew, Complete
<1>6. OnPath'
  <2>1. \A d \in bus : Agree(d, rom, 0)
    BY DEF Agree
  <2>2. Split(bus, rom, 1) /\ Junction(bus, rom, 0, 1)
    BY <2>1 DEF Split, Junction
  <2>3. pos' = 1 /\ lastZero' = 0 /\ 1 # N + 1 /\ 1 - 1 = 0
    BY Sizes
  <2> QED  BY <1>1, <2>1, <2>2, <2>3 DEF OnPath
<1>7. First'
  <2> SUFFICES ASSUME (steady /\ found = {})'
               PROVE  /\ lastDevice' = FALSE
                      /\ target' = NoFamily => lastDiscrepancy' = 0
                      /\ target' # NoFamily => Guided'
    BY DEF First
  <2>1. lastDevice' = FALSE
    BY DEF IInv, TypeOK
  <2>2. target' = NoFamily => lastDiscrepancy' = 0
    BY <1>1 DEF IInv, First
  <2>3. ASSUME target' # NoFamily
        PROVE  Guided'
    <3>1. Guided /\ target' = target
      BY <1>1, <2>3 DEF IInv, First
    <3>2. \A k \in FAMILY + 1 .. N : k >= 1 /\ k >= 0
      BY Sizes
    <3> QED  BY <1>1, <1>2, <3>1, <3>2 DEF Guided
  <2> QED  BY <2>1, <2>2, <2>3
<1>8. Again'
  <2> SUFFICES ASSUME (steady /\ found # {})'
               PROVE  Again'
    BY DEF Again
  <2>1. ~ended /\ steady /\ found # {} /\ found' = found /\ target' = target
    BY <1>1
  <2>2. lastDiscrepancy > 0 /\ lastDiscrepancy \in Nat
    BY <2>1 DEF IInv, TypeOK, Again
  <2> QED  BY <1>1, <2>1, <2>2 DEF IInv, Again, InScope
<1>9. Beyond'
  <2> SUFFICES ASSUME (steady /\ pos > lastDiscrepancy)'
               PROVE  found' = {}
    BY <1>1, <1>2 DEF Beyond, Returned
  <2>1. lastDiscrepancy = 0
    BY <1>1 DEF IInv, TypeOK
  <2> QED  BY <1>1, <2>1 DEF IInv, Again
<1> QED  BY <1>3, <1>4, <1>5, <1>6, <1>7, <1>8, <1>9 DEF IInv

\* On a steady bus somebody always answers.
LEMMA SearchSilentInv == IInv /\ SearchSilent => IInv'
<1> SUFFICES ASSUME IInv, SearchSilent PROVE IInv'
  OBVIOUS
<1> USE DEF SearchSilent, Nothing, kept
<1>1. TypeOK'
  BY NothingTypes DEF IInv
<1>2. ~steady
  BY Sizes DEF IInv, OnPath
<1> QED
  BY <1>1, <1>2 DEF IInv, Real, EndedIsAnew, OnPath, First, Again, Beyond, Complete

LEMMA SearchFoundInv == IInv /\ SearchFound => IInv'
<1> SUFFICES ASSUME IInv, SearchFound PROVE IInv'
  OBVIOUS
<1>1. /\ pos = N + 1 /\ pos > 0 /\ (N + 1) - 1 = N /\ N + 1 # 0
      /\ rom \in Devices /\ ~ended
  BY Sizes DEF SearchFound, IInv, OnPath, TypeOK, EndedIsAnew
<1>2. steady => rom \in bus
  <2> SUFFICES ASSUME steady PROVE rom \in bus
    OBVIOUS
  <2>1. PICK a \in answering : Agree(a, rom, N)
    BY <1>1 DEF IInv, OnPath
  <2>2. a \in bus /\ a \in Addr /\ rom \in Addr
    BY DevicesAssumption DEF IInv, TypeOK
  <2> QED  BY <2>1, <2>2, AgreeAll
<1>3. CASE Family(rom) # NoFamily
  <2>1. /\ lastDiscrepancy' = lastZero /\ lastDevice' = (lastZero = 0)
        /\ found' = found \cup {rom} /\ pos' = 0 /\ answering' = {} /\ ended' = ended
        /\ UNCHANGED <<bus, rom, lastZero, changes, target, steady>>
    BY <1>3 DEF SearchFound, kept
  <2>2. TypeOK'
    <3>1. (pos \in 0 .. N + 1)' /\ (lastDevice \in BOOLEAN)'
      BY <2>1, Sizes
    <3> QED  BY <2>1, <3>1 DEF IInv, TypeOK
  <2>3. Real'
    BY <1>1, <1>2, <2>1 DEF IInv, Real
  <2>4. EndedIsAnew' /\ OnPath' /\ First' /\ Complete'
    BY <1>1, <2>1 DEF EndedIsAnew, OnPath, First, Complete
  <2>5. Beyond'
    BY <2>1 DEF Beyond, IInv, TypeOK
  <2>6. Again'
    <3> SUFFICES ASSUME steady
                 PROVE  /\ rom \in bus
                        /\ Split(bus, rom, N + 1)
                        /\ Junction(bus, rom, lastZero, N + 1)
                        /\ found \subseteq Left(bus, rom, N + 1)
                        /\ \A d \in Left(bus, rom, N + 1) : InScope(d) => d \in found
      BY <2>1 DEF Again, InScope
    <3>1. pos > lastDiscrepancy
      BY <1>1, Sizes DEF IInv, TypeOK
    <3> QED  BY <1>1, <1>2, <3>1 DEF IInv, OnPath, Beyond, Returned
  <2> QED  BY <2>2, <2>3, <2>4, <2>5, <2>6 DEF IInv
<1>4. CASE Family(rom) = NoFamily
  <2>1. Nothing /\ found' = found /\ UNCHANGED <<bus, rom, lastZero, changes>> /\ UNCHANGED kept
    BY <1>4 DEF SearchFound
  <2>2. TypeOK'
    BY <2>1, NothingTypes DEF IInv
  <2>3. Complete'
    BY <1>2, <1>4, <2>1 DEF Complete, kept
  <2>4. Real' /\ EndedIsAnew' /\ OnPath' /\ First' /\ Again' /\ Beyond'
    BY <2>1 DEF Nothing, kept, IInv, Real, EndedIsAnew, OnPath, First, Again, Beyond
  <2> QED  BY <2>2, <2>3, <2>4 DEF IInv
<1> QED  BY <1>3, <1>4

LEMMA ChangeInv == IInv /\ Change => IInv'
<1> SUFFICES ASSUME IInv, Change PROVE IInv'
  OBVIOUS
<1> USE DEF Change
<1>1. TypeOK'
  <2>1. (bus \subseteq Devices)' /\ (answering \subseteq bus)'
    BY DEF IInv, TypeOK
  <2>2. (changes \in 0 .. MaxChanges)'
    BY Sizes DEF IInv, TypeOK
  <2> QED  BY <2>1, <2>2 DEF IInv, TypeOK
<1>2. Real' /\ EndedIsAnew' /\ OnPath' /\ First' /\ Again' /\ Beyond' /\ Complete'
  BY DEF IInv, Real, EndedIsAnew, OnPath, First, Again, Beyond, Complete
<1> QED  BY <1>1, <1>2 DEF IInv

\* The direction is a bit somebody sends, and Pick's where they differ.
LEMMA BitTaken ==
  ASSUME TypeOK, SearchBit
  PROVE  \E dir \in {0, 1} :
           /\ rom' = [rom EXCEPT ![pos] = dir]
           /\ answering' = {a \in answering : a[pos] = dir}
           /\ \E a \in answering : a[pos] = dir
           /\ \A a \in answering : a[pos] # dir => dir = Pick(pos)
           /\ lastZero' = IF dir = 0 /\ \E a \in answering : a[pos] = 1
                          THEN pos ELSE lastZero
<1>1. PICK dir \in Bits(pos) :
        /\ Bits(pos) = {0, 1} => dir = Pick(pos)
        /\ lastZero' = IF Bits(pos) = {0, 1} /\ dir = 0 THEN pos ELSE lastZero
        /\ rom' = [rom EXCEPT ![pos] = dir]
        /\ answering' = {a \in answering : a[pos] = dir}
  BY DEF SearchBit
<1>2. \A a \in answering : a[pos] \in {0, 1} /\ a[pos] \in Bits(pos)
  BY DevicesAssumption DEF TypeOK, SearchBit, Addr, Bits
<1>3. Bits(pos) \subseteq {0, 1}
  BY <1>2 DEF Bits
<1>4. dir \in {0, 1} /\ \E a \in answering : a[pos] = dir
  BY <1>1, <1>3 DEF Bits
<1>5. ASSUME NEW a \in answering, a[pos] # dir
      PROVE  Bits(pos) = {0, 1}
  BY <1>1, <1>2, <1>3, <1>4, <1>5
<1>6. Bits(pos) = {0, 1} => \E a \in answering : a[pos] = 1
  BY DEF Bits
<1>7. Bits(pos) = {0, 1} /\ dir = 0 <=> dir = 0 /\ \E a \in answering : a[pos] = 1
  BY <1>5, <1>6
<1> QED  BY <1>1, <1>4, <1>5, <1>7

LEMMA SearchBitInv == IInv /\ SearchBit => IInv'
<1> SUFFICES ASSUME IInv, SearchBit PROVE IInv'
  OBVIOUS
<1>1. PICK dir \in {0, 1} :
        /\ rom' = [rom EXCEPT ![pos] = dir]
        /\ answering' = {a \in answering : a[pos] = dir}
        /\ \E a \in answering : a[pos] = dir
        /\ \A a \in answering : a[pos] # dir => dir = Pick(pos)
        /\ lastZero' = IF dir = 0 /\ \E a \in answering : a[pos] = 1
                       THEN pos ELSE lastZero
  BY BitTaken DEF IInv
<1>2. /\ pos \in 1 .. N /\ pos \in Int /\ pos' = pos + 1 /\ ~ended
      /\ UNCHANGED <<bus, lastDiscrepancy, lastDevice, found, ended, changes, target, steady>>
  BY Sizes DEF SearchBit, kept, IInv, EndedIsAnew
<1>3. /\ rom \in Addr /\ bus \in SUBSET Addr /\ answering \subseteq bus
      /\ lastDiscrepancy \in 0 .. N
  BY DevicesAssumption DEF IInv, TypeOK
<1>4. /\ rom' \in Addr /\ rom'[pos] = dir
      /\ \A k \in 1 .. N : k # pos => rom'[k] = rom[k]
  BY <1>1, <1>2, <1>3 DEF Addr
<1>5. \A d, k : k \in 1 .. pos => (Agree(d, rom', k - 1) <=> Agree(d, rom, k - 1))
  BY <1>1, <1>2, <1>3, AgreeKept
<1>5a. \A d : Agree(d, rom', pos) <=> Agree(d, rom', pos - 1) /\ d[pos] = rom'[pos]
  BY <1>2, AgreeStep
<1>5b. pos \in 1 .. pos
  BY <1>2
<1>6. \A d : Agree(d, rom', pos) <=> Agree(d, rom, pos - 1) /\ d[pos] = dir
  BY <1>4, <1>5, <1>5a, <1>5b
<1>7. pos \in 1 .. pos /\ (pos + 1) - 1 = pos /\ pos + 1 > 0 /\ pos + 1 \in 1 .. N + 1
  BY <1>2, Sizes
<1>8. \A d \in bus : d \in Left(bus, rom', pos + 1)
         <=> d \in Left(bus, rom, pos) \/ (Agree(d, rom, pos - 1) /\ d[pos] = 0 /\ dir = 1)
  BY <1>1, <1>2, <1>3, LeftStep
<1>9. steady => \A d \in bus : Agree(d, rom, pos - 1) <=> d \in answering
  BY <1>2, <1>3, Sizes DEF IInv, OnPath
<1>10. TypeOK'
  <2>1. (lastZero \in 0 .. N)' /\ (answering \subseteq bus)' /\ (pos \in 0 .. N + 1)'
    BY <1>1, <1>2, <1>7, Sizes DEF IInv, TypeOK
  <2> QED  BY <1>2, <1>4, <2>1 DEF IInv, TypeOK
<1>11. Real' /\ EndedIsAnew' /\ Complete'
  BY <1>2 DEF IInv, Real, EndedIsAnew, Complete
<1>12. OnPath'
  <2>1. \A a \in answering' : Agree(a, rom', pos)
    <3>1. \A a \in answering : Agree(a, rom, pos - 1)
      BY <1>2, Sizes DEF IInv, OnPath
    <3>2. \A a \in answering' : a \in answering /\ a[pos] = dir
      BY <1>1
    <3> QED  BY <1>6, <3>1, <3>2
  <2>2. ASSUME pos + 1 = N + 1
        PROVE  rom' \in Devices
    <3>1. PICK a \in answering : a[pos] = dir
      BY <1>1
    <3>2. a \in answering' /\ pos = N
      BY <1>1, <1>2, <2>2, <3>1, Sizes
    <3>3. a \in Devices /\ a \in Addr
      BY <1>3, DevicesAssumption DEF IInv, TypeOK
    <3> QED  BY <1>4, <2>1, <3>2, <3>3, AgreeAll
  <2>3. ASSUME steady
        PROVE  /\ answering' # {}
               /\ \A a \in bus : Agree(a, rom', pos) => a \in answering'
    BY <1>1, <1>6, <1>9, <2>3
  <2>4. ASSUME steady
        PROVE  Split(bus, rom', pos + 1)
    <3>1. Split(bus, rom, pos)
      BY <1>2, <2>4, Sizes DEF IInv, OnPath
    <3> QED  BY <1>1, <1>2, <1>3, <3>1, SplitStep
  <2>5. ASSUME steady
        PROVE  Junction(bus, rom', lastZero', pos + 1)
    <3>1. Junction(bus, rom, lastZero, pos)
      BY <1>2, <2>5, Sizes DEF IInv, OnPath
    <3>2. (\E a \in answering : a[pos] = 1)
            <=> \E d \in bus : Agree(d, rom, pos - 1) /\ d[pos] = 1
      BY <1>3, <1>9, <2>5
    <3>3. lastZero' = IF dir = 0 /\ \E d \in bus : Agree(d, rom, pos - 1) /\ d[pos] = 1
                      THEN pos ELSE lastZero
      BY <1>1, <3>2
    <3> QED  BY <1>1, <1>2, <1>3, <3>1, <3>3, JunctionStep
  <2> QED  BY <1>2, <1>7, <2>1, <2>2, <2>3, <2>4, <2>5 DEF OnPath
<1>13. First'
  <2> SUFFICES ASSUME steady, found = {}, target # NoFamily
               PROVE  Guided'
    BY <1>2 DEF First, IInv
  <2>1. Guided
    BY <1>2 DEF First, IInv
  <2>2. lastDiscrepancy = N
    BY <2>1 DEF Guided
  <2>3. \A k \in FAMILY + 1 .. N : k >= pos + 1 => rom'[k] = 0
    <3> SUFFICES ASSUME NEW k \in FAMILY + 1 .. N, k >= pos + 1
                 PROVE  rom'[k] = 0
      OBVIOUS
    <3>1. k \in 1 .. N /\ k # pos /\ k >= pos
      BY <1>2, Sizes
    <3> QED  BY <1>4, <2>1, <3>1 DEF Guided
  <2>4. ASSUME NEW a \in bus, Family(a) = target, NEW k \in 1 .. FAMILY
        PROVE  rom'[k] = target[k]
    <3>1. \A j \in 1 .. FAMILY : a[j] = target[j] /\ rom[j] = target[j]
      <4>1. \A j \in 1 .. FAMILY : Family(a)[j] = a[j]
        BY DEF Family
      <4> QED  BY <2>1, <2>4, <4>1 DEF Guided
    <3>2. CASE k # pos
      BY <1>4, <3>1, <3>2, Sizes
    <3>3. CASE k = pos
      <4>1. Agree(a, rom, pos - 1)
        BY <3>1, <3>3, Sizes DEF Agree
      <4>2. a \in answering
        BY <1>9, <4>1
      <4>3. pos < N
        BY <3>3, Sizes
      <4>4. Pick(pos) = rom[pos]
        BY <2>2, <4>3 DEF Pick
      <4> QED  BY <1>1, <1>4, <3>1, <3>3, <4>2, <4>4
    <3> QED  BY <3>2, <3>3
  <2>5. ASSUME NEW d \in Left(bus, rom', pos + 1), Family(d) = target
        PROVE  FALSE
    <3>1. d \in bus
      BY DEF Left
    <3>2. d \notin Left(bus, rom, pos)
      BY <2>1, <2>5 DEF Guided
    <3>3. Agree(d, rom, pos - 1) /\ d[pos] = 0 /\ dir = 1
      BY <1>8, <2>5, <3>1, <3>2
    <3>4. d \in answering /\ dir = Pick(pos)
      BY <1>1, <1>9, <3>1, <3>3
    <3>5. CASE pos \in 1 .. FAMILY
      <4>1. d[pos] = target[pos] /\ rom[pos] = target[pos]
        <5>1. Family(d)[pos] = d[pos]
          BY <3>5 DEF Family
        <5> QED  BY <2>1, <2>5, <3>1, <3>5, <5>1 DEF Guided
      <4>2. Pick(pos) = rom[pos]
        BY <2>2, <3>5, Sizes DEF Pick
      <4> QED  BY <3>3, <3>4, <4>1, <4>2
    <3>6. CASE pos \in FAMILY + 1 .. N - 1
      <4>1. rom[pos] = 0
        <5>1. pos \in FAMILY + 1 .. N /\ pos >= pos
          BY <3>6, Sizes
        <5> QED  BY <2>1, <5>1 DEF Guided
      <4>2. Pick(pos) = rom[pos]
        BY <2>2, <3>6, Sizes DEF Pick
      <4> QED  BY <3>3, <3>4, <4>1, <4>2
    <3>7. CASE pos = N
      <4>1. PICK e \in answering : e[pos] = 1
        BY <1>1, <3>3
      <4>2. Agree(e, rom, N - 1) /\ Agree(d, rom, N - 1)
        BY <1>3, <1>9, <3>3, <3>7, <4>1
      <4>3. Agree(d, e, N - 1)
        BY <4>2 DEF Agree
      <4>4. d \in Devices /\ e \in Devices
        BY <1>3, <3>1 DEF IInv, TypeOK
      <4> QED  BY <3>3, <4>1, <4>3, <4>4, DevicesAssumption
    <3> QED  BY <1>2, <3>5, <3>6, <3>7, Sizes
  <2> QED  BY <1>2, <2>2, <2>3, <2>4, <2>5 DEF Guided
<1>14. Again'
  <2> SUFFICES ASSUME steady, found # {}
               PROVE  Again'
    BY <1>2 DEF Again
  <2>1. lastDiscrepancy > 0
    BY <1>2, Sizes DEF IInv, Again
  <2>2. CASE pos < lastDiscrepancy
    <3>1. rom \in bus /\ rom \in answering
      <4>1. rom \in bus
        BY <1>2, <1>3, <2>2 DEF IInv, Again
      <4>2. Agree(rom, rom, pos - 1)
        BY DEF Agree
      <4> QED  BY <1>9, <4>1, <4>2
    <3>2. rom' = rom
      <4>1. Pick(pos) = rom[pos]
        BY <2>2 DEF Pick
      <4>2. dir = rom[pos]
        BY <1>1, <3>1, <4>1
      <4> QED  BY <1>1, <1>3, <4>2 DEF Addr
    <3>3. pos <= lastDiscrepancy /\ pos + 1 # 0
      BY <1>2, <1>3, <2>2
    <3> QED  BY <1>2, <2>1, <3>2, <3>3 DEF IInv, Again, InScope
  <2>3. CASE pos >= lastDiscrepancy
    <3>1. ~(pos + 1 <= lastDiscrepancy) /\ pos + 1 # 0
      BY <1>2, <1>3, <2>3
    <3> QED  BY <1>2, <2>1, <3>1 DEF Again
  <2> QED  BY <1>2, <1>3, <2>2, <2>3
<1>15. Beyond'
  <2> SUFFICES ASSUME steady, pos + 1 > lastDiscrepancy
               PROVE  /\ found \subseteq Left(bus, rom', pos + 1)
                      /\ \A d \in Left(bus, rom', pos + 1) : InScope(d) => d \in found
    BY <1>2 DEF Beyond, Returned, InScope
  <2>1. CASE pos > lastDiscrepancy
    <3>1. Pick(pos) = 0
      BY <1>2, <1>3, <2>1 DEF Pick
    <3>2. \A d \in bus : Agree(d, rom, pos - 1) /\ d[pos] = 0 => dir = 0
      BY <1>1, <1>9, <3>1
    <3>3. \A d \in bus : d \in Left(bus, rom', pos + 1) <=> d \in Left(bus, rom, pos)
      BY <1>8, <3>2
    <3> QED  BY <2>1, <3>3 DEF IInv, Beyond, Returned, Left
  <2>2. CASE pos = lastDiscrepancy /\ found # {}
    <3>1. /\ rom \in bus /\ Split(bus, rom, N + 1) /\ Junction(bus, rom, pos, N + 1)
          /\ found \subseteq Left(bus, rom, N + 1) \cup {rom}
          /\ \A d \in Left(bus, rom, N + 1) \cup {rom} : InScope(d) => d \in found
      BY <1>2, <1>3, <2>2 DEF IInv, Again
    <3>2. PICK t \in bus : rom[pos] = 0 /\ Agree(t, rom, pos - 1) /\ t[pos] = 1
      BY <1>2, <3>1 DEF Junction
    <3>3. dir = 1
      <4>1. t \in answering
        BY <1>9, <3>2
      <4>2. Pick(pos) = 1
        BY <1>2, <1>3, <2>2 DEF Pick
      <4> QED  BY <1>1, <3>2, <4>1, <4>2
    <3>4. Left(bus, rom', pos + 1) = Left(bus, rom, N + 1) \cup {rom}
      BY <1>1, <1>2, <1>3, <3>1, <3>3, TurnRight
    <3> QED  BY <3>1, <3>4
  <2>3. CASE pos = lastDiscrepancy /\ found = {}
    <3>1. target # NoFamily /\ pos = N
      BY <1>2, <2>3, Sizes DEF IInv, First, Guided
    <3>2. Guided'
      BY <1>2, <1>13, <2>3, <3>1 DEF First
    <3>3. \A d \in Left(bus, rom', pos + 1) : Family(d) # target
      BY <1>2, <3>2 DEF Guided
    <3> QED  BY <2>3, <3>1, <3>3 DEF InScope
  <2> QED  BY <1>2, <1>3, <2>1, <2>2, <2>3
<1> QED  BY <1>10, <1>11, <1>12, <1>13, <1>14, <1>15 DEF IInv

LEMMA NextInv == IInv /\ [Next]_vars => IInv'
<1> SUFFICES ASSUME IInv, [Next]_vars PROVE IInv'
  OBVIOUS
<1>1. CASE ResetSearch
  BY <1>1, ResetSearchInv
<1>2. ASSUME NEW f \in Families \ {NoFamily}, TargetSearch(f) PROVE IInv'
  BY <1>2, TargetSearchInv
<1>3. CASE SearchEnded
  BY <1>3, SearchEndedInv
<1>4. CASE SearchBegins
  BY <1>4, SearchBeginsInv
<1>5. CASE SearchBit
  BY <1>5, SearchBitInv
<1>6. CASE SearchSilent
  BY <1>6, SearchSilentInv
<1>7. CASE SearchFound
  BY <1>7, SearchFoundInv
<1>8. CASE Change
  BY <1>8, ChangeInv
<1>9. CASE UNCHANGED vars
  BY <1>9 DEF vars, IInv, TypeOK, Real, EndedIsAnew, OnPath, First, Guided, Again, Beyond,
              Returned, Complete, InScope
<1> QED
  BY <1>1, <1>2, <1>3, <1>4, <1>5, <1>6, <1>7, <1>8, <1>9 DEF Next, Restart, Search

THEOREM Invariant == Spec => []IInv
BY InitInv, NextInv, PTL DEF Spec

-----------------------------------------------------------------------------
\* Types.
THEOREM TypeCorrect == Spec => []TypeOK
BY Invariant, PTL DEF IInv

\* What search returns is the address of a device.
THEOREM RealHolds == Spec => []Real
BY Invariant, PTL DEF IInv

\* No device is returned twice: what was returned lies left of the path.
THEOREM OnceHolds == Spec => []Once
<1>1. IInv => Once
  <2> SUFFICES ASSUME IInv, steady, pos = N + 1 PROVE rom \notin found
    BY DEF Once
  <2>1. pos > lastDiscrepancy
    BY Sizes DEF IInv, TypeOK
  <2>2. found \subseteq Left(bus, rom, pos)
    BY <2>1 DEF IInv, Beyond, Returned
  <2> QED  BY <2>2 DEF Left
<1> QED  BY <1>1, Invariant, PTL

\* The search ends only when every device has been returned.
THEOREM FindsAllHolds == Spec => []FindsAll
<1>1. IInv => FindsAll
  <2> SUFFICES ASSUME IInv, steady, ended, target = NoFamily,
                      \A a \in bus : Family(a) # NoFamily
               PROVE  found = bus
    BY DEF FindsAll
  <2>1. bus \subseteq found
    BY DEF IInv, Complete, InScope
  <2> QED  BY <2>1 DEF IInv, Real
<1> QED  BY <1>1, Invariant, PTL

\* target_search leads to the devices of its family.
THEOREM FindsFamilyHolds == Spec => []FindsFamily
<1>1. IInv => FindsFamily
  <2> SUFFICES ASSUME IInv, steady, target # NoFamily
               PROVE  FindsFamily
    BY DEF FindsFamily
  <2>1. ASSUME pos = N + 1, found = {}, \E a \in bus : Family(a) = target
        PROVE  Family(rom) = target
    <3>1. ~ended
      BY <2>1, Sizes DEF IInv, EndedIsAnew
    <3>2. \A k \in 1 .. FAMILY : rom[k] = target[k]
      BY <2>1, <3>1 DEF IInv, First, Guided
    <3> QED  BY <3>2, Sizes DEF Family, IInv, TypeOK, Families
  <2>2. ASSUME ended, \A a \in bus : Family(a) # NoFamily
        PROVE  {a \in bus : Family(a) = target} \subseteq found
    BY <2>2 DEF IInv, Complete, InScope
  <2> QED  BY <2>1, <2>2 DEF FindsFamily
<1> QED  BY <1>1, Invariant, PTL

-----------------------------------------------------------------------------
(***************************************************************************)
(* The alarm search, while the devices in alarm stay the same.  As in the  *)
(* search of OneWire, what has been returned lies to the left of the path; *)
(* but the place of the next branch is one variable, junction, that a call *)
(* overwrites on its way, with lastJunction keeping the branch that is to  *)
(* come after it.                                                          *)
(***************************************************************************)
HIDE SizeAssumption

\* The branch to come back to: lastJunction before the path turns at the
\* junction, the junction itself after.
Pending == IF bit <= junction THEN lastJunction ELSE junction

\* In a call, the devices that answer are those on the path.
AlarmOnPath == bit > 0 =>
  /\ \A a \in responding : Agree(a, address, bit - 1)
  /\ bit = N + 1 => address \in Sensors
  /\ still => /\ responding \subseteq alarmed
              /\ responding = {} => alarmed = {} /\ bit = 1
              /\ \A a \in alarmed : Agree(a, address, bit - 1) => a \in responding
              /\ Split(alarmed, address, bit)
              /\ Junction(alarmed, address, Pending, bit)
              /\ done <=> Pending = 0

\* Before the first device.
AlarmFirst == still /\ listed = {} => ~exhausted /\ (junction = 0 \/ bit > junction)

\* After a device, until the path leaves its address: everything up to it has
\* been returned, and the junction is where the next one leaves it.
AlarmAgain == still /\ listed # {} =>
  /\ exhausted <=> bit = 0 /\ junction = 0
  /\ bit = 0 \/ bit <= junction =>
       /\ address \in alarmed
       /\ Split(alarmed, address, N + 1)
       /\ Junction(alarmed, address, junction, N + 1)
       /\ listed = Left(alarmed, address, N + 1) \cup {address}

\* Beyond the junction, what has been returned lies left of the path.
AlarmBeyond == still /\ bit > junction => listed = Left(alarmed, address, bit)

AlarmIInv == /\ AlarmTypeOK
             /\ AlarmOnPath
             /\ AlarmFirst
             /\ AlarmAgain
             /\ AlarmBeyond
             /\ still /\ over => listed = alarmed
             /\ listed \subseteq Sensors

-----------------------------------------------------------------------------
USE BitsAssumption

LEMMA AlarmInitInv == AlarmInit => AlarmIInv
<1> SUFFICES ASSUME AlarmInit PROVE AlarmIInv
  OBVIOUS
<1>1. AlarmTypeOK
  <2>1. address \in Addr
    BY DEF AlarmInit, Addr
  <2>2. bit \in 0 .. N + 1 /\ junction \in 0 .. N /\ lastJunction \in 0 .. N
    BY DEF AlarmInit
  <2>3. swings \in 0 .. MaxSwings
    BY AlarmSizeAssumption DEF AlarmInit
  <2> QED  BY <2>1, <2>2, <2>3 DEF AlarmInit, AlarmTypeOK
<1>2. AlarmOnPath /\ AlarmFirst /\ AlarmAgain /\ AlarmBeyond /\ ~over /\ listed \subseteq Sensors
  BY DEF AlarmInit, AlarmOnPath, AlarmFirst, AlarmAgain, AlarmBeyond
<1> QED  BY <1>1, <1>2 DEF AlarmIInv

LEMMA ResetAlarmSearchInv == AlarmIInv /\ ResetAlarmSearch => AlarmIInv'
<1> SUFFICES ASSUME AlarmIInv, ResetAlarmSearch PROVE AlarmIInv'
  OBVIOUS
<1> USE DEF ResetAlarmSearch, alarms, call
<1>1. AlarmTypeOK'
  <2>1. address' \in Addr
    BY DEF AlarmIInv, AlarmTypeOK, Addr
  <2>2. junction' \in 0 .. N
    OBVIOUS
  <2> QED  BY <2>1, <2>2 DEF AlarmIInv, AlarmTypeOK
<1>2. AlarmOnPath' /\ AlarmFirst' /\ AlarmAgain' /\ AlarmBeyond'
  BY DEF AlarmOnPath, AlarmFirst, AlarmAgain, AlarmBeyond
<1> QED  BY <1>1, <1>2 DEF AlarmIInv

\* When the search is exhausted there is nothing to the right of the last path.
LEMMA AlarmExhaustedInv == AlarmIInv /\ AlarmExhausted => AlarmIInv'
<1> SUFFICES ASSUME AlarmIInv, AlarmExhausted PROVE AlarmIInv'
  OBVIOUS
<1> USE DEF AlarmExhausted, Fails, alarms, call
<1>1. /\ AlarmTypeOK' /\ AlarmOnPath' /\ AlarmFirst' /\ AlarmAgain' /\ AlarmBeyond'
      /\ (listed \subseteq Sensors)'
  BY DEF AlarmIInv, AlarmTypeOK, AlarmOnPath, Pending, AlarmFirst, AlarmAgain, AlarmBeyond
<1>2. ASSUME still
      PROVE  listed = alarmed
  <2>1. /\ address \in alarmed
        /\ Split(alarmed, address, N + 1) /\ Junction(alarmed, address, 0, N + 1)
        /\ listed = Left(alarmed, address, N + 1) \cup {address}
    BY <1>2 DEF AlarmIInv, AlarmFirst, AlarmAgain
  <2>2. alarmed \in SUBSET Addr
    BY SensorsAssumption DEF AlarmIInv, AlarmTypeOK
  <2> QED  BY <2>1, <2>2, NothingRight
<1> QED  BY <1>1, <1>2 DEF AlarmIInv

LEMMA AlarmBeginsInv == AlarmIInv /\ AlarmBegins => AlarmIInv'
<1> SUFFICES ASSUME AlarmIInv, AlarmBegins PROVE AlarmIInv'
  OBVIOUS
<1> USE DEF AlarmBegins, alarms
<1>1. AlarmTypeOK'
  <2>1. (bit \in 0 .. N + 1)' /\ (lastJunction \in 0 .. N)'
    OBVIOUS
  <2> QED  BY <2>1 DEF AlarmIInv, AlarmTypeOK
<1>2. junction \in 0 .. N /\ junction' = junction /\ Pending' = 0
  <2>1. junction \in 0 .. N
    BY DEF AlarmIInv, AlarmTypeOK
  <2> QED  BY <2>1 DEF Pending
<1>3. AlarmOnPath'
  <2>1. \A d \in alarmed : Agree(d, address, 0)
    BY DEF Agree
  <2>2. Split(alarmed, address, 1) /\ Junction(alarmed, address, 0, 1)
    BY <2>1 DEF Split, Junction
  <2>3. bit' = 1 /\ 1 # N + 1 /\ 1 - 1 = 0
    OBVIOUS
  <2> QED  BY <1>2, <2>1, <2>2, <2>3 DEF AlarmOnPath
<1>4. AlarmFirst'
  BY <1>2 DEF AlarmIInv, AlarmFirst
<1>5. AlarmAgain' /\ AlarmBeyond'
  <2>1. Left(alarmed, address, 1) = {}
    BY DEF Left
  <2>2. CASE junction = 0
    BY <1>2, <2>1, <2>2 DEF AlarmIInv, AlarmAgain, AlarmBeyond
  <2>3. CASE junction > 0
    BY <1>2, <2>3 DEF AlarmIInv, AlarmAgain, AlarmBeyond
  <2> QED  BY <1>2, <2>2, <2>3
<1> QED  BY <1>1, <1>3, <1>4, <1>5 DEF AlarmIInv

\* While the alarms stay, somebody always answers unless there is no alarm.
LEMMA AlarmSilentInv == AlarmIInv /\ AlarmSilent => AlarmIInv'
<1> SUFFICES ASSUME AlarmIInv, AlarmSilent PROVE AlarmIInv'
  OBVIOUS
<1> USE DEF AlarmSilent, Fails, alarms
<1>1. AlarmTypeOK'
  <2>1. (bit \in 0 .. N + 1)'
    OBVIOUS
  <2> QED  BY <2>1 DEF AlarmIInv, AlarmTypeOK
<1>2. AlarmOnPath'
  BY DEF AlarmOnPath
<1>3. ASSUME still
      PROVE  alarmed = {} /\ listed = {} /\ junction = 0
  <2>1. alarmed = {} /\ Junction(alarmed, address, Pending, bit) /\ bit > 0
    BY <1>3 DEF AlarmIInv, AlarmOnPath
  <2>2. listed = {}
    <3>1. CASE bit <= junction
      BY <1>3, <2>1, <3>1 DEF AlarmIInv, AlarmAgain
    <3>2. CASE bit > junction
      BY <1>3, <2>1, <3>2 DEF AlarmIInv, AlarmBeyond, Left
    <3> QED  BY <3>1, <3>2 DEF AlarmIInv, AlarmTypeOK
  <2>3. junction = 0
    <3>1. bit > junction \/ junction = 0
      BY <1>3, <2>2 DEF AlarmIInv, AlarmFirst
    <3> QED  BY <2>1, <3>1 DEF Pending, Junction, AlarmIInv, AlarmTypeOK
  <2> QED  BY <2>1, <2>2, <2>3
<1>4. AlarmFirst' /\ AlarmAgain' /\ AlarmBeyond' /\ (still /\ over => listed = alarmed)'
  BY <1>3 DEF AlarmIInv, AlarmFirst, AlarmAgain, AlarmBeyond
<1> QED  BY <1>1, <1>2, <1>4 DEF AlarmIInv

LEMMA AlarmFoundInv == AlarmIInv /\ AlarmFound => AlarmIInv'
<1> SUFFICES ASSUME AlarmIInv, AlarmFound PROVE AlarmIInv'
  OBVIOUS
<1> USE DEF AlarmFound, alarms
<1>1. /\ bit = N + 1 /\ bit > 0 /\ bit # 1 /\ (N + 1) - 1 = N
      /\ junction \in 0 .. N /\ bit > junction
  BY DEF AlarmIInv, AlarmTypeOK
<1>2. address \in Sensors /\ address \in Addr
  BY <1>1 DEF AlarmIInv, AlarmOnPath, AlarmTypeOK
<1>3. AlarmTypeOK'
  <2>1. (bit \in 0 .. N + 1)' /\ (exhausted \in BOOLEAN)'
    BY DEF AlarmIInv, AlarmTypeOK
  <2> QED  BY <1>2, <2>1 DEF AlarmIInv, AlarmTypeOK
<1>4. AlarmOnPath' /\ AlarmFirst' /\ AlarmBeyond'
  BY <1>1 DEF AlarmOnPath, AlarmFirst, AlarmBeyond
<1>5. AlarmAgain'
  <2> SUFFICES ASSUME still
               PROVE  AlarmAgain'
    BY DEF AlarmAgain
  <2>1. ~exhausted
    BY <1>1 DEF AlarmIInv, AlarmFirst, AlarmAgain
  <2>2. /\ Split(alarmed, address, N + 1)
        /\ Junction(alarmed, address, junction, N + 1)
        /\ done <=> junction = 0
    BY <1>1 DEF AlarmIInv, AlarmOnPath, Pending
  <2>3. address \in alarmed
    <3>1. PICK a \in responding : Agree(a, address, N)
      BY <1>1 DEF AlarmIInv, AlarmOnPath
    <3>2. a \in alarmed /\ a \in Addr
      BY <1>1, SensorsAssumption DEF AlarmIInv, AlarmOnPath, AlarmTypeOK
    <3> QED  BY <1>2, <3>1, <3>2, AgreeAll
  <2>4. listed = Left(alarmed, address, N + 1)
    BY <1>1 DEF AlarmIInv, AlarmBeyond
  <2>5. /\ exhausted' = (exhausted \/ done) /\ bit' = 0 /\ junction' = junction
        /\ listed' = listed \cup {address} /\ address' = address /\ alarmed' = alarmed
    OBVIOUS
  <2> HIDE DEF AlarmFound, alarms
  <2>6. exhausted' <=> junction = 0
    <3>1. (exhausted \/ done) <=> junction = 0
      BY <2>1, <2>2, Zenon
    <3> QED  BY <2>5, <3>1, Zenon
  <2>7. (exhausted <=> bit = 0 /\ junction = 0)'
    BY <2>5, <2>6
  <2>8. (/\ address \in alarmed
         /\ Split(alarmed, address, N + 1)
         /\ Junction(alarmed, address, junction, N + 1)
         /\ listed = Left(alarmed, address, N + 1) \cup {address})'
    BY <2>2, <2>3, <2>4, <2>5
  <2> QED  BY <2>7, <2>8, Zenon DEF AlarmAgain
<1> QED  BY <1>2, <1>3, <1>4, <1>5 DEF AlarmIInv

LEMMA AlarmChangeInv == AlarmIInv /\ AlarmChange => AlarmIInv'
<1> SUFFICES ASSUME AlarmIInv, AlarmChange PROVE AlarmIInv'
  OBVIOUS
<1> USE DEF AlarmChange
<1>1. responding' \subseteq responding /\ (alarmed \subseteq Sensors)'
  BY DEF AlarmIInv, AlarmTypeOK
<1>2. AlarmTypeOK'
  <2>1. (swings \in 0 .. MaxSwings)'
    BY AlarmSizeAssumption DEF AlarmIInv, AlarmTypeOK
  <2> QED  BY <1>1, <2>1 DEF AlarmIInv, AlarmTypeOK
<1>3. AlarmOnPath'
  BY <1>1 DEF AlarmIInv, AlarmOnPath
<1>4. AlarmFirst' /\ AlarmAgain' /\ AlarmBeyond'
  BY DEF AlarmFirst, AlarmAgain, AlarmBeyond
<1> QED  BY <1>2, <1>3, <1>4 DEF AlarmIInv

\* What a bit where the devices differ does to the place of the next branch.
LEMMA AtJunctionMoves ==
  ASSUME NEW i, NEW a, AtJunction(i, a)
  PROVE  \/ i = junction /\ a = 1 /\ junction' = lastJunction /\ lastJunction' = lastJunction
         \/ /\ i < junction /\ a = address[i] /\ junction' = junction
            /\ lastJunction' = IF a = 0 THEN i ELSE lastJunction
         \/ i > junction /\ a = 0 /\ junction' = i /\ lastJunction' = lastJunction
BY DEF AtJunction

\* A branch left for later means that the search is not done.
LEMMA AtJunctionDone ==
  ASSUME NEW i, NEW a, done \in BOOLEAN, AtJunction(i, a)
  PROVE  done' \in BOOLEAN /\ (done' <=> done /\ a = 1)
<1>1. CASE i = junction /\ a = 1 /\ done' = done
  BY <1>1
<1>2. CASE done' = (done /\ a = 1)
  BY <1>2
<1>3. CASE a = 0 /\ done' = FALSE
  <2>1. a # 1
    BY <1>3
  <2> QED  BY <1>3, <2>1, Zenon
<1> QED  BY <1>1, <1>2, <1>3, Zenon DEF AtJunction

\* The bit of the path is one that somebody sends; where both are sent the
\* junction decides.
LEMMA AlarmBitTaken ==
  ASSUME AlarmTypeOK, AlarmBit
  PROVE  \E a \in {0, 1} :
           /\ address' = [address EXCEPT ![bit] = a]
           /\ responding' = {d \in responding : d[bit] = a}
           /\ \E d \in responding : d[bit] = a
           /\ \/ /\ \E d \in responding : d[bit] = 0
                 /\ \E d \in responding : d[bit] = 1
                 /\ AtJunction(bit, a)
              \/ /\ \A d \in responding : d[bit] = a
                 /\ UNCHANGED <<junction, lastJunction, done>>
<1>1. PICK a \in AlarmBits(bit) :
        /\ \/ AlarmBits(bit) = {0, 1} /\ AtJunction(bit, a)
           \/ AlarmBits(bit) # {0, 1} /\ UNCHANGED <<junction, lastJunction, done>>
        /\ address' = [address EXCEPT ![bit] = a]
        /\ responding' = {d \in responding : d[bit] = a}
  BY DEF AlarmBit
<1>2. \A d \in responding : d[bit] \in {0, 1} /\ d[bit] \in AlarmBits(bit)
  BY SensorsAssumption DEF AlarmTypeOK, AlarmBit, Addr, AlarmBits
<1>3. a \in {0, 1} /\ \E d \in responding : d[bit] = a
  BY <1>1, <1>2 DEF AlarmBits
<1>4. CASE AlarmBits(bit) = {0, 1}
  <2>1. (\E d \in responding : d[bit] = 0) /\ (\E d \in responding : d[bit] = 1)
    BY <1>4 DEF AlarmBits
  <2> QED  BY <1>1, <1>3, <1>4, <2>1
<1>5. CASE AlarmBits(bit) # {0, 1}
  <2>1. \A d \in responding : d[bit] = a
    <3>1. AlarmBits(bit) \subseteq {0, 1}
      BY <1>2 DEF AlarmBits
    <3> QED  BY <1>1, <1>2, <1>5, <3>1
  <2> QED  BY <1>1, <1>3, <1>5, <2>1
<1> QED  BY <1>4, <1>5

LEMMA AlarmBitInv == AlarmIInv /\ AlarmBit => AlarmIInv'
<1> SUFFICES ASSUME AlarmIInv, AlarmBit PROVE AlarmIInv'
  OBVIOUS
<1>1. PICK a \in {0, 1} :
        /\ address' = [address EXCEPT ![bit] = a]
        /\ responding' = {d \in responding : d[bit] = a}
        /\ \E d \in responding : d[bit] = a
        /\ \/ /\ \E d \in responding : d[bit] = 0
              /\ \E d \in responding : d[bit] = 1
              /\ AtJunction(bit, a)
           \/ /\ \A d \in responding : d[bit] = a
              /\ UNCHANGED <<junction, lastJunction, done>>
  BY AlarmBitTaken DEF AlarmIInv
<1>2. /\ bit \in 1 .. N /\ bit \in Int /\ bit > 0 /\ bit' = bit + 1
      /\ UNCHANGED <<alarmed, swings, exhausted, listed, over, still>>
  BY DEF AlarmBit, alarms
<1>3. /\ address \in Addr /\ alarmed \in SUBSET Addr /\ responding \in SUBSET Sensors
      /\ responding \in SUBSET Addr /\ junction \in 0 .. N /\ lastJunction \in 0 .. N
  BY SensorsAssumption DEF AlarmIInv, AlarmTypeOK
<1>4. /\ address' \in Addr /\ address'[bit] = a
      /\ \A k \in 1 .. N : k # bit => address'[k] = address[k]
  BY <1>1, <1>2, <1>3 DEF Addr
<1>5. /\ bit \in 1 .. bit /\ (bit + 1) - 1 = bit /\ bit + 1 > 0 /\ bit + 1 # 1
      /\ bit + 1 \in 0 .. N + 1
  BY <1>2
<1>6. \A d : Agree(d, address', bit) <=> Agree(d, address, bit - 1) /\ d[bit] = a
  <2>1. \A d : Agree(d, address', bit - 1) <=> Agree(d, address, bit - 1)
    BY <1>1, <1>2, <1>3, <1>5, AgreeKept
  <2>2. \A d : Agree(d, address', bit) <=> Agree(d, address', bit - 1) /\ d[bit] = address'[bit]
    BY <1>2, AgreeStep
  <2> QED  BY <1>4, <2>1, <2>2
<1>7. AlarmTypeOK'
  <2>1. junction' \in 0 .. N /\ lastJunction' \in 0 .. N
    <3>1. CASE AtJunction(bit, a)
      BY <1>2, <1>3, <3>1, AtJunctionMoves
    <3>2. CASE UNCHANGED <<junction, lastJunction, done>>
      BY <1>3, <3>2
    <3> QED  BY <1>1, <3>1, <3>2
  <2>2. done' \in BOOLEAN
    <3>1. done \in BOOLEAN
      BY DEF AlarmIInv, AlarmTypeOK
    <3>2. CASE AtJunction(bit, a)
      BY <3>1, <3>2, AtJunctionDone
    <3>3. CASE UNCHANGED <<junction, lastJunction, done>>
      BY <3>1, <3>3
    <3> QED  BY <1>1, <3>2, <3>3
  <2> QED  BY <1>1, <1>2, <1>3, <1>4, <1>5, <2>1, <2>2 DEF AlarmIInv, AlarmTypeOK
<1>8. still => /\ Split(alarmed, address, bit)
               /\ Junction(alarmed, address, Pending, bit)
               /\ done <=> Pending = 0
               /\ \A d \in alarmed : Agree(d, address, bit - 1) <=> d \in responding
               /\ ~exhausted
  BY <1>2 DEF AlarmIInv, AlarmOnPath, AlarmFirst, AlarmAgain
\* At the junction devices answer on both sides.
<1>9. ASSUME still, bit <= junction
      PROVE  /\ listed # {} /\ address \in responding
             /\ Split(alarmed, address, N + 1) /\ Junction(alarmed, address, junction, N + 1)
             /\ listed = Left(alarmed, address, N + 1) \cup {address}
             /\ bit = junction => /\ address[bit] = 0
                                 /\ \E d \in responding : d[bit] = 1
  <2>1. listed # {}
    BY <1>2, <1>3, <1>9 DEF AlarmIInv, AlarmFirst
  <2>2. /\ address \in alarmed
        /\ Split(alarmed, address, N + 1) /\ Junction(alarmed, address, junction, N + 1)
        /\ listed = Left(alarmed, address, N + 1) \cup {address}
    BY <1>9, <2>1 DEF AlarmIInv, AlarmAgain
  <2>3. address \in responding
    <3>1. Agree(address, address, bit - 1)
      BY DEF Agree
    <3> QED  BY <1>8, <1>9, <2>2, <3>1
  <2>4. ASSUME bit = junction
        PROVE  address[bit] = 0 /\ \E d \in responding : d[bit] = 1
    <3>1. address[bit] = 0 /\ \E d \in alarmed : Agree(d, address, bit - 1) /\ d[bit] = 1
      BY <1>2, <2>2, <2>4 DEF Junction
    <3> QED  BY <1>8, <1>9, <3>1
  <2> QED  BY <2>1, <2>2, <2>3, <2>4
\* The four ways a bit goes.
<1> DEFINE branch == a = 0 /\ \E d \in responding : d[bit] = 1
<1>10. ASSUME still
       PROVE  \/ /\ bit = junction /\ a = 1
                 /\ junction' = lastJunction /\ lastJunction' = lastJunction
              \/ /\ bit < junction /\ a = address[bit] /\ junction' = junction
                 /\ lastJunction' = IF branch THEN bit ELSE lastJunction
              \/ bit > junction /\ branch /\ junction' = bit
              \/ /\ bit > junction /\ junction' = junction
                 /\ \A d \in responding : d[bit] = a
  <2>1. CASE (\E d \in responding : d[bit] = 1) /\ AtJunction(bit, a)
    BY <2>1, AtJunctionMoves
  <2>2. CASE /\ \A d \in responding : d[bit] = a
             /\ junction' = junction /\ lastJunction' = lastJunction
    <3>1. bit # junction
      BY <1>2, <1>9, <1>10, <2>2
    <3>2. CASE bit < junction
      <4>1. a = address[bit]
        BY <1>2, <1>3, <1>9, <1>10, <2>2, <3>2
      <4>2. ~branch
        BY <2>2
      <4> QED  BY <2>2, <3>2, <4>1, <4>2
    <3>3. CASE bit > junction
      BY <2>2, <3>3
    <3> QED  BY <1>2, <1>3, <3>1, <3>2, <3>3
  <2> QED  BY <1>1, <2>1, <2>2
<1>11. /\ still => Pending' = IF branch THEN bit ELSE Pending
       /\ done' <=> done /\ ~branch
  <2>1. ASSUME still
        PROVE  Pending' = IF branch THEN bit ELSE Pending
    <3>1. Pending \in 0 .. bit - 1
      BY <1>8, <2>1 DEF Junction
    <3> HIDE DEF branch
    <3>2. Pending' = IF bit + 1 <= junction' THEN lastJunction' ELSE junction'
      BY <1>2 DEF Pending
    <3>3. CASE bit = junction /\ a = 1 /\ junction' = lastJunction /\ lastJunction' = lastJunction
      <4>1. ~branch
        BY <3>3 DEF branch
      <4> QED  BY <1>2, <1>3, <3>1, <3>2, <3>3, <4>1 DEF Pending
    <3>4. CASE /\ bit < junction /\ junction' = junction
               /\ lastJunction' = IF branch THEN bit ELSE lastJunction
      BY <1>2, <1>3, <3>2, <3>4 DEF Pending
    <3>5. CASE bit > junction /\ branch /\ junction' = bit
      BY <1>2, <1>3, <3>2, <3>5 DEF Pending
    <3>6. CASE bit > junction /\ junction' = junction /\ \A d \in responding : d[bit] = a
      <4>1. ~branch
        BY <3>6 DEF branch
      <4> QED  BY <1>2, <1>3, <3>2, <3>6, <4>1 DEF Pending
    <3> QED  BY <1>10, <2>1, <3>3, <3>4, <3>5, <3>6
  <2>2. done' <=> done /\ ~branch
    <3>1. done \in BOOLEAN
      BY DEF AlarmIInv, AlarmTypeOK
    <3>2. CASE (\E d \in responding : d[bit] = 1) /\ AtJunction(bit, a)
      BY <3>1, <3>2, AtJunctionDone
    <3>3. CASE (\A d \in responding : d[bit] = a) /\ done' = done
      BY <3>1, <3>3
    <3> QED  BY <1>1, <3>2, <3>3
  <2> QED  BY <2>1, <2>2
<1>12. AlarmOnPath'
  <2>1. \A d \in responding' : Agree(d, address', bit)
    <3>1. \A d \in responding : Agree(d, address, bit - 1)
      BY <1>2 DEF AlarmIInv, AlarmOnPath
    <3> QED  BY <1>1, <1>6, <3>1
  <2>2. ASSUME bit + 1 = N + 1
        PROVE  address' \in Sensors
    <3>1. PICK d \in responding : d[bit] = a
      BY <1>1
    <3>2. d \in responding' /\ bit = N /\ d \in Sensors /\ d \in Addr
      BY <1>1, <1>2, <1>3, <2>2, <3>1
    <3> QED  BY <1>4, <2>1, <3>2, AgreeAll
  <2>3. ASSUME still
        PROVE  /\ responding' # {} /\ responding' \subseteq alarmed
               /\ \A d \in alarmed : Agree(d, address', bit) => d \in responding'
    <3>1. responding \subseteq alarmed
      BY <1>2, <2>3 DEF AlarmIInv, AlarmOnPath
    <3> QED  BY <1>1, <1>6, <1>8, <2>3, <3>1
  <2>4. ASSUME still
        PROVE  Split(alarmed, address', bit + 1)
    BY <1>1, <1>2, <1>3, <1>8, <2>4, SplitStep
  <2>5. ASSUME still
        PROVE  Junction(alarmed, address', Pending', bit + 1)
    <3>1. Pending' = IF a = 0 /\ \E d \in alarmed : Agree(d, address, bit - 1) /\ d[bit] = 1
                     THEN bit ELSE Pending
      <4>1. responding \subseteq alarmed
        BY <1>2, <2>5 DEF AlarmIInv, AlarmOnPath
      <4>2. (\E d \in responding : d[bit] = 1)
              <=> \E d \in alarmed : Agree(d, address, bit - 1) /\ d[bit] = 1
        BY <1>8, <2>5, <4>1
      <4> QED  BY <1>11, <2>5, <4>2
    <3>2. Junction(alarmed, address, Pending, bit)
      BY <1>8, <2>5
    <3> QED  BY <1>1, <1>2, <1>3, <3>1, <3>2, JunctionStep
  <2>6. ASSUME still
        PROVE  done' <=> Pending' = 0
    BY <1>2, <1>8, <1>11, <2>6
  <2> QED  BY <1>2, <1>5, <2>1, <2>2, <2>3, <2>4, <2>5, <2>6 DEF AlarmOnPath
<1>13. AlarmFirst'
  <2> SUFFICES ASSUME still, listed = {}
               PROVE  ~exhausted /\ (junction' = 0 \/ bit + 1 > junction')
    BY <1>2 DEF AlarmFirst
  <2>1. ~(bit <= junction)
    BY <1>9
  <2> QED  BY <1>2, <1>3, <1>8, <1>10, <2>1
<1>14. AlarmAgain'
  <2> SUFFICES ASSUME still, listed # {}
               PROVE  AlarmAgain'
    BY <1>2 DEF AlarmAgain
  <2>1. ~exhausted' /\ bit + 1 # 0
    BY <1>2, <1>8
  <2>2. CASE bit + 1 <= junction'
    <3>1. bit < junction /\ junction' = junction /\ a = address[bit]
      <4>1. bit = junction => lastJunction < bit
        BY <1>2, <1>8 DEF Pending, Junction
      <4> QED  BY <1>2, <1>3, <1>10, <2>2, <4>1
    <3>2. address' = address
      BY <1>1, <1>3, <3>1 DEF Addr
    <3>3. bit <= junction /\ address \in alarmed
      BY <1>2, <1>3, <3>1 DEF AlarmIInv, AlarmAgain
    <3> QED  BY <1>2, <1>9, <2>1, <3>1, <3>2, <3>3 DEF AlarmAgain
  <2>3. CASE ~(bit + 1 <= junction')
    BY <1>2, <2>1, <2>3 DEF AlarmAgain
  <2> QED  BY <2>2, <2>3
<1>15. AlarmBeyond'
  <2> SUFFICES ASSUME still, bit + 1 > junction'
               PROVE  listed = Left(alarmed, address', bit + 1)
    BY <1>2 DEF AlarmBeyond
  <2>1. CASE bit = junction
    <3>1. a = 1 /\ bit <= junction
      BY <1>2, <1>10, <2>1
    <3>2. address \in alarmed
      BY <1>2, <1>9, <3>1 DEF AlarmIInv, AlarmOnPath
    <3>3. Left(alarmed, address', bit + 1) = Left(alarmed, address, N + 1) \cup {address}
      BY <1>1, <1>2, <1>3, <1>9, <2>1, <3>1, <3>2, TurnRight
    <3> QED  BY <1>9, <3>1, <3>3
  <2>2. CASE bit > junction
    <3>1. \A d \in alarmed : Agree(d, address, bit - 1) /\ d[bit] = 0 => a = 0
      BY <1>2, <1>3, <1>8, <1>10, <2>2
    <3>2. \A d \in alarmed : d \in Left(alarmed, address', bit + 1)
             <=> \/ d \in Left(alarmed, address, bit)
                 \/ Agree(d, address, bit - 1) /\ d[bit] = 0 /\ a = 1
      BY <1>1, <1>2, <1>3, LeftStep
    <3>3. \A d \in alarmed :
            d \in Left(alarmed, address', bit + 1) <=> d \in Left(alarmed, address, bit)
      BY <3>1, <3>2
    <3>4. /\ Left(alarmed, address', bit + 1) \subseteq alarmed
          /\ Left(alarmed, address, bit) \subseteq alarmed
      BY DEF Left
    <3>5. listed = Left(alarmed, address, bit)
      BY <2>2 DEF AlarmIInv, AlarmBeyond
    <3> QED  BY <3>3, <3>4, <3>5
  <2>3. CASE bit < junction
    BY <1>2, <1>3, <1>10, <2>3
  <2> QED  BY <1>2, <1>3, <2>1, <2>2, <2>3
<1> QED  BY <1>2, <1>7, <1>12, <1>13, <1>14, <1>15 DEF AlarmIInv

LEMMA AlarmNextInv == AlarmIInv /\ [AlarmNext]_alarmVars => AlarmIInv'
<1> SUFFICES ASSUME AlarmIInv, [AlarmNext]_alarmVars PROVE AlarmIInv'
  OBVIOUS
<1>1. CASE ResetAlarmSearch
  BY <1>1, ResetAlarmSearchInv
<1>2. CASE AlarmExhausted
  BY <1>2, AlarmExhaustedInv
<1>3. CASE AlarmBegins
  BY <1>3, AlarmBeginsInv
<1>4. CASE AlarmSilent
  BY <1>4, AlarmSilentInv
<1>5. CASE AlarmBit
  BY <1>5, AlarmBitInv
<1>6. CASE AlarmFound
  BY <1>6, AlarmFoundInv
<1>7. CASE AlarmChange
  BY <1>7, AlarmChangeInv
<1>8. CASE UNCHANGED alarmVars
  BY <1>8 DEF alarmVars, alarms, call, AlarmIInv, AlarmTypeOK, AlarmOnPath, Pending,
              AlarmFirst, AlarmAgain, AlarmBeyond
<1> QED  BY <1>1, <1>2, <1>3, <1>4, <1>5, <1>6, <1>7, <1>8 DEF AlarmNext, AlarmSearch

THEOREM AlarmInvariant == AlarmSpec => []AlarmIInv
BY AlarmInitInv, AlarmNextInv, PTL DEF AlarmSpec

-----------------------------------------------------------------------------
\* Types.
THEOREM AlarmTypeCorrect == AlarmSpec => []AlarmTypeOK
BY AlarmInvariant, PTL DEF AlarmIInv

\* The alarm search returns devices only and, while the alarms stay the same,
\* each device in alarm once and all of them before it gives up.
THEOREM EnumeratesHolds == AlarmSpec => []Enumerates
<1>1. AlarmIInv => Enumerates
  <2> SUFFICES ASSUME AlarmIInv PROVE Enumerates
    OBVIOUS
  <2>1. ASSUME still, bit = N + 1
        PROVE  address \notin listed
    <3>1. bit > junction
      BY <2>1 DEF AlarmIInv, AlarmTypeOK
    <3>2. listed = Left(alarmed, address, bit)
      BY <2>1, <3>1 DEF AlarmIInv, AlarmBeyond
    <3> QED  BY <3>2 DEF Left
  <2> QED  BY <2>1 DEF Enumerates, AlarmIInv
<1> QED  BY <1>1, AlarmInvariant, PTL
=============================================================================
