-------------------------- MODULE OneWireSearch ---------------------------
(***************************************************************************)
(* The search for the devices of a 1-Wire bus (OneWire.cpp).  A call of    *)
(* search walks the N bits of an address; at every bit each device that    *)
(* still answers sends its bit and the complement, the master hears the    *)
(* AND of them, picks a direction, and the devices that differ fall        *)
(* silent.  What one call leaves for the next is rom and lastDiscrepancy.  *)
(*                                                                         *)
(* Fault: devices come and go, at most MaxChanges times.                   *)
(***************************************************************************)
EXTENDS AddressTree

CONSTANTS FAMILY,      \* the first of them, a family code: 8 in the code
          Devices,     \* the addresses there may be
          MaxChanges   \* bound on the devices that come and go

Families == [1 .. FAMILY -> {0, 1}]
Family(a) == [k \in 1 .. FAMILY |-> a[k]]
NoFamily == [k \in 1 .. FAMILY |-> 0]

\* The last bits are a checksum of the others.
ASSUME SizeAssumption == FAMILY \in 1 .. N - 1 /\ MaxChanges \in Nat
ASSUME DevicesAssumption ==
  Devices \subseteq Addr /\ \A a, b \in Devices : Agree(a, b, N - 1) => a = b

VARIABLES bus,         \* the devices present
          answering,   \* those that still answer in the present search
          pos,         \* id_bit_number, 0 outside search
          rom,         \* ROM_NO
          lastZero,         \* last_zero
          lastDiscrepancy,  \* LastDiscrepancy
          lastDevice,       \* LastDeviceFlag
          found,       \* devices returned since the search began anew
          ended,       \* has the last call found nothing more?
          target,      \* the family the search began at, NoFamily for all
          steady,      \* has the bus stayed as it was since then?
          changes      \* how often a device came or went

vars == <<bus, answering, pos, rom, lastZero, lastDiscrepancy, lastDevice, found, ended,
          target, steady, changes>>
kept == <<target, steady>>

Init == /\ bus \in SUBSET Devices
        /\ answering = {}
        /\ pos = 0
        /\ rom = [k \in 1 .. N |-> 0]
        /\ lastZero = 0 /\ lastDiscrepancy = 0
        /\ lastDevice = FALSE
        /\ found = {} /\ ended = FALSE /\ target = NoFamily
        /\ steady = TRUE /\ changes = 0

\* A search that begins anew, at family f.
Anew(f) == found' = {} /\ ended' = FALSE /\ steady' = TRUE /\ target' = f

ResetSearch == /\ pos = 0
               /\ rom' = [k \in 1 .. N |-> 0]
               /\ lastDiscrepancy' = 0
               /\ lastDevice' = FALSE
               /\ Anew(NoFamily)
               /\ UNCHANGED <<bus, answering, pos, lastZero, changes>>

Bug_TargetSearch(f) == /\ pos = 0
                       /\ rom' = [k \in 1 .. N |-> IF k \in 1 .. FAMILY THEN f[k] ELSE 0]
                       /\ lastDiscrepancy' = FAMILY
                       /\ lastDevice' = FALSE
                       /\ Anew(f)
                       /\ UNCHANGED <<bus, answering, pos, lastZero, changes>>

TargetSearch(f) == /\ pos = 0
                   /\ rom' = [k \in 1 .. N |-> IF k \in 1 .. FAMILY THEN f[k] ELSE 0]
                   /\ lastDiscrepancy' = N
                   /\ lastDevice' = FALSE
                   /\ Anew(f)
                   /\ UNCHANGED <<bus, answering, pos, lastZero, changes>>

\* What search leaves when it returns false: the next call is like a first.
Nothing == /\ lastDiscrepancy' = 0
           /\ lastDevice' = FALSE
           /\ ended' = TRUE
           /\ pos' = 0
           /\ answering' = {}

\* Nothing is left to find, or nobody answers the reset.
SearchEnded == /\ pos = 0
               /\ lastDevice \/ bus = {}
               /\ Nothing
               /\ UNCHANGED <<bus, rom, lastZero, found, changes>>
               /\ UNCHANGED kept

SearchBegins == /\ pos = 0
                /\ ~lastDevice /\ bus # {}
                /\ pos' = 1
                /\ answering' = bus
                /\ lastZero' = 0
                /\ IF ended THEN Anew(NoFamily) ELSE UNCHANGED <<found, ended, kept>>
                /\ UNCHANGED <<bus, rom, lastDiscrepancy, lastDevice, changes>>

Bug_Pick(i) == IF i <= lastDiscrepancy THEN rom[i] ELSE 0

\* Where the devices differ: before the last discrepancy as last time, at it
\* the 1, after it the 0.
Pick(i) == IF i < lastDiscrepancy THEN rom[i]
           ELSE IF i = lastDiscrepancy THEN 1 ELSE 0

Bits(i) == {a[i] : a \in answering}

Bug_SearchBit ==
  /\ pos \in 1 .. N
  /\ answering # {}
  /\ \E dir \in Bits(pos) :
       /\ Bits(pos) = {0, 1} => dir = Pick(pos)
       /\ lastZero' = IF Bits(pos) = {0, 1} /\ dir = 0 /\ lastZero = 0 THEN pos ELSE lastZero
       /\ rom' = [rom EXCEPT ![pos] = dir]
       /\ answering' = {a \in answering : a[pos] = dir}
  /\ pos' = pos + 1
  /\ UNCHANGED <<bus, lastDiscrepancy, lastDevice, found, ended, changes>>
  /\ UNCHANGED kept

\* One bit: the bit and its complement, the ANDs of what the devices send,
\* and the direction.
SearchBit ==
  /\ pos \in 1 .. N
  /\ answering # {}
  /\ \E dir \in Bits(pos) :
       /\ Bits(pos) = {0, 1} => dir = Pick(pos)
       /\ lastZero' = IF Bits(pos) = {0, 1} /\ dir = 0 THEN pos ELSE lastZero
       /\ rom' = [rom EXCEPT ![pos] = dir]
       /\ answering' = {a \in answering : a[pos] = dir}
  /\ pos' = pos + 1
  /\ UNCHANGED <<bus, lastDiscrepancy, lastDevice, found, ended, changes>>
  /\ UNCHANGED kept

\* Both bits are 1: nobody answers any more.
SearchSilent == /\ pos \in 1 .. N
                /\ answering = {}
                /\ Nothing
                /\ UNCHANGED <<bus, rom, lastZero, found, changes>>
                /\ UNCHANGED kept

Bug_SearchFound ==
  /\ pos = N + 1
  /\ lastDiscrepancy' = lastZero
  /\ found' = found \cup {rom}
  /\ pos' = 0
  /\ answering' = {}
  /\ UNCHANGED <<bus, rom, lastZero, lastDevice, ended, changes>>
  /\ UNCHANGED kept

\* All bits are read; a first byte of zeros is no device.
SearchFound ==
  /\ pos = N + 1
  /\ \/ /\ Family(rom) # NoFamily
        /\ lastDiscrepancy' = lastZero
        /\ lastDevice' = (lastZero = 0)
        /\ found' = found \cup {rom}
        /\ pos' = 0
        /\ answering' = {}
        /\ UNCHANGED ended
     \/ /\ Family(rom) = NoFamily
        /\ Nothing
        /\ UNCHANGED found
  /\ UNCHANGED <<bus, rom, lastZero, changes>>
  /\ UNCHANGED kept

\* A device comes or goes; one that comes waits for the next bus reset.
Change == /\ changes < MaxChanges
          /\ changes' = changes + 1
          /\ \E a \in Devices : bus' = IF a \in bus THEN bus \ {a} ELSE bus \cup {a}
          /\ answering' = answering \cap bus'
          /\ steady' = FALSE
          /\ UNCHANGED <<pos, rom, lastZero, lastDiscrepancy, lastDevice, found, ended, target>>

Search == SearchEnded \/ SearchBegins \/ SearchBit \/ SearchSilent \/ SearchFound
Restart == ResetSearch \/ \E f \in Families \ {NoFamily} : TargetSearch(f)
Next == Restart \/ Search \/ Change

Spec == Init /\ [][Next]_vars

\* The sketch goes on calling search, and a call runs to its end.
FairSpec == Spec /\ WF_vars(Search)

-----------------------------------------------------------------------------
\* Types.
TypeOK == /\ bus \subseteq Devices
          /\ answering \subseteq bus
          /\ pos \in 0 .. N + 1
          /\ rom \in Addr
          /\ lastZero \in 0 .. N /\ lastDiscrepancy \in 0 .. N
          /\ lastDevice \in BOOLEAN /\ ended \in BOOLEAN /\ steady \in BOOLEAN
          /\ found \subseteq Addr
          /\ target \in Families
          /\ changes \in 0 .. MaxChanges

\* Every call returns a device the calls before it did not: search makes
\* progress (OneWire.cpp: "the next device").
Once == steady /\ pos = N + 1 => rom \notin found

\* "If there are no devices, no further devices ... a 0 is returned": search
\* gives up only when it has returned them all.
FindsAll == steady /\ ended /\ target = NoFamily
              /\ (\A a \in bus : Family(a) # NoFamily) => found = bus

\* What is returned is the address of one device, not a mixture of several,
\* also when devices leave in the middle of a call; on a steady bus it is there.
Real == found \subseteq Devices /\ (steady => found \subseteq bus)

\* target_search finds "the device type family_code on the next call to search
\* if it is present", and the calls after it the others of that family.
FindsFamily ==
  steady /\ target # NoFamily =>
    /\ pos = N + 1 /\ found = {} /\ (\E a \in bus : Family(a) = target)
         => Family(rom) = target
    /\ ended /\ (\A a \in bus : Family(a) # NoFamily)
         => {a \in bus : Family(a) = target} \subseteq found

\* A sketch that only goes on searching comes to the end of the bus again and
\* again, whatever the state the devices that came and went have left.
Ends == <>[][~Restart]_vars => []<>ended
=============================================================================
