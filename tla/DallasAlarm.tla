--------------------------- MODULE DallasAlarm ----------------------------
(***************************************************************************)
(* The alarm search of the DallasTemperature library: a walk over the      *)
(* addresses of the devices whose temperature is out of bounds, which keeps *)
(* its own state from call to call (alarmSearchJunction, Exhausted and     *)
(* Address), not OneWire's.                                                *)
(*                                                                         *)
(* A device takes part in a search when it was in alarm at its beginning.  *)
(* Fault: alarms come and go with the measurements, between the calls and  *)
(* during them, and devices are unplugged; at most MaxSwings times.        *)
(***************************************************************************)
EXTENDS AddressTree

CONSTANTS CHECK,     \* the last of them, the checksum: 8 in the code
          Sensors,   \* the addresses there may be
          MaxSwings  \* bound on the alarms that come and go

ASSUME AlarmSizeAssumption == CHECK \in 0 .. N /\ MaxSwings \in Nat
ASSUME SensorsAssumption == Sensors \subseteq Addr

VARIABLES alarmed,       \* the devices in alarm
          responding,    \* those that still answer in the present search
          bit,           \* 1 + i, 0 outside alarmSearch
          address,       \* alarmSearchAddress
          junction,      \* 1 + alarmSearchJunction
          lastJunction,  \* 1 + lastJunction
          done,          \* done
          exhausted,     \* alarmSearchExhausted
          listed,        \* devices returned since resetAlarmSearch
          over,          \* has the last call returned false?
          still,         \* have the alarms stayed as they were since then?
          swings         \* how often an alarm came or went

alarms == <<alarmed, swings>>
call == <<responding, bit, lastJunction, done>>
alarmVars == <<alarms, call, address, junction, exhausted, listed, over, still>>

AlarmInit == /\ alarmed \in SUBSET Sensors
             /\ responding = {} /\ bit = 0 /\ lastJunction = 0 /\ done = TRUE
             /\ address = [k \in 1 .. N |-> 0]
             /\ junction = 0 /\ exhausted = FALSE
             /\ listed = {} /\ over = FALSE /\ still = TRUE /\ swings = 0

\* Seven of the eight bytes of the address are cleared.
ResetAlarmSearch == /\ bit = 0
                    /\ junction' = 0 /\ exhausted' = FALSE
                    /\ address' = [k \in 1 .. N |-> IF k <= N - CHECK THEN 0 ELSE address[k]]
                    /\ listed' = {} /\ over' = FALSE /\ still' = TRUE
                    /\ UNCHANGED <<alarms, call>>

\* alarmSearch returns false.
Fails == over' = TRUE /\ UNCHANGED <<address, junction, exhausted, listed, still>>

AlarmExhausted == /\ bit = 0
                  /\ exhausted
                  /\ Fails
                  /\ UNCHANGED <<alarms, call>>

AlarmBegins == /\ bit = 0
               /\ ~exhausted
               /\ bit' = 1
               /\ responding' = alarmed
               /\ lastJunction' = 0 /\ done' = TRUE
               /\ UNCHANGED <<alarms, address, junction, exhausted, listed, over, still>>

\* Nobody answers: no presence pulse, no alarm, or a device has vanished.
AlarmSilent == /\ bit \in 1 .. N
               /\ responding = {}
               /\ bit' = 0
               /\ Fails
               /\ UNCHANGED <<alarms, responding, lastJunction, done>>

Bug_AtJunction(i, a) ==
  \/ /\ i = junction
     /\ a = 1 /\ junction' = 0 /\ done' = TRUE
     /\ UNCHANGED lastJunction
  \/ /\ i < junction
     /\ a = address[i]
     /\ lastJunction' = IF a = 0 THEN i ELSE lastJunction
     /\ done' = (done /\ a = 1)
     /\ UNCHANGED junction
  \/ /\ i > junction
     /\ a = 0 /\ junction' = i /\ done' = FALSE
     /\ UNCHANGED lastJunction

\* Where the devices differ: decide differently at the junction, as last time
\* before it, and take the 0 of a new branch after it.
AtJunction(i, a) ==
  \/ /\ i = junction
     /\ a = 1 /\ junction' = lastJunction
     /\ UNCHANGED <<lastJunction, done>>
  \/ /\ i < junction
     /\ a = address[i]
     /\ lastJunction' = IF a = 0 THEN i ELSE lastJunction
     /\ done' = (done /\ a = 1)
     /\ UNCHANGED junction
  \/ /\ i > junction
     /\ a = 0 /\ junction' = i /\ done' = FALSE
     /\ UNCHANGED lastJunction

AlarmBits(i) == {d[i] : d \in responding}

AlarmBit ==
  /\ bit \in 1 .. N
  /\ responding # {}
  /\ \E a \in AlarmBits(bit) :
       /\ \/ AlarmBits(bit) = {0, 1} /\ AtJunction(bit, a)
          \/ AlarmBits(bit) # {0, 1} /\ UNCHANGED <<junction, lastJunction, done>>
       /\ address' = [address EXCEPT ![bit] = a]
       /\ responding' = {d \in responding : d[bit] = a}
  /\ bit' = bit + 1
  /\ UNCHANGED <<alarms, exhausted, listed, over, still>>

Bug_AlarmFound == /\ bit = N + 1
                  /\ listed' = listed \cup {address}
                  /\ over' = FALSE
                  /\ bit' = 0 /\ responding' = {}
                  /\ UNCHANGED <<alarms, lastJunction, done, address, junction, exhausted, still>>

AlarmFound == /\ bit = N + 1
              /\ exhausted' = (exhausted \/ done)
              /\ listed' = listed \cup {address}
              /\ over' = FALSE
              /\ bit' = 0 /\ responding' = {}
              /\ UNCHANGED <<alarms, lastJunction, done, address, junction, still>>

\* A measurement sets or clears an alarm, or a device is unplugged.
AlarmChange == /\ swings < MaxSwings
               /\ swings' = swings + 1
               /\ still' = FALSE
               /\ \E d \in Sensors :
                    \/ /\ alarmed' = IF d \in alarmed THEN alarmed \ {d} ELSE alarmed \cup {d}
                       /\ UNCHANGED responding
                    \/ /\ alarmed' = alarmed \ {d}
                       /\ responding' = responding \ {d}
               /\ UNCHANGED <<bit, lastJunction, done, address, junction, exhausted, listed, over>>

AlarmSearch == AlarmExhausted \/ AlarmBegins \/ AlarmSilent \/ AlarmBit \/ AlarmFound
AlarmNext == ResetAlarmSearch \/ AlarmSearch \/ AlarmChange
AlarmSpec == AlarmInit /\ [][AlarmNext]_alarmVars

\* processAlarms goes on calling alarmSearch, and a call runs to its end.
AlarmFairSpec == AlarmSpec /\ WF_alarmVars(AlarmSearch)

-----------------------------------------------------------------------------
\* Types.
AlarmTypeOK == /\ alarmed \subseteq Sensors /\ responding \subseteq Sensors
               /\ bit \in 0 .. N + 1
               /\ address \in Addr
               /\ junction \in 0 .. N /\ lastJunction \in 0 .. N
               /\ done \in BOOLEAN /\ exhausted \in BOOLEAN
               /\ over \in BOOLEAN /\ still \in BOOLEAN
               /\ listed \subseteq Addr
               /\ swings \in 0 .. MaxSwings

\* While the alarms stay the same, a call that "has enumerated the next device"
\* never returns one again, and the search gives up only when every device in
\* alarm has been returned. What is returned is always the address of one
\* device, not a mixture of several, also when alarms go or devices vanish in
\* the middle of a call.
Enumerates ==
    /\ still /\ bit = N + 1 => address \notin listed
    /\ still /\ over => listed = alarmed
    /\ listed \subseteq Sensors

\* processAlarms comes to its end when the alarms are the same throughout.
EndsWhenSteady == <>[][~ResetAlarmSearch]_alarmVars => []<>(over \/ ~still)

\* "If there are no devices, no further devices, or something horrible happens
\* in the middle of the enumeration then a 0 is returned": a loop over the
\* alarms ends, also when an alarm went away between two calls.
AlarmLoopEnds == <>[][~ResetAlarmSearch]_alarmVars => []<>over
=============================================================================
