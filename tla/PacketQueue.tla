----------------------------- MODULE PacketQueue -----------------------------
(***************************************************************************)
(* What the packet store of a socket promises its readers: a bounded FIFO  *)
(* queue of packets.  A packet that arrives while the queue is full, or    *)
(* while there is no memory for it, is lost; no other packet is.  A packet *)
(* in the queue leaves it from the front once all of it was read, or with  *)
(* all the others when the queue is emptied.                               *)
(***************************************************************************)
EXTENDS Naturals, Sequences

CONSTANTS
    Lens,       \* lengths of packets
    Capacity,   \* packets the queue holds
    MayFail     \* TRUE if there may be no memory for a packet

VARIABLES
    queue,      \* packets not read to their end, oldest first
    arrived     \* number of packets that arrived

vars == <<queue, arrived>>

Init == queue = <<>> /\ arrived = 0

\* The packet with number arrived + 1 comes in.
Keep(len) ==
    /\ Len(queue) < Capacity
    /\ queue' = Append(queue, [id |-> arrived + 1, len |-> len, read |-> 0])
    /\ arrived' = arrived + 1

Lose ==
    /\ Len(queue) = Capacity \/ MayFail
    /\ arrived' = arrived + 1
    /\ UNCHANGED queue

\* A byte that is not the last one of the packet in front.
ReadByte ==
    /\ queue # <<>>
    /\ queue[1].read + 1 < queue[1].len
    /\ queue' = [queue EXCEPT ![1].read = @ + 1]
    /\ UNCHANGED arrived

\* The rest of the packet in front.
ReadRest ==
    /\ queue # <<>>
    /\ queue' = Tail(queue)
    /\ UNCHANGED arrived

Empty == queue' = <<>> /\ UNCHANGED arrived

Next == (\E len \in Lens : Keep(len)) \/ Lose \/ ReadByte \/ ReadRest \/ Empty

Spec == Init /\ [][Next]_vars

=============================================================================
