------------------------------ MODULE PbufRing ------------------------------
(***************************************************************************)
(* The packet store of one socket of the WiFi shield firmware              *)
(* (wifiHD/src/ard_utils.c), with the SPI command handlers of ard_spi.c    *)
(* and the lwIP callbacks of ard_tcp.c that use it.                        *)
(*                                                                         *)
(* pBufStore[][sock] is a ring of heap blocks between tailBuf[sock] (the   *)
(* oldest block not read) and headBuf[sock] (the slot the next block goes  *)
(* to).  Network callbacks insert what the peer sent, the host inserts     *)
(* what it wants to send as a datagram, into the SAME ring, and the host   *)
(* reads bytes or whole blocks from its tail.  Columns of different        *)
(* sockets share nothing, so one column is modelled.                       *)
(*                                                                         *)
(* A block is a number, 0 is the NULL pointer.  A connection is a number   *)
(* too; its pcb, the address of its control block in lwIP, may be one an   *)
(* earlier connection had.                                                 *)
(***************************************************************************)
EXTENDS Integers, FiniteSetsExt

CONSTANTS
    MAX_PBUF_STORED,  \* slots of the ring
    Udp,              \* the socket is a datagram socket
    TCP_WND,          \* receive window of a TCP connection, in bytes
    Lens,             \* lengths a block may have
    MayFail,          \* calloc may return NULL
    MaxBlocks,        \* bound: blocks ever allocated
    MaxConn           \* bound: connections ever opened on the socket

ASSUME RingAssumption ==
    /\ MAX_PBUF_STORED \in Nat /\ MAX_PBUF_STORED >= 2
    /\ Udp \in BOOLEAN
    /\ TCP_WND \in Nat
    /\ Lens \subseteq Nat
    /\ MayFail \in BOOLEAN
    /\ MaxBlocks \in Nat
    /\ MaxConn \in Nat

VARIABLES
    store,    \* pBufStore[][sock]
    head,     \* headBuf[sock]
    tail,     \* tailBuf[sock]
    tx,       \* mapSockTCP[sock][TTCP_MODE_TRANSMIT] # NULL
    conn,     \* number of the last connection opened on the socket
    pcb,      \* address of its control block
    lost,     \* connections that ended without a stop
    wnd,      \* bytes the TCP peer may still send
    heap,     \* blocks allocated and not freed
    born,     \* blocks allocated so far
    leaked,   \* bytes of this connection freed without an acknowledgement
    misacked, \* bytes of earlier connections acknowledged on this one
    written,  \* blocks the host wrote since its last datagram
    sent,     \* blocks copied into the last datagram
    got       \* the bytes last handed to the host: from .. upto - 1 of a block

ring  == <<store, head, tail>>
sock  == <<tx, conn, pcb, lost>>
host  == <<written, sent, got>>
vars  == <<ring, sock, host, wnd, heap, born, leaked, misacked>>

Slots == 0 .. MAX_PBUF_STORED - 1

NoBlock == [data |-> 0, len |-> 0, idx |-> 0, pcb |-> 0, conn |-> 0]

-----------------------------------------------------------------------------
(* Walking the ring.                                                       *)

Wrap(i) == IF i >= MAX_PBUF_STORED THEN i - MAX_PBUF_STORED ELSE i

Succ(i) == Wrap(i + 1)

Dist(i, j) == IF j >= i THEN j - i ELSE j - i + MAX_PBUF_STORED

\* IS_BUF_AVAIL
IsBufAvail == tail # head

\* The slots from tail up to, not including, head: what get_pBuf can reach.
Reachable(i) == Dist(tail, i) < Dist(tail, head)

\* The do-while loops of calcMergeLen, mergeBuf and clearBuf test the index
\* after the first round: they visit the whole ring when tail = head.
Walked(i) == tail = head \/ Reachable(i)

\* Bytes the walk adds up: what the host is told it can read.
calcMergeLen ==
    MapThenSumSet(LAMBDA i : store[i].len - store[i].idx,
                  {i \in Slots : Walked(i) /\ store[i].data # 0}) % 65536

\* The blocks mergeBuf copies (oldest first: AgeOrder).
mergeBuf == {store[i].data : i \in {j \in Slots : Walked(j)}} \ {0}

-----------------------------------------------------------------------------
Init ==
    /\ store = [i \in Slots |-> NoBlock]
    /\ head = 0 /\ tail = 0
    /\ tx = FALSE /\ conn = 0 /\ pcb = 0 /\ lost = {}
    /\ wnd = TCP_WND /\ leaked = 0 /\ misacked = 0
    /\ heap = {} /\ born = 0
    /\ written = {} /\ sent = {}
    /\ got = [block |-> 0, from |-> 0, upto |-> 0]

\* Where head goes once a block was stored: it stays when it would meet tail.
Bug_NextHead == Succ(head)
NextHead == IF Succ(head) = tail THEN head ELSE Succ(head)

\* What insertBuf and insert_pBuf free before they store: the head slot.
Bug_Overwritten == {}
Overwritten == {store[head].data}

\* insertBuf and insert_pBuf: free what the head slot still holds, then store
\* a new block there unless calloc fails.
Insert(len, ok) ==
    /\ born < MaxBlocks /\ (ok \/ MayFail)
    /\ store' = [store EXCEPT ![head] =
                   IF ok THEN [data |-> born + 1, len |-> len, idx |-> 0,
                               pcb |-> pcb, conn |-> conn]
                         ELSE NoBlock]
    /\ heap' = (heap \ Overwritten) \cup (IF ok THEN {born + 1} ELSE {})
    /\ born' = born + 1
    /\ head' = IF ok THEN NextHead ELSE head
    /\ tail' = tail

\* The bytes of this connection that Insert loses: the block it overwrites,
\* and the new one when there is no memory for it.
LostBy(len, ok) ==
    (IF store[head].data # 0 /\ store[head].conn = conn
     THEN store[head].len ELSE 0)
      + (IF ok THEN 0 ELSE len)

\* atcp_recv_cb: a segment the window allows arrives on the open connection.
RecvTcp(len, ok) ==
    /\ ~Udp /\ tx /\ len > 0 /\ len <= wnd
    /\ Insert(len, ok)
    /\ wnd' = wnd - len
    /\ leaked' = leaked + LostBy(len, ok)
    /\ UNCHANGED <<sock, host, misacked>>

\* audp_recv_cb: a datagram arrives on the bound socket.
RecvUdp(len, ok) ==
    /\ Udp
    /\ Insert(len, ok)
    /\ UNCHANGED <<sock, host, wnd, leaked, misacked>>

\* insert_data_cmd_cb: the host adds data to the datagram it is building.
InsertData(len, ok) ==
    /\ Udp
    /\ Insert(len, ok)
    /\ written' = written \cup {born + 1}
    /\ UNCHANGED <<sock, sent, got, wnd, leaked, misacked>>

\* The window once ack_recved told lwIP that the tail block was taken:
\* tcp_recved opens it on the control block the bytes came in on, TCP_WND at
\* most.  Only the one of the open connection is followed.
Opened(len) == IF wnd + len > TCP_WND THEN TCP_WND ELSE wnd + len
Bug_Acked == IF Udp \/ store[tail].pcb # pcb THEN wnd ELSE Opened(store[tail].idx)
Acked     == IF Udp \/ store[tail].pcb # pcb THEN wnd ELSE Opened(store[tail].len)

\* Such an acknowledgement is wrong when the block is of a connection before
\* that had the same control block.
Misacked ==
    IF Udp \/ store[tail].pcb # pcb \/ store[tail].conn = conn THEN misacked
    ELSE misacked + store[tail].len

\* ackAndFreeData on the tail block: open the TCP window again, free the
\* block and move the tail (freetData).
AckAndFree ==
    /\ wnd' = Acked /\ misacked' = Misacked
    /\ IF store[tail].data = 0
       THEN UNCHANGED <<store, heap, tail>>
       ELSE /\ store' = [store EXCEPT ![tail] = NoBlock]
            /\ heap' = heap \ {store[tail].data}
            /\ tail' = Succ(tail)

\* The tail block with the byte at idx taken, unless it was only looked at.
Bug_Advanced(peek) == store
Advanced(peek) == IF peek THEN store ELSE [store EXCEPT ![tail].idx = @ + 1]

\* The bytes from .. upto - 1 of the tail block, for the host.
Bytes(from, upto) == [block |-> store[tail].data, from |-> from, upto |-> upto]

\* get_data_tcp_cmd_cb: one byte of the tail block (getTcpDataByte).
GetData(peek) ==
    LET p == store[tail] IN
    /\ IsBufAvail
    /\ IF p.idx < p.len
       THEN /\ got' = IF peek THEN got ELSE Bytes(p.idx, p.idx + 1)
            /\ IF ~peek /\ p.idx + 1 = p.len
               THEN AckAndFree
               ELSE /\ store' = Advanced(peek)
                    /\ UNCHANGED <<heap, tail, wnd, misacked>>
       ELSE AckAndFree /\ got' = got
    /\ UNCHANGED <<head, sock, born, leaked, written, sent>>

\* get_databuf_tcp_cmd_cb: the tail block from its first byte (getTcpData),
\* whatever byte reads took of it, then freeTcpData.
Bug_GetDataBuf ==
    /\ IsBufAvail
    /\ got' = Bytes(0, store[tail].len)
    /\ UNCHANGED <<ring, sock, wnd, heap, born, leaked, misacked, written, sent>>
GetDataBuf ==
    /\ IsBufAvail
    /\ got' = Bytes(0, store[tail].len)
    /\ AckAndFree
    /\ UNCHANGED <<head, sock, born, leaked, written, sent>>

\* The status listing on the console asks isAvailTcpDataByte, which frees a
\* tail block that has no byte left.
ShowStatus ==
    /\ IsBufAvail /\ store[tail].idx = store[tail].len
    /\ AckAndFree
    /\ UNCHANGED <<head, sock, host, born, leaked>>

\* Free the blocks of the slots gone and leave the ring empty.
Bug_Emptied(gone) ==
    /\ store' = [i \in Slots |-> IF i \in gone THEN NoBlock ELSE store[i]]
    /\ heap' = heap \ {store[i].data : i \in gone}
    /\ UNCHANGED <<head, tail>>
Emptied(gone) ==
    /\ store' = [i \in Slots |-> IF i \in gone THEN NoBlock ELSE store[i]]
    /\ heap' = heap \ {store[i].data : i \in gone}
    /\ tail' = head
    /\ head' = head

ClearBuf == Emptied({i \in Slots : Walked(i)})

\* send_data_udp_cmd_cb: merge the ring into a datagram, try to send it if
\* there is a client, and clear the ring whether or not it was sent.
SendUdp ==
    /\ Udp
    /\ sent' \in {sent} \cup (IF tx /\ calcMergeLen > 0 THEN {mergeBuf} ELSE {})
    /\ written' = {}
    /\ ClearBuf
    /\ UNCHANGED <<sock, wnd, born, leaked, misacked, got>>

\* freeAllTcpData
Bug_FreeAll == UNCHANGED <<store, head, tail, heap>>
FreeAll == Emptied({i \in Slots : Reachable(i)})

\* start_client_tcp: stop the previous client of the socket, if its map still
\* has one, then open a new one, which may fail (no memory, no route).  lwIP
\* takes any control block that is not in use.
StartClient(ok) ==
    /\ IF tx THEN FreeAll ELSE UNCHANGED <<ring, heap>>
    /\ tx' = ok
    /\ IF ok
       THEN /\ conn < MaxConn
            /\ conn' = conn + 1 /\ wnd' = TCP_WND /\ leaked' = 0 /\ misacked' = 0
            /\ \E a \in 1 .. conn + 1 : (tx => a # pcb) /\ pcb' = a
       ELSE UNCHANGED <<conn, pcb, wnd, leaked, misacked>>
    /\ UNCHANGED <<lost, born, host>>

\* stop_client_tcp_cmd_cb
StopClient ==
    /\ tx
    /\ FreeAll
    /\ tx' = FALSE
    /\ UNCHANGED <<conn, pcb, lost, host, wnd, born, leaked, misacked>>

\* cleanSockState_cb: lwIP aborted the connection (atcp_conn_cli_err_cb), or a
\* poll finished the close its FIN had asked for (atcp_poll_conn).  The socket
\* forgets its client; what the client sent stays in the ring.
LoseClient ==
    /\ ~Udp /\ tx
    /\ tx' = FALSE
    /\ lost' = lost \cup {conn}
    /\ UNCHANGED <<ring, conn, pcb, host, wnd, heap, born, leaked, misacked>>

Next ==
    \/ \E len \in Lens, ok \in BOOLEAN :
          RecvTcp(len, ok) \/ RecvUdp(len, ok) \/ InsertData(len, ok)
    \/ \E peek \in BOOLEAN : GetData(peek)
    \/ GetDataBuf
    \/ ShowStatus
    \/ SendUdp
    \/ \E ok \in BOOLEAN : StartClient(ok)
    \/ StopClient
    \/ LoseClient

Spec == Init /\ [][Next]_vars

\* The host polls: as long as there is a block it reaches, it reads a byte.
FairSpec == Spec /\ WF_vars(GetData(FALSE))

-----------------------------------------------------------------------------
(* Properties.                                                             *)

BlockRec == [data : Nat, len : Nat, idx : Nat, pcb : Nat, conn : Nat]

\* Every variable has its type.
TypeOK ==
    /\ store \in [Slots -> BlockRec]
    /\ head \in Slots /\ tail \in Slots
    /\ tx \in BOOLEAN /\ conn \in Nat /\ pcb \in Nat /\ lost \subseteq Nat
    /\ wnd \in Nat /\ leaked \in Nat /\ misacked \in Nat
    /\ heap \subseteq Nat /\ born \in Nat
    /\ written \subseteq Nat /\ sent \subseteq Nat
    /\ got \in [block : Nat, from : Nat, upto : Nat]

\* Every slot a read can reach holds a block with a byte left in it (or an
\* empty one), and no other slot holds a block, the one at head excepted,
\* where a block stays behind when the ring is full.  A reachable NULL slot
\* would stop the tail for good: ackAndFreeData frees nothing there, and
\* freeAllTcpData would never end.
RingShape ==
    \A i \in Slots :
        /\ Reachable(i) => /\ store[i].data # 0
                           /\ store[i].idx < store[i].len \/ store[i].len = 0
        /\ store[i].data # 0 => Reachable(i) \/ i = head

\* The heap holds exactly the blocks the ring points to, each from one slot:
\* no insert, read, datagram or stop leaks a block or frees one twice.
HeapExact ==
    /\ heap = {store[i].data : i \in Slots} \ {0}
    /\ \A i, j \in Slots :
          store[i].data = store[j].data /\ i # j => store[i].data = 0

\* Blocks lie in the ring in the order they arrived, and the one left behind
\* at head is younger than all of them.
AgeOrder ==
    /\ \A i, j \in Slots :
          Reachable(i) /\ Reachable(j) /\ Dist(tail, i) < Dist(tail, j)
             => store[i].data < store[j].data
    /\ \A i \in Slots :
          Reachable(i) /\ store[head].data # 0
             => store[i].data < store[head].data
    /\ \A i \in Slots : store[i].data <= born

\* Of the connections a TCP socket had, only those that ended without a stop
\* leave data behind: whatever a read reaches came in on the open connection,
\* or on one from which on every connection up to it was lost.  One stop, or
\* one start over a client that is still there, clears it all.
OnlyThisConnection ==
    ~Udp => \A i \in Slots : Reachable(i) =>
                \A c \in store[i].conn .. conn : c \in lost \/ (c = conn /\ tx)

\* The bytes the ring holds for the connection, by slot and place.
Held ==
    UNION {{i} \X (1 .. store[i].len) :
             i \in {j \in Slots : store[j].data # 0 /\ store[j].conn = conn}}

\* The TCP window is closed by exactly the bytes the ring holds for the
\* connection and the bytes it dropped without acknowledging them: nothing
\* is acknowledged twice, and every byte dropped narrows it for good.  It is
\* wider than that by no more than the bytes of a lost connection that were
\* acknowledged on its control block after this connection got it.
WindowAccounted ==
    ~Udp /\ tx => wnd + leaked + Cardinality(Held) \in TCP_WND .. TCP_WND + misacked

\* A block in the ring that the host has bytes of is the one it read last, and
\* its idx is where that read ended; every other one is younger and untouched.
ReadFrontier ==
    /\ got.block <= born
    /\ \A i \in Slots : store[i].data # 0 =>
          \/ got.block < store[i].data /\ store[i].idx = 0
          \/ got.block = store[i].data /\ store[i].idx = got.upto

\* The host gets packets in the order they arrived, and the bytes of a packet
\* without a gap: a read goes on where the last one ended, or begins a younger
\* packet at its first byte.  A buffer read may begin the packet again that
\* byte reads had begun, but then it takes all of it and the packet is gone,
\* so that no byte comes a third time.
ReadInOrder ==
    [][got' # got =>
         \/ got'.block > got.block /\ got'.from = 0
         \/ got'.block = got.block /\ got'.from = got.upto
         \/ /\ got'.block = got.block /\ got'.from = 0
            /\ \E i \in Slots : store[i].data = got.block /\ got'.upto = store[i].len
            /\ \A i \in Slots : store'[i].data # got.block]_vars

\* The host polling byte by byte gets to the end of every block it reaches.
Pending(b) == \E i \in Slots : Reachable(i) /\ store[i].data = b

EveryBlockLeaves == \A b \in 1 .. MaxBlocks : Pending(b) ~> ~Pending(b)

\* The ring is a bounded FIFO queue of MAX_PBUF_STORED - 1 packets that
\* loses a packet only when it is full or out of memory.
Queue == INSTANCE PacketQueue WITH
    Capacity <- MAX_PBUF_STORED - 1,
    arrived  <- born,
    queue    <- [k \in 1 .. Dist(tail, head) |->
                   LET s == store[Wrap(tail + k - 1)]
                   IN  [id |-> s.data, len |-> s.len, read |-> s.idx]]

ImplementsQueue == Queue!Spec

-----------------------------------------------------------------------------
(* What comments and headers say, and the ring does not do.                *)

\* ard_utils.c:42 and :143: "to avoid memory leak free the oldest buffer".
OverwriteFreesOldest ==
    [][\A i \in Slots :
         /\ store[i].data # 0 /\ store'[i].data > store[i].data
         => \A j \in Slots : store[j].data # 0 => store[j].data >= store[i].data
      ]_vars

\* WiFiUdp.h:56: parsePacket returns "the size of the packet in bytes, or 0
\* if no packets are available".
NoPacketNoBytes == tail = head => calcMergeLen = 0

\* WiFiUdp.h:45 and :50: what was written into the packet is what is sent.
DatagramIsWhatWasWritten ==
    [][sent' # sent => sent' = written]_vars

\* WiFiUdp.h:58 and :62: available is the "number of bytes remaining in the
\* current packet", and a read takes bytes "from the current packet".
NoByteTwice ==
    [][got'.block = got.block /\ got' # got => got'.from >= got.upto]_vars

\* ard_spi.c:765: "Check previous connection", before the next one is opened:
\* while a TCP connection is open, a read reaches its data only.
NoEarlierConnection ==
    ~Udp /\ tx => \A i \in Slots : Reachable(i) => store[i].conn = conn

=============================================================================
