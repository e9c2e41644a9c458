--------------------------- MODULE PbufRing_proofs ---------------------------
(***************************************************************************)
(* Proofs about PbufRing, for every ring size, block length and number of  *)
(* blocks and connections.                                                 *)
(***************************************************************************)
EXTENDS PbufRing, TLAPS, FiniteSetTheorems, SequenceTheorems

\* The inductive invariant.  The heap is exact because blocks are numbered in
\* the order they arrive (AgeOrder: none is younger than born); bytes are read
\* in order because every block in the ring is younger than the last one read
\* (ReadFrontier); both need to know where blocks can lie (RingShape).
IInv == /\ TypeOK
        /\ RingShape
        /\ HeapExact
        /\ AgeOrder
        /\ OnlyThisConnection
        /\ ReadFrontier

USE RingAssumption DEF RingAssumption

\* Successors of slots are slots.
LEMMA SuccSlot == \A i \in Slots : Succ(i) \in Slots
  BY DEF Slots, Succ, Wrap

LEMMA InitIInv == Init => IInv
  <1> SUFFICES ASSUME Init PROVE IInv
    OBVIOUS
  <1>1. TypeOK
    <2>1. store \in [Slots -> BlockRec]
      BY DEF Init, NoBlock, BlockRec
    <2>2. head \in Slots /\ tail \in Slots
      BY DEF Init, Slots
    <2>3. got \in [block : Nat, from : Nat, upto : Nat]
      BY DEF Init
    <2>4. QED
      BY <2>1, <2>2, <2>3 DEF Init, TypeOK
  <1>2. RingShape /\ AgeOrder /\ OnlyThisConnection
    BY DEF Init, RingShape, AgeOrder, OnlyThisConnection, Reachable, Dist,
           Slots, NoBlock
  <1>3. HeapExact
    BY DEF Init, HeapExact, Slots, NoBlock
  <1>4. ReadFrontier
    BY DEF Init, ReadFrontier, NoBlock
  <1>5. QED
    BY <1>1, <1>2, <1>3, <1>4 DEF IInv

\* Storing a block keeps the shape of the ring, its order and its heap.
LEMMA InsertKeeps ==
  ASSUME IInv, NEW len \in Lens, NEW ok \in BOOLEAN, Insert(len, ok)
  PROVE  /\ store' \in [Slots -> BlockRec] /\ head' \in Slots /\ tail' \in Slots
         /\ born' \in Nat /\ heap' \subseteq Nat
         /\ RingShape' /\ HeapExact' /\ AgeOrder'
  <1> USE DEF IInv
  <1> DEFINE new == IF ok THEN [data |-> born + 1, len |-> len, idx |-> 0,
                                pcb |-> pcb, conn |-> conn]
                          ELSE NoBlock
  <1>1. /\ new \in BlockRec
        /\ store' = [store EXCEPT ![head] = new]
        /\ head' \in Slots /\ tail' = tail /\ tail \in Slots /\ head \in Slots
        /\ born' = born + 1 /\ born \in Nat
    BY SuccSlot DEF Insert, TypeOK, BlockRec, NoBlock, NextHead
  <1>2. store' \in [Slots -> BlockRec] /\ heap' \subseteq Nat
    <2>1. store' \in [Slots -> BlockRec]
      BY <1>1 DEF TypeOK
    <2>2. heap' \subseteq heap \cup {born + 1}
      BY DEF Insert
    <2>3. QED
      BY <2>1, <2>2 DEF TypeOK
  <1>a. \A i \in Slots : store'[i] = IF i = head THEN new ELSE store[i]
    BY <1>1 DEF TypeOK
  <1>b. ASSUME NEW i \in Slots
        PROVE  /\ i # head => (Reachable(i)' <=> Reachable(i))
               /\ Reachable(i)' => (i = head => ok /\ head' # head)
               /\ i = head => Reachable(i)' \/ i = head'
    BY <1>1 DEF Insert, NextHead, Reachable, Dist, Succ, Wrap, Slots
  <1>c. new.data # 0 /\ ok => new.idx < new.len \/ new.len = 0
    BY DEF NoBlock
  <1>3. RingShape'
    <2> SUFFICES ASSUME NEW i \in Slots
                 PROVE  /\ Reachable(i)' => /\ store'[i].data # 0
                                            /\ \/ store'[i].idx < store'[i].len
                                               \/ store'[i].len = 0
                        /\ store'[i].data # 0 => Reachable(i)' \/ i = head'
      BY DEF RingShape
    <2>1. CASE i = head
      BY <1>1, <1>a, <1>b, <2>1 DEF TypeOK
    <2>2. CASE i # head
      BY <1>a, <1>b, <2>2 DEF RingShape
    <2>3. QED
      BY <2>1, <2>2
  <1>4. HeapExact'
    BY <1>1 DEF HeapExact, AgeOrder, Insert, Overwritten, TypeOK, BlockRec,
                NoBlock
  <1>5. AgeOrder'
    <2>1. \A i \in Slots : store'[i].data <= born'
      <3> TAKE i \in Slots
      <3>1. CASE i = head
        BY <1>1, <1>a, <3>1 DEF NoBlock
      <3>2. CASE i # head
        BY <1>1, <1>a, <3>2 DEF AgeOrder, TypeOK, BlockRec
      <3>3. QED
        BY <3>1, <3>2
    <2>2. ASSUME NEW i \in Slots, NEW j \in Slots,
                 Reachable(i)', Reachable(j)', Dist(tail, i)' < Dist(tail, j)'
          PROVE  store'[i].data < store'[j].data
      <3>1. i # head
        BY <1>1, <2>2 DEF Insert, NextHead, Reachable, Dist, Succ, Wrap, Slots
      <3>2. CASE j = head
        <4>1. store'[j].data = born + 1
          BY <1>a, <1>b, <2>2, <3>2
        <4>2. QED
          BY <1>1, <1>a, <3>1, <4>1 DEF AgeOrder, TypeOK, BlockRec
      <3>3. CASE j # head
        BY <1>1, <1>a, <1>b, <2>2, <3>1, <3>3 DEF AgeOrder, Dist
      <3>4. QED
        BY <3>2, <3>3
    <2>3. ASSUME NEW i \in Slots, Reachable(i)', store'[head'].data # 0
          PROVE  store'[i].data < store'[head'].data
      <3>1. CASE head' = head
        <4>1. i # head
          BY <1>b, <2>3, <3>1
        <4>2. ok
          BY <1>1, <1>a, <2>3, <3>1 DEF NoBlock
        <4>3. store'[head'].data = born + 1
          BY <1>1, <1>a, <3>1, <4>2
        <4>4. QED
          BY <1>1, <1>a, <4>1, <4>3 DEF AgeOrder, TypeOK, BlockRec
      <3>2. CASE head' # head
        <4>1. head' = Succ(head) /\ Succ(head) # tail
          BY <1>1, <3>2 DEF Insert, NextHead
        <4>2. ~ Reachable(head')
          BY <1>1, <3>2, <4>1 DEF Reachable, Dist, Succ, Wrap, Slots
        <4>3. store'[head'].data = 0
          BY <1>1, <1>a, <3>2, <4>2 DEF RingShape
        <4>4. QED
          BY <2>3, <4>3
      <3>3. QED
        BY <3>1, <3>2
    <2>4. QED
      BY <2>1, <2>2, <2>3 DEF AgeOrder
  <1>6. QED
    BY <1>1, <1>2, <1>3, <1>4, <1>5

\* Freeing the tail block and moving on keeps them as well.
LEMMA AckAndFreeKeeps ==
  ASSUME IInv, AckAndFree, IsBufAvail, UNCHANGED <<head, born, sock>>
  PROVE  /\ store' \in [Slots -> BlockRec] /\ head' \in Slots /\ tail' \in Slots
         /\ heap' \subseteq Nat /\ wnd' \in Nat /\ misacked' \in Nat
         /\ RingShape' /\ HeapExact' /\ AgeOrder'
         /\ \A i \in Slots : Reachable(i)' => Reachable(i) /\ store'[i] = store[i]
         /\ tail' = Succ(tail) /\ store' = [store EXCEPT ![tail] = NoBlock]
  <1> USE DEF IInv
  <1>1. Reachable(tail) /\ store[tail].data # 0 /\ tail \in Slots /\ head \in Slots
    BY DEF TypeOK, RingShape, Reachable, Dist, IsBufAvail, Slots
  <1>2. /\ store' = [store EXCEPT ![tail] = NoBlock]
        /\ heap' = heap \ {store[tail].data}
        /\ tail' = Succ(tail) /\ tail' \in Slots /\ head' = head
    BY <1>1, SuccSlot DEF AckAndFree
  <1>3. \A i \in Slots : store'[i] = IF i = tail THEN NoBlock ELSE store[i]
    BY <1>2 DEF TypeOK
  <1>4. /\ \A i \in Slots : Reachable(i)' <=> Reachable(i) /\ i # tail
        /\ \A i, j \in Slots : Reachable(i)' /\ Reachable(j)'
              => (Dist(tail, i)' < Dist(tail, j)' <=> Dist(tail, i) < Dist(tail, j))
    BY <1>1, <1>2 DEF IsBufAvail, Reachable, Dist, Succ, Wrap, Slots
  <1>5. /\ store' \in [Slots -> BlockRec] /\ heap' \subseteq Nat
        /\ wnd' \in Nat /\ misacked' \in Nat
    <2>1. store' \in [Slots -> BlockRec]
      BY <1>2 DEF TypeOK, NoBlock, BlockRec
    <2>2. heap' \subseteq Nat
      BY <1>2 DEF TypeOK
    <2>3. wnd' \in Nat /\ misacked' \in Nat
      BY <1>1 DEF TypeOK, BlockRec, AckAndFree, Acked, Opened, Misacked
    <2>4. QED
      BY <2>1, <2>2, <2>3
  <1>6. RingShape'
    BY <1>2, <1>3, <1>4 DEF RingShape, NoBlock
  <1>7. HeapExact'
    BY <1>1, <1>2, <1>3 DEF HeapExact, NoBlock, TypeOK
  <1>8. AgeOrder'
    BY <1>1, <1>2, <1>3, <1>4 DEF AgeOrder, NoBlock, TypeOK
  <1>9. QED
    BY <1>1, <1>2, <1>3, <1>4, <1>5, <1>6, <1>7, <1>8

\* Taking a byte that is not the last one of the tail block.
LEMMA AdvanceKeeps ==
  ASSUME IInv, IsBufAvail, store[tail].idx < store[tail].len,
         store[tail].idx + 1 # store[tail].len,
         store' = [store EXCEPT ![tail].idx = @ + 1],
         UNCHANGED <<head, tail, heap, born, sock>>
  PROVE  /\ store' \in [Slots -> BlockRec]
         /\ RingShape' /\ HeapExact' /\ AgeOrder' /\ OnlyThisConnection'
  <1> USE DEF IInv
  <1>1. /\ store' \in [Slots -> BlockRec]
        /\ \A i \in Slots : /\ store'[i].data = store[i].data
                            /\ store'[i].len = store[i].len
                            /\ store'[i].conn = store[i].conn
                            /\ i # tail => store'[i].idx = store[i].idx
        /\ store'[tail].idx = store[tail].idx + 1
        /\ store[tail].idx \in Nat /\ store[tail].len \in Nat
        /\ tail \in Slots /\ head \in Slots
    BY DEF TypeOK, BlockRec
  <1>2. \A i \in Slots : Reachable(i)' <=> Reachable(i)
    BY DEF Reachable, Dist
  <1>3. RingShape'
    BY <1>1, <1>2 DEF RingShape
  <1>4. HeapExact'
    BY <1>1 DEF HeapExact
  <1>5. AgeOrder'
    BY <1>1, <1>2 DEF AgeOrder, Dist
  <1>6. OnlyThisConnection'
    BY <1>1, <1>2 DEF OnlyThisConnection, sock
  <1>7. QED
    BY <1>1, <1>3, <1>4, <1>5, <1>6

\* Emptying the ring (clearBuf, freeAllTcpData): both free every reachable
\* block and leave no other behind than the one at head.
LEMMA EmptyKeeps ==
  ASSUME IInv, NEW gone \in SUBSET Slots,
         \A i \in Slots : Reachable(i) => i \in gone,
         Emptied(gone), UNCHANGED born
  PROVE  /\ store' \in [Slots -> BlockRec] /\ head' \in Slots /\ tail' \in Slots
         /\ heap' \subseteq Nat
         /\ RingShape' /\ HeapExact' /\ AgeOrder'
         /\ \A i \in Slots : ~ Reachable(i)'
         /\ tail' = head'
  <1> USE DEF IInv
  <1>1. /\ store' \in [Slots -> BlockRec]
        /\ \A i \in Slots : store'[i] = IF i \in gone THEN NoBlock ELSE store[i]
        /\ head' = head /\ tail' = head /\ head \in Slots
        /\ heap' = heap \ {store[i].data : i \in gone}
    BY DEF Emptied, TypeOK, NoBlock, BlockRec
  <1>2. heap' \subseteq Nat
    BY <1>1 DEF TypeOK
  <1>3. \A i \in Slots : ~ Reachable(i)'
    BY <1>1 DEF Reachable, Dist, Slots
  <1>4. RingShape'
    BY <1>1, <1>3 DEF RingShape, NoBlock
  <1>5. HeapExact'
    <2>1. \A i, j \in Slots :
             store'[i].data = store'[j].data /\ i # j => store'[i].data = 0
      BY <1>1 DEF HeapExact, NoBlock
    <2>2. heap' = {store'[i].data : i \in Slots} \ {0}
      <3>1. ASSUME NEW b \in heap'
            PROVE  b \in {store'[i].data : i \in Slots} \ {0}
        BY <1>1, <3>1 DEF HeapExact
      <3>2. ASSUME NEW i \in Slots, store'[i].data # 0
            PROVE  store'[i].data \in heap'
        <4>1. i \notin gone /\ store'[i].data = store[i].data
          BY <1>1, <3>2 DEF NoBlock
        <4>2. \A j \in gone : store[j].data # store[i].data
          BY <3>2, <4>1 DEF HeapExact
        <4>3. QED
          BY <1>1, <3>2, <4>1, <4>2 DEF HeapExact
      <3>3. QED
        BY <3>1, <3>2
    <2>3. QED
      BY <2>1, <2>2 DEF HeapExact
  <1>6. AgeOrder'
    BY <1>1, <1>3 DEF AgeOrder, NoBlock, TypeOK
  <1>7. QED
    BY <1>1, <1>2, <1>3, <1>4, <1>5, <1>6

\* Insert leaves the front of the ring alone.
LEMMA InsertFrontier ==
  ASSUME IInv, NEW len \in Lens, NEW ok \in BOOLEAN, Insert(len, ok),
         UNCHANGED got
  PROVE  ReadFrontier'
  <1>1. /\ born' = born + 1 /\ born \in Nat /\ got.block \in Nat
        /\ \A i \in Slots :
              \/ /\ store'[i].data = store[i].data
                 /\ store'[i].idx = store[i].idx
              \/ store'[i].data = 0
              \/ store'[i].data = born + 1 /\ store'[i].idx = 0
    BY DEF IInv, TypeOK, Insert, NoBlock
  <1>2. QED
    BY <1>1 DEF IInv, ReadFrontier

\* A new block of a TCP connection belongs to that connection.
LEMMA InsertConnection ==
  ASSUME IInv, NEW len \in Lens, NEW ok \in BOOLEAN, Insert(len, ok),
         UNCHANGED sock, tx
  PROVE  OnlyThisConnection'
  <1>1. \A i \in Slots : (i # head /\ Reachable(i)') => Reachable(i)
    BY DEF IInv, TypeOK, Insert, NextHead, Reachable, Dist, Succ, Wrap, Slots
  <1>2. \A i \in Slots : i # head => store'[i] = store[i]
    BY DEF IInv, TypeOK, Insert
  <1>3. \A i \in Slots : (i = head /\ Reachable(i)') => store'[i].conn = conn
    <2>1. ~ ok => head' = head
      BY DEF Insert
    <2>2. \A i \in Slots : head' = i => ~ Reachable(i)'
      BY DEF Reachable, Dist, Insert, IInv, TypeOK, Slots
    <2>3. ok => store'[head].conn = conn
      BY DEF IInv, TypeOK, Insert
    <2>4. QED
      BY <2>1, <2>2, <2>3
  <1>4. ASSUME ~ Udp, NEW i \in Slots, Reachable(i)',
               NEW c \in store'[i].conn .. conn
        PROVE  c \in lost \/ (c = conn /\ tx)
    <2>1. CASE i = head
      BY <1>3, <1>4, <2>1 DEF IInv, TypeOK
    <2>2. CASE i # head
      <3>1. Reachable(i) /\ store'[i] = store[i]
        BY <1>1, <1>2, <1>4, <2>2
      <3>2. QED
        BY <1>4, <3>1 DEF IInv, OnlyThisConnection
    <2>3. QED
      BY <2>1, <2>2
  <1>5. QED
    BY <1>4 DEF OnlyThisConnection, sock

\* Every other block is younger than the one at the tail.
LEMMA YoungerThanTail ==
  ASSUME IInv, IsBufAvail, NEW i \in Slots, i # tail, store[i].data # 0
  PROVE  store[tail].data < store[i].data
  <1>1. tail \in Slots /\ head \in Slots /\ Reachable(tail)
    BY DEF IInv, TypeOK, Reachable, Dist, IsBufAvail, Slots
  <1>2. CASE Reachable(i)
    <2>1. Dist(tail, tail) < Dist(tail, i)
      BY <1>1 DEF Dist, Slots
    <2>2. QED
      BY <1>1, <1>2, <2>1 DEF IInv, AgeOrder
  <1>3. CASE ~ Reachable(i)
    BY <1>1, <1>3 DEF IInv, RingShape, AgeOrder
  <1>4. QED
    BY <1>2, <1>3

\* Freeing the tail block keeps the whole invariant, whether its last byte was
\* handed to the host or not.
LEMMA AckAndFreeIInv ==
  ASSUME IInv, AckAndFree, IsBufAvail,
         UNCHANGED <<head, sock, born, leaked, written, sent>>,
         got' = got \/ \E x, y \in Nat : got' = Bytes(x, y)
  PROVE  IInv'
  <1>1. /\ tail \in Slots /\ head \in Slots /\ Reachable(tail)
        /\ store[tail].data \in Nat /\ store[tail].data # 0
    BY DEF IInv, TypeOK, BlockRec, RingShape, Reachable, Dist, IsBufAvail, Slots
  <1>2. got' \in [block : Nat, from : Nat, upto : Nat]
    BY <1>1 DEF IInv, TypeOK, Bytes
  <1>3. TypeOK'
    BY <1>2, AckAndFreeKeeps DEF IInv, TypeOK, sock
  <1>4. OnlyThisConnection'
    <2>1. ASSUME ~ Udp, NEW i \in Slots, Reachable(i)'
          PROVE  Reachable(i) /\ store'[i] = store[i]
      BY <2>1, AckAndFreeKeeps DEF sock
    <2>2. QED
      BY <2>1 DEF IInv, OnlyThisConnection, sock
  <1>5. ReadFrontier'
    <2>1. \A i \in Slots : store'[i] = IF i = tail THEN NoBlock ELSE store[i]
      BY AckAndFreeKeeps DEF IInv, TypeOK, sock
    <2>2. CASE got' = got
      BY <2>1, <2>2 DEF IInv, ReadFrontier, NoBlock
    <2>3. CASE \E x, y \in Nat : got' = Bytes(x, y)
      <3>1. got'.block = store[tail].data
        BY <2>3 DEF Bytes
      <3>2. ASSUME NEW i \in Slots, i # tail, store[i].data # 0
            PROVE  store[tail].data < store[i].data
        BY <1>1, <3>2, YoungerThanTail
      <3>3. ASSUME NEW i \in Slots, store'[i].data # 0
            PROVE  got'.block < store'[i].data /\ store'[i].idx = 0
        <4>1. i # tail /\ store'[i] = store[i]
          BY <2>1, <3>3 DEF NoBlock
        <4>2. store[tail].data < store[i].data
          BY <3>2, <3>3, <4>1
        <4>3. got.block <= store[tail].data /\ got.block \in Nat /\ store[i].data \in Nat
          BY <1>1 DEF IInv, ReadFrontier, TypeOK, BlockRec
        <4>4. store[i].idx = 0
          BY <1>1, <3>3, <4>1, <4>2, <4>3 DEF IInv, ReadFrontier
        <4>5. QED
          BY <3>1, <4>1, <4>2, <4>4
      <3>4. got'.block <= born'
        BY <1>1, <3>1 DEF IInv, AgeOrder
      <3>5. QED
        BY <3>3, <3>4 DEF ReadFrontier
    <2>4. QED
      BY <2>2, <2>3
  <1>6. QED
    BY <1>3, <1>4, <1>5, AckAndFreeKeeps DEF IInv, sock

\* Emptying the ring reads nothing.
LEMMA EmptyFrontier ==
  ASSUME IInv, NEW gone \in SUBSET Slots, Emptied(gone), UNCHANGED <<born, got>>
  PROVE  ReadFrontier'
  <1>1. \A i \in Slots : store'[i] = IF i \in gone THEN NoBlock ELSE store[i]
    BY DEF Emptied
  <1>2. QED
    BY <1>1 DEF IInv, ReadFrontier, NoBlock

LEMMA StutterIInv == IInv /\ UNCHANGED vars => IInv'
  BY DEF vars, ring, sock, host, IInv, TypeOK, RingShape, HeapExact, AgeOrder,
         OnlyThisConnection, ReadFrontier, Reachable, Dist

LEMMA NextIInv == IInv /\ [Next]_vars => IInv'
  <1> SUFFICES ASSUME IInv, [Next]_vars PROVE IInv'
    OBVIOUS
  <1>1. ASSUME NEW len \in Lens, NEW ok \in BOOLEAN, RecvTcp(len, ok)
        PROVE  IInv'
    <2>1. wnd' \in Nat /\ leaked' \in Nat
      BY <1>1 DEF RecvTcp, LostBy, IInv, TypeOK, BlockRec
    <2>2. TypeOK'
      BY <1>1, <2>1, InsertKeeps DEF RecvTcp, IInv, TypeOK, sock, host
    <2>3. QED
      BY <1>1, <2>2, InsertKeeps, InsertFrontier, InsertConnection
         DEF RecvTcp, IInv, host
  <1>2. ASSUME NEW len \in Lens, NEW ok \in BOOLEAN, RecvUdp(len, ok)
        PROVE  IInv'
    <2>1. TypeOK'
      BY <1>2, InsertKeeps DEF RecvUdp, IInv, TypeOK, sock, host
    <2>2. QED
      BY <1>2, <2>1, InsertKeeps, InsertFrontier
         DEF RecvUdp, IInv, OnlyThisConnection, host
  <1>3. ASSUME NEW len \in Lens, NEW ok \in BOOLEAN, InsertData(len, ok)
        PROVE  IInv'
    <2>1. written' \subseteq Nat
      BY <1>3 DEF InsertData, IInv, TypeOK
    <2>2. TypeOK'
      BY <1>3, <2>1, InsertKeeps DEF InsertData, IInv, TypeOK, sock
    <2>3. QED
      BY <1>3, <2>2, InsertKeeps, InsertFrontier
         DEF InsertData, IInv, OnlyThisConnection
  <1>4. ASSUME NEW peek \in BOOLEAN, GetData(peek)
        PROVE  IInv'
    <2>1. /\ IsBufAvail /\ tail \in Slots /\ store[tail] \in BlockRec
          /\ UNCHANGED <<head, sock, born, leaked, written, sent>>
      BY <1>4 DEF GetData, IInv, TypeOK
    <2>2. CASE AckAndFree
      <3>1. got' = got \/ got' = Bytes(store[tail].idx, store[tail].idx + 1)
        BY <1>4 DEF GetData
      <3>2. QED
        BY <2>1, <2>2, <3>1, AckAndFreeIInv DEF BlockRec
    <2>3. CASE peek /\ ~ AckAndFree
      <3>1. UNCHANGED vars
        BY <1>4, <2>3 DEF GetData, Advanced, vars, ring, host
      <3>2. QED
        BY <3>1, StutterIInv
    <2>4. CASE ~ peek /\ ~ AckAndFree
      <3>1. /\ store[tail].idx < store[tail].len
            /\ store[tail].idx + 1 # store[tail].len
            /\ store' = [store EXCEPT ![tail].idx = @ + 1]
            /\ UNCHANGED <<head, tail, heap, born, sock, wnd, misacked>>
            /\ got' = Bytes(store[tail].idx, store[tail].idx + 1)
        BY <1>4, <2>4 DEF GetData, Advanced
      <3>2. /\ store' \in [Slots -> BlockRec]
            /\ RingShape' /\ HeapExact' /\ AgeOrder' /\ OnlyThisConnection'
        BY <2>1, <3>1, AdvanceKeeps
      <3>3. TypeOK'
        BY <2>1, <3>1, <3>2 DEF IInv, TypeOK, BlockRec, Bytes, sock
      <3>4. ReadFrontier'
        <4>1. /\ got'.block = store[tail].data /\ got'.upto = store[tail].idx + 1
              /\ store'[tail].idx = store[tail].idx + 1
              /\ store'[tail].data = store[tail].data
              /\ \A i \in Slots : i # tail => store'[i] = store[i]
          BY <2>1, <3>1 DEF IInv, TypeOK, Bytes
        <4>2. store[tail].data # 0
          BY <2>1 DEF IInv, TypeOK, RingShape, IsBufAvail, Reachable, Dist, Slots
        <4>3. got.block <= store[tail].data /\ got.block \in Nat
          BY <2>1, <4>2 DEF IInv, ReadFrontier, TypeOK, BlockRec
        <4>4. ASSUME NEW i \in Slots, i # tail, store'[i].data # 0
              PROVE  got'.block < store'[i].data /\ store'[i].idx = 0
          <5>1. store[tail].data < store[i].data
            BY <2>1, <4>1, <4>4, YoungerThanTail
          <5>2. QED
            BY <2>1, <4>1, <4>3, <4>4, <5>1 DEF IInv, ReadFrontier, TypeOK, BlockRec
        <4>5. store[tail].data <= born' /\ got'.block <= born'
          BY <2>1, <4>1 DEF IInv, AgeOrder
        <4>6. QED
          BY <4>1, <4>4, <4>5 DEF ReadFrontier
      <3>5. QED
        BY <3>2, <3>3, <3>4 DEF IInv
    <2>5. QED
      BY <2>2, <2>3, <2>4
  <1>5. CASE GetDataBuf
    <2>1. store[tail].len \in Nat
      BY DEF IInv, TypeOK, BlockRec
    <2>2. QED
      BY <1>5, <2>1, AckAndFreeIInv DEF GetDataBuf
  <1>6. CASE ShowStatus
    BY <1>6, AckAndFreeIInv DEF ShowStatus, host
  <1>7. CASE SendUdp
    <2> DEFINE gone == {i \in Slots : Walked(i)}
    <2>1. /\ gone \in SUBSET Slots /\ Emptied(gone)
          /\ \A i \in Slots : Reachable(i) => i \in gone
          /\ UNCHANGED <<sock, wnd, born, leaked, misacked, got>>
      BY <1>7 DEF SendUdp, ClearBuf, Walked
    <2>2. sent' \subseteq Nat /\ written' \subseteq Nat
      BY <1>7 DEF SendUdp, mergeBuf, IInv, TypeOK, BlockRec
    <2>3. /\ store' \in [Slots -> BlockRec] /\ head' \in Slots /\ tail' \in Slots
          /\ heap' \subseteq Nat
          /\ RingShape' /\ HeapExact' /\ AgeOrder' /\ ReadFrontier'
      BY <2>1, EmptyKeeps, EmptyFrontier
    <2>4. TypeOK' /\ OnlyThisConnection'
      BY <1>7, <2>1, <2>2, <2>3
         DEF SendUdp, IInv, TypeOK, OnlyThisConnection, sock
    <2>5. QED
      BY <2>3, <2>4 DEF IInv
  <1>8. ASSUME NEW ok \in BOOLEAN, StartClient(ok)
        PROVE  IInv'
    <2>1. /\ UNCHANGED <<lost, born, host>> /\ tx' = ok
          /\ \/ ok /\ conn' = conn + 1
             \/ ~ ok /\ conn' = conn
          /\ conn' \in Nat /\ pcb' \in Nat /\ wnd' \in Nat /\ leaked' \in Nat
          /\ misacked' \in Nat
      BY <1>8 DEF StartClient, IInv, TypeOK
    <2>2. CASE tx
      <3> DEFINE gone == {i \in Slots : Reachable(i)}
      <3>1. /\ gone \in SUBSET Slots /\ Emptied(gone)
            /\ \A i \in Slots : Reachable(i) => i \in gone
            /\ UNCHANGED <<born, got>>
        BY <1>8, <2>2 DEF StartClient, FreeAll, host
      <3>2. /\ store' \in [Slots -> BlockRec] /\ head' \in Slots
            /\ tail' \in Slots /\ heap' \subseteq Nat
            /\ RingShape' /\ HeapExact' /\ AgeOrder' /\ ReadFrontier'
            /\ \A i \in Slots : ~ Reachable(i)'
        BY <3>1, EmptyKeeps, EmptyFrontier
      <3>3. TypeOK' /\ OnlyThisConnection'
        BY <2>1, <3>2 DEF IInv, TypeOK, OnlyThisConnection, host
      <3>4. QED
        BY <3>2, <3>3 DEF IInv
    <2>3. CASE ~ tx
      <3>1. UNCHANGED <<store, head, tail, heap, born, got>>
        BY <1>8, <2>1, <2>3 DEF StartClient, ring, host
      <3>2. TypeOK'
        BY <2>1, <3>1 DEF IInv, TypeOK, host
      <3>3. RingShape' /\ HeapExact' /\ AgeOrder' /\ ReadFrontier'
        BY <3>1 DEF IInv, RingShape, HeapExact, AgeOrder, ReadFrontier,
                    Reachable, Dist
      <3>4. OnlyThisConnection'
        <4>1. ASSUME ~ Udp, NEW i \in Slots, Reachable(i)',
                     NEW c \in store'[i].conn .. conn'
              PROVE  c \in lost' \/ (c = conn' /\ tx')
          <5>1. Reachable(i) /\ store'[i] = store[i] /\ store[i].conn \in Nat
            BY <3>1, <4>1 DEF Reachable, Dist, IInv, TypeOK, BlockRec
          <5>2. CASE c \in store[i].conn .. conn
            BY <2>1, <2>3, <4>1, <5>1, <5>2 DEF IInv, OnlyThisConnection
          <5>3. CASE c \notin store[i].conn .. conn
            BY <2>1, <4>1, <5>1, <5>3 DEF IInv, TypeOK
          <5>4. QED
            BY <5>2, <5>3
        <4>2. QED
          BY <4>1 DEF OnlyThisConnection
      <3>5. QED
        BY <3>2, <3>3, <3>4 DEF IInv
    <2>4. QED
      BY <2>2, <2>3
  <1>9. CASE StopClient
    <2> DEFINE gone == {i \in Slots : Reachable(i)}
    <2>1. /\ gone \in SUBSET Slots /\ Emptied(gone)
          /\ \A i \in Slots : Reachable(i) => i \in gone
          /\ UNCHANGED <<born, got>>
      BY <1>9 DEF StopClient, FreeAll, host
    <2>2. /\ store' \in [Slots -> BlockRec] /\ head' \in Slots
          /\ tail' \in Slots /\ heap' \subseteq Nat
          /\ RingShape' /\ HeapExact' /\ AgeOrder' /\ ReadFrontier'
          /\ \A i \in Slots : ~ Reachable(i)'
      BY <2>1, EmptyKeeps, EmptyFrontier
    <2>3. TypeOK' /\ OnlyThisConnection'
      BY <1>9, <2>2 DEF StopClient, IInv, TypeOK, OnlyThisConnection, host
    <2>4. QED
      BY <2>2, <2>3 DEF IInv
  <1>10. CASE LoseClient
    <2>1. /\ UNCHANGED <<ring, conn, pcb, host, wnd, heap, born, leaked, misacked>>
          /\ tx' = FALSE /\ lost' = lost \cup {conn}
      BY <1>10 DEF LoseClient
    <2>2. TypeOK'
      BY <2>1 DEF IInv, TypeOK, ring, host
    <2>3. RingShape' /\ HeapExact' /\ AgeOrder' /\ ReadFrontier'
      BY <2>1 DEF IInv, RingShape, HeapExact, AgeOrder, ReadFrontier,
                  Reachable, Dist, ring, host
    <2>4. OnlyThisConnection'
      BY <2>1 DEF IInv, OnlyThisConnection, Reachable, Dist, ring
    <2>5. QED
      BY <2>2, <2>3, <2>4 DEF IInv
  <1>11. CASE UNCHANGED vars
    BY <1>11, StutterIInv
  <1>12. QED
    BY <1>1, <1>2, <1>3, <1>4, <1>5, <1>6, <1>7, <1>8, <1>9, <1>10, <1>11 DEF Next

\* A step that hands bytes to the host goes on where the last read ended, begins
\* a younger packet, or takes the whole of the one begun, which is gone then.
LEMMA ReadStep ==
  ASSUME IInv, Next, got' # got
  PROVE  \/ got'.block > got.block /\ got'.from = 0
         \/ got'.block = got.block /\ got'.from = got.upto
         \/ /\ got'.block = got.block /\ got'.from = 0
            /\ \E i \in Slots : store[i].data = got.block /\ got'.upto = store[i].len
            /\ \A i \in Slots : store'[i].data # got.block
  <1>1. (\E peek \in BOOLEAN : GetData(peek)) \/ GetDataBuf
    BY DEF Next, RecvTcp, RecvUdp, InsertData, ShowStatus, SendUdp,
           StartClient, StopClient, LoseClient, host
  <1>2. IsBufAvail /\ got'.block = store[tail].data
    BY <1>1 DEF GetData, GetDataBuf, Bytes
  <1>3. /\ tail \in Slots /\ store[tail].data # 0 /\ store[tail].data \in Nat
        /\ got.block \in Nat
    BY <1>2 DEF IInv, TypeOK, BlockRec, RingShape, Reachable, Dist, IsBufAvail, Slots
  <1>4. \/ got.block < store[tail].data /\ store[tail].idx = 0
        \/ got.block = store[tail].data /\ store[tail].idx = got.upto
    BY <1>3 DEF IInv, ReadFrontier
  <1>5. ASSUME NEW peek \in BOOLEAN, GetData(peek)
        PROVE  \/ got'.block > got.block /\ got'.from = 0
               \/ got'.block = got.block /\ got'.from = got.upto
    <2>1. got'.from = store[tail].idx
      BY <1>5 DEF GetData, Bytes
    <2>2. QED
      BY <1>2, <1>3, <1>4, <2>1
  <1>6. CASE GetDataBuf
    <2>1. got'.from = 0 /\ got'.upto = store[tail].len
      BY <1>6 DEF GetDataBuf, Bytes
    <2>2. CASE got.block < store[tail].data
      BY <1>2, <1>3, <2>1, <2>2
    <2>3. CASE got.block = store[tail].data
      <3>1. store' = [store EXCEPT ![tail] = NoBlock]
        BY <1>3, <1>6 DEF GetDataBuf, AckAndFree
      <3>2. \A i \in Slots : store'[i].data # got.block
        BY <1>3, <2>3, <3>1 DEF NoBlock, IInv, TypeOK, HeapExact
      <3>3. QED
        BY <1>2, <1>3, <2>1, <2>3, <3>2
    <2>4. QED
      BY <1>4, <2>2, <2>3
  <1>7. QED
    BY <1>1, <1>5, <1>6

\* The inductive invariant holds of every behaviour.
THEOREM Invariance == Spec => []IInv
  BY InitIInv, NextIInv, PTL DEF Spec

\* Types.
THEOREM TypeCorrect == Spec => []TypeOK
  BY Invariance, PTL DEF IInv

\* A read never meets a NULL slot, and no block lies where neither a read nor
\* the next insert finds it.
THEOREM RingShapeHolds == Spec => []RingShape
  BY Invariance, PTL DEF IInv

\* No operation of the ring leaks a block or frees one twice.
THEOREM HeapExactHolds == Spec => []HeapExact
  BY Invariance, PTL DEF IInv

\* A TCP reader reaches data of the open connection and of those that were lost
\* one after the other right before it: a stop or a start over a live client
\* (freeAllTcpData) leaves nothing.
THEOREM OnlyThisConnectionHolds == Spec => []OnlyThisConnection
  BY Invariance, PTL DEF IInv

\* From tail to head the blocks are in the order in which they were stored, and
\* none is younger than the last insert_pBuf or insertBuf.
THEOREM AgeOrderHolds == Spec => []AgeOrder
  BY Invariance, PTL DEF IInv

\* freetData and getTcpDataByte leave nothing in the ring that is older than the
\* packet read last, and keep in idx where the host is in that one.
THEOREM ReadFrontierHolds == Spec => []ReadFrontier
  BY Invariance, PTL DEF IInv

\* Packets reach the host in the order they came in, and their bytes without a
\* gap; only a buffer read begins a packet again, whole, and frees it.
THEOREM ReadInOrderHolds == Spec => ReadInOrder
  <1>1. IInv /\ [Next]_vars
          => [got' # got =>
                \/ got'.block > got.block /\ got'.from = 0
                \/ got'.block = got.block /\ got'.from = got.upto
                \/ /\ got'.block = got.block /\ got'.from = 0
                   /\ \E i \in Slots : store[i].data = got.block /\ got'.upto = store[i].len
                   /\ \A i \in Slots : store'[i].data # got.block]_vars
    BY ReadStep
  <1>2. QED
    BY <1>1, Invariance, PTL DEF Spec, ReadInOrder

-----------------------------------------------------------------------------
(* The window.                                                             *)

\* Bytes that block b holds for connection c.
Counted(b, c) == IF b.data # 0 /\ b.conn = c THEN b.len ELSE 0

\* A block of the connection bears its control block, so that its bytes are
\* acknowledged on it.
PcbOfConn == \A i \in Slots : store[i].data # 0 /\ store[i].conn = conn
                                  => store[i].pcb = pcb

\* No block belongs to a connection to come, so that a new connection begins
\* with an empty ring as far as its window goes.
WindowInv == /\ IsFiniteSet(Held)
             /\ \A i \in Slots : store[i].conn <= conn
             /\ PcbOfConn
             /\ WindowAccounted

LEMMA DisjointUnion ==
  ASSUME NEW A, NEW B, IsFiniteSet(A), IsFiniteSet(B), A \cap B = {}
  PROVE  /\ IsFiniteSet(A \cup B)
         /\ Cardinality(A \cup B) = Cardinality(A) + Cardinality(B)
  <1>1. Cardinality(A) \in Nat /\ Cardinality(B) \in Nat
    BY FS_CardinalityType
  <1>2. Cardinality(A \cap B) = 0
    BY FS_EmptySet
  <1>3. /\ IsFiniteSet(A \cup B)
        /\ Cardinality(A \cup B) = Cardinality(A) + Cardinality(B) - Cardinality(A \cap B)
    BY FS_Union, Zenon
  <1>4. Cardinality(A) + Cardinality(B) - 0 = Cardinality(A) + Cardinality(B)
    BY <1>1
  <1>5. QED
    BY <1>2, <1>3, <1>4, Zenon

\* A change of one slot changes the bytes held by what that slot held before
\* and holds now.
LEMMA HeldChange ==
  ASSUME IInv, store' \in [Slots -> BlockRec], conn' = conn, IsFiniteSet(Held),
         NEW h \in Slots, \A i \in Slots : i # h => store'[i] = store[i]
  PROVE  /\ IsFiniteSet(Held')
         /\ Cardinality(Held) \in Nat
         /\ Cardinality(Held') = Cardinality(Held) - Counted(store[h], conn) + Counted(store'[h], conn)
  <1> DEFINE rest == {p \in Held : p[1] # h}
             was  == IF store[h].data # 0 /\ store[h].conn = conn
                     THEN {h} \X (1 .. store[h].len) ELSE {}
             is   == IF store'[h].data # 0 /\ store'[h].conn = conn
                     THEN {h} \X (1 .. store'[h].len) ELSE {}
  <1>1. store[h].len \in Nat /\ store'[h].len \in Nat
    BY DEF IInv, TypeOK, BlockRec
  <1>2. Held = rest \cup was /\ rest \cap was = {}
    BY DEF Held
  <1>3. Held' = rest \cup is /\ rest \cap is = {}
    BY DEF Held
  <1>4. \A n \in Nat : IsFiniteSet({h} \X (1 .. n)) /\ Cardinality({h} \X (1 .. n)) = n
    <2> TAKE n \in Nat
    <2>1. IsFiniteSet(1 .. n) /\ Cardinality(1 .. n) = n
      BY FS_Interval
    <2>2. IsFiniteSet({h}) /\ Cardinality({h}) = 1
      BY FS_Singleton
    <2>3. QED
      BY <2>1, <2>2, FS_Product
  <1>5. IsFiniteSet({}) /\ Cardinality({}) = 0
    BY FS_EmptySet
  <1>6. /\ IsFiniteSet(was) /\ Cardinality(was) = Counted(store[h], conn)
        /\ IsFiniteSet(is) /\ Cardinality(is) = Counted(store'[h], conn)
    BY <1>1, <1>4, <1>5 DEF Counted
  <1>7. IsFiniteSet(rest) /\ Cardinality(rest) \in Nat
    BY FS_Subset, FS_CardinalityType
  <1>8. Cardinality(Held) = Cardinality(rest) + Cardinality(was)
    <2> HIDE DEF rest, was
    <2> QED  BY <1>2, <1>6, <1>7, DisjointUnion
  <1>9. IsFiniteSet(Held') /\ Cardinality(Held') = Cardinality(rest) + Cardinality(is)
    <2> HIDE DEF rest, is
    <2> QED  BY <1>3, <1>6, <1>7, DisjointUnion
  <1>10. Counted(store[h], conn) \in Nat /\ Counted(store'[h], conn) \in Nat
    BY <1>1 DEF Counted
  <1>11. QED
    BY <1>6, <1>7, <1>8, <1>9, <1>10

\* Storing a block at the head: what the slot held is lost, unless it is of an
\* earlier connection, and the block that found no memory is lost.
LEMMA InsertWindow ==
  ASSUME IInv, WindowInv, NEW len \in Lens, NEW ok \in BOOLEAN, Insert(len, ok),
         UNCHANGED <<conn, pcb>>
  PROVE  /\ IsFiniteSet(Held') /\ PcbOfConn'
         /\ \A i \in Slots : store'[i].conn <= conn'
         /\ Cardinality(Held) \in Nat /\ Cardinality(Held') \in Nat
         /\ Cardinality(Held') + LostBy(len, ok) = Cardinality(Held) + len
  <1> USE DEF IInv
  <1>1. /\ store' \in [Slots -> BlockRec] /\ head \in Slots
        /\ store[head] \in BlockRec /\ conn \in Nat /\ born \in Nat /\ len \in Nat
    BY InsertKeeps DEF TypeOK
  <1>2. /\ \A i \in Slots : i # head => store'[i] = store[i]
        /\ store'[head] = IF ok THEN [data |-> born + 1, len |-> len, idx |-> 0,
                                      pcb |-> pcb, conn |-> conn]
                                ELSE NoBlock
    BY <1>1 DEF Insert, TypeOK
  <1>3. (\A i \in Slots : store'[i].conn <= conn) /\ PcbOfConn'
    BY <1>1, <1>2 DEF WindowInv, PcbOfConn, NoBlock
  <1>4. /\ IsFiniteSet(Held') /\ Cardinality(Held) \in Nat
        /\ Cardinality(Held') = Cardinality(Held) - Counted(store[head], conn)
                                                  + Counted(store'[head], conn)
    <2>1. PICK h \in Slots : h = head
      BY <1>1
    <2>2. IsFiniteSet(Held)
      BY DEF WindowInv
    <2>3. QED
      BY <1>1, <1>2, <2>1, <2>2, HeldChange
  <1>5. Counted(store'[head], conn) = IF ok THEN len ELSE 0
    BY <1>1, <1>2 DEF Counted, NoBlock
  <1>6. LostBy(len, ok) = Counted(store[head], conn) + (IF ok THEN 0 ELSE len)
    BY DEF LostBy, Counted
  <1>7. Cardinality(Held') \in Nat
    BY <1>4, FS_CardinalityType
  <1>8. Counted(store[head], conn) \in Nat
    BY <1>1 DEF Counted, BlockRec
  <1>9. QED
    BY <1>1, <1>3, <1>4, <1>5, <1>6, <1>7, <1>8

\* Freeing the tail block: its bytes are acknowledged if they are of this
\* connection; those of another one may be, and then they are counted.
LEMMA AckWindow ==
  ASSUME IInv, WindowInv, AckAndFree, IsBufAvail,
         UNCHANGED <<head, sock, born, leaked>>
  PROVE  WindowInv'
  <1> USE DEF IInv, WindowInv
  <1>1. /\ tail \in Slots /\ store[tail] \in BlockRec /\ store[tail].data # 0
        /\ store' \in [Slots -> BlockRec] /\ store' = [store EXCEPT ![tail] = NoBlock]
        /\ conn' = conn /\ tx' = tx /\ leaked' = leaked
        /\ conn \in Nat /\ wnd \in Nat /\ leaked \in Nat /\ misacked \in Nat
    BY AckAndFreeKeeps DEF TypeOK, RingShape, Reachable, Dist, IsBufAvail, Slots, sock
  <1>2. \A i \in Slots : store'[i] = IF i = tail THEN NoBlock ELSE store[i]
    BY <1>1 DEF TypeOK
  <1>3. /\ IsFiniteSet(Held') /\ Cardinality(Held) \in Nat
        /\ Cardinality(Held') = Cardinality(Held) - Counted(store[tail], conn)
                                                  + Counted(store'[tail], conn)
    <2>1. PICK h \in Slots : h = tail
      BY <1>1
    <2>2. QED
      BY <1>1, <1>2, <2>1, HeldChange
  <1>4. Counted(store'[tail], conn) = 0 /\ Cardinality(Held') \in Nat
    BY <1>1, <1>2, <1>3, FS_CardinalityType DEF Counted, NoBlock
  <1>5. \A i \in Slots : store'[i].conn <= conn'
    BY <1>1, <1>2 DEF NoBlock
  <1>6. WindowAccounted'
    <2> SUFFICES ASSUME ~ Udp, tx
                 PROVE  wnd' + leaked + Cardinality(Held') \in TCP_WND .. TCP_WND + misacked'
      BY <1>1 DEF WindowAccounted
    <2>1. /\ wnd' = IF store[tail].pcb # pcb THEN wnd ELSE Opened(store[tail].len)
          /\ misacked' = IF store[tail].pcb # pcb \/ store[tail].conn = conn THEN misacked
                         ELSE misacked + store[tail].len
          /\ store[tail].len \in Nat
      BY <1>1 DEF AckAndFree, Acked, Misacked, BlockRec
    <2>2. wnd + leaked + Cardinality(Held) \in TCP_WND .. TCP_WND + misacked
      BY DEF WindowAccounted
    <2>3. CASE store[tail].conn = conn
      <3>1. Counted(store[tail], conn) = store[tail].len /\ store[tail].pcb = pcb
        BY <1>1, <2>3 DEF Counted, PcbOfConn
      <3>2. QED
        BY <1>1, <1>3, <1>4, <2>1, <2>2, <2>3, <3>1 DEF Opened
    <2>4. CASE store[tail].conn # conn
      <3>1. Counted(store[tail], conn) = 0
        BY <2>4 DEF Counted
      <3>2. QED
        BY <1>1, <1>3, <1>4, <2>1, <2>2, <2>4, <3>1 DEF Opened
    <2>5. QED
      BY <2>3, <2>4
  <1>7. PcbOfConn'
    BY <1>1, <1>2 DEF PcbOfConn, NoBlock, sock
  <1>8. QED
    BY <1>3, <1>5, <1>6, <1>7

\* What is left of the ring after its blocks were freed holds no more than before.
LEMMA EmptyWindow ==
  ASSUME IInv, WindowInv, NEW gone \in SUBSET Slots, Emptied(gone),
         UNCHANGED <<conn, pcb>>
  PROVE  /\ \A i \in Slots : store'[i].conn <= conn'
         /\ IsFiniteSet(Held') /\ PcbOfConn'
  <1> USE DEF IInv, WindowInv
  <1>1. \A i \in Slots : store'[i] = IF i \in gone THEN NoBlock ELSE store[i]
    BY DEF Emptied
  <1>2. \A i \in Slots : store[i].conn \in Nat
    BY DEF TypeOK, BlockRec
  <1>3. (\A i \in Slots : store'[i].conn <= conn') /\ PcbOfConn'
    BY <1>1, <1>2 DEF NoBlock, TypeOK, PcbOfConn
  <1>4. Held' \subseteq Held
    BY <1>1 DEF Held, NoBlock
  <1>5. QED
    BY <1>3, <1>4, FS_Subset

\* A new connection holds nothing.
LEMMA NewConnection ==
  ASSUME IInv, \A i \in Slots : store'[i].conn \in Nat /\ store'[i].conn <= conn,
         conn' = conn + 1
  PROVE  IsFiniteSet(Held') /\ Cardinality(Held') = 0 /\ PcbOfConn'
  <1>1. Held' = {} /\ PcbOfConn'
    BY DEF Held, PcbOfConn, IInv, TypeOK
  <1>2. QED
    BY <1>1, FS_EmptySet

LEMMA NextWindow == IInv /\ WindowInv /\ [Next]_vars => WindowInv'
  <1> SUFFICES ASSUME IInv, WindowInv, [Next]_vars PROVE WindowInv'
    OBVIOUS
  <1> USE DEF IInv
  <1>1. ASSUME NEW len \in Lens, NEW ok \in BOOLEAN, RecvTcp(len, ok)
        PROVE  WindowInv'
    <2>1. /\ Insert(len, ok) /\ UNCHANGED <<tx, conn, pcb, misacked>>
          /\ len <= wnd /\ len \in Nat
          /\ wnd' = wnd - len /\ leaked' = leaked + LostBy(len, ok) /\ tx /\ ~ Udp
      BY <1>1 DEF RecvTcp, sock
    <2>2. /\ wnd \in Nat /\ leaked \in Nat /\ LostBy(len, ok) \in Nat
      BY DEF TypeOK, LostBy, BlockRec
    <2>3. wnd' + leaked' + Cardinality(Held') = wnd + leaked + Cardinality(Held)
      BY <2>1, <2>2, InsertWindow
    <2>4. WindowAccounted'
      BY <2>1, <2>3 DEF WindowInv, WindowAccounted
    <2>5. QED
      BY <2>1, <2>4, InsertWindow DEF WindowInv
  <1>2. ASSUME NEW len \in Lens, NEW ok \in BOOLEAN,
               RecvUdp(len, ok) \/ InsertData(len, ok)
        PROVE  WindowInv'
    <2>1. Insert(len, ok) /\ UNCHANGED <<conn, pcb>> /\ Udp
      BY <1>2 DEF RecvUdp, InsertData, sock
    <2>2. QED
      BY <2>1, InsertWindow DEF WindowInv, WindowAccounted
  <1>3. ASSUME UNCHANGED <<conn, pcb, wnd, leaked, misacked>>, tx' => tx,
               \A i \in Slots : /\ store'[i].data = store[i].data
                                /\ store'[i].len = store[i].len
                                /\ store'[i].pcb = store[i].pcb
                                /\ store'[i].conn = store[i].conn
        PROVE  WindowInv'
    <2>1. Held' = Held
      BY <1>3 DEF Held
    <2>2. QED
      BY <1>3, <2>1 DEF WindowInv, WindowAccounted, PcbOfConn
  <1>4. ASSUME NEW peek \in BOOLEAN, GetData(peek)
        PROVE  WindowInv'
    <2>1. CASE AckAndFree
      BY <1>4, <2>1, AckWindow DEF GetData
    <2>2. CASE ~ AckAndFree
      <3>1. UNCHANGED <<tx, conn, pcb, wnd, leaked, misacked>> /\ store' = Advanced(peek)
        BY <1>4, <2>2 DEF GetData, sock
      <3>2. \A i \in Slots : /\ store'[i].data = store[i].data
                             /\ store'[i].len = store[i].len
                             /\ store'[i].pcb = store[i].pcb
                             /\ store'[i].conn = store[i].conn
        BY <3>1 DEF Advanced, TypeOK, BlockRec
      <3>3. QED
        BY <1>3, <3>1, <3>2
    <2>3. QED
      BY <2>1, <2>2
  <1>5. CASE GetDataBuf \/ ShowStatus
    BY <1>5, AckWindow DEF GetDataBuf, ShowStatus
  <1>6. CASE SendUdp
    <2>1. Emptied({i \in Slots : Walked(i)}) /\ UNCHANGED <<conn, pcb>> /\ Udp
      BY <1>6 DEF SendUdp, ClearBuf, sock
    <2>2. QED
      BY <2>1, EmptyWindow DEF WindowInv, WindowAccounted
  <1>7. ASSUME NEW ok \in BOOLEAN, StartClient(ok)
        PROVE  WindowInv'
    <2>1. CASE ok
      <3>1. conn' = conn + 1 /\ wnd' = TCP_WND /\ leaked' = 0 /\ misacked' = 0 /\ conn \in Nat
        BY <1>7, <2>1 DEF StartClient, TypeOK
      <3>2. \A i \in Slots : store'[i] = store[i] \/ store'[i] = NoBlock
        BY <1>7 DEF StartClient, FreeAll, Emptied, ring
      <3>3. \A i \in Slots : store'[i].conn \in Nat /\ store'[i].conn <= conn
        BY <3>1, <3>2 DEF TypeOK, BlockRec, NoBlock, WindowInv
      <3>4. IsFiniteSet(Held') /\ Cardinality(Held') = 0 /\ PcbOfConn'
        BY <3>1, <3>3, NewConnection
      <3>5. QED
        BY <3>1, <3>3, <3>4 DEF WindowInv, WindowAccounted
    <2>2. CASE ~ ok
      <3>1. ~ tx' /\ UNCHANGED <<conn, pcb, wnd, leaked, misacked>>
        BY <1>7, <2>2 DEF StartClient
      <3>2. CASE tx
        <4>1. Emptied({i \in Slots : Reachable(i)})
          BY <1>7, <3>2 DEF StartClient, FreeAll
        <4>2. QED
          BY <3>1, <4>1, EmptyWindow DEF WindowInv, WindowAccounted
      <3>3. CASE ~ tx
        BY <1>3, <1>7, <3>1, <3>3 DEF StartClient, ring
      <3>4. QED
        BY <3>2, <3>3
    <2>3. QED
      BY <2>1, <2>2
  <1>8. CASE StopClient
    <2>1. /\ Emptied({i \in Slots : Reachable(i)}) /\ UNCHANGED <<conn, pcb>> /\ ~ tx'
      BY <1>8 DEF StopClient, FreeAll
    <2>2. QED
      BY <2>1, EmptyWindow DEF WindowInv, WindowAccounted
  <1>9. CASE LoseClient
    BY <1>3, <1>9 DEF LoseClient, ring
  <1>10. CASE UNCHANGED vars
    BY <1>3, <1>10 DEF vars, ring, sock
  <1>11. QED
    BY <1>1, <1>2, <1>4, <1>5, <1>6, <1>7, <1>8, <1>9, <1>10 DEF Next

\* Every byte that leaves the ring opens the TCP window by one, once, and every
\* byte dropped narrows it for good; only bytes of a lost connection that had
\* the same control block open it further.
THEOREM WindowAccountedHolds == Spec => []WindowAccounted
  <1>1. Init => WindowInv
    <2> SUFFICES ASSUME Init PROVE WindowInv
      OBVIOUS
    <2>1. Held = {}
      BY DEF Init, Held, NoBlock
    <2>2. IsFiniteSet(Held)
      BY <2>1, FS_EmptySet
    <2>3. QED
      BY <2>2 DEF Init, WindowInv, WindowAccounted, NoBlock, PcbOfConn
  <1>2. QED
    BY <1>1, NextWindow, Invariance, PTL DEF Spec, WindowInv

-----------------------------------------------------------------------------
(* The ring is a queue.                                                    *)

\* What a reader knows of a block, and the blocks between two slots in order.
Item(b) == [id |-> b.data, len |-> b.len, read |-> b.idx]

ItemRec == [id : Nat, len : Nat, read : Nat]

Between(st, t, h) == [k \in 1 .. Dist(t, h) |-> Item(st[Wrap(t + k - 1)])]

Contents == Between(store, tail, head)

\* One more byte of a block read, and of the packet in front.
ReadOne(b) == [b EXCEPT !.idx = @ + 1]

ReadFront(q) == [q EXCEPT ![1].read = @ + 1]

\* The blocks between two slots are a sequence of as many as the slots lie
\* apart, each in a slot that is not the last.
LEMMA BetweenSeq ==
  ASSUME NEW st \in [Slots -> BlockRec], NEW t \in Slots, NEW h \in Slots
  PROVE  /\ Between(st, t, h) \in Seq(ItemRec)
         /\ Len(Between(st, t, h)) = Dist(t, h) /\ Dist(t, h) \in 0 .. MAX_PBUF_STORED - 1
         /\ \A k \in 1 .. Dist(t, h) :
               /\ Wrap(t + k - 1) \in Slots \ {h}
               /\ Between(st, t, h)[k] = Item(st[Wrap(t + k - 1)])
  <1>1. Dist(t, h) \in 0 .. MAX_PBUF_STORED - 1
    BY DEF Dist, Slots
  <1>2. \A k \in 1 .. Dist(t, h) : Wrap(t + k - 1) \in Slots \ {h}
    BY DEF Dist, Wrap, Slots
  <1>3. \A i \in Slots : Item(st[i]) \in ItemRec
    BY DEF Item, ItemRec, BlockRec
  <1>4. Between(st, t, h) \in [1 .. Dist(t, h) -> ItemRec]
    BY <1>2, <1>3 DEF Between
  <1>5. Between(st, t, h) \in Seq(ItemRec)
    BY <1>1, <1>4, SeqDef
  <1>6. Len(Between(st, t, h)) = Dist(t, h)
    BY <1>1, <1>4, <1>5, LenProperties
  <1>7. \A k \in 1 .. Dist(t, h) :
           Between(st, t, h)[k] = Item(st[Wrap(t + k - 1)])
    BY DEF Between
  <1>8. QED
    BY <1>1, <1>2, <1>5, <1>6, <1>7

\* Only the slots between the two matter.
LEMMA BetweenSame ==
  ASSUME NEW st \in [Slots -> BlockRec], NEW su \in [Slots -> BlockRec],
         NEW t \in Slots, NEW h \in Slots,
         \A i \in Slots : i # h => su[i] = st[i]
  PROVE  Between(su, t, h) = Between(st, t, h)
  <1>1. \A k \in 1 .. Dist(t, h) :
           Between(su, t, h)[k] = Between(st, t, h)[k]
    BY BetweenSeq
  <1>2. QED
    BY <1>1, BetweenSeq, SeqEqual

\* A block stored at the head goes to the end.
LEMMA BetweenAppend ==
  ASSUME NEW st \in [Slots -> BlockRec], NEW su \in [Slots -> BlockRec],
         NEW t \in Slots, NEW h \in Slots, Succ(h) # t,
         \A i \in Slots : i # h => su[i] = st[i]
  PROVE  Between(su, t, Succ(h)) = Append(Between(st, t, h), Item(su[h]))
  <1> DEFINE old == Between(st, t, h)
             new == Between(su, t, Succ(h))
  <1>1. Succ(h) \in Slots /\ Dist(t, Succ(h)) = Dist(t, h) + 1
    BY DEF Succ, Wrap, Dist, Slots
  <1>2. Wrap(t + (Dist(t, h) + 1) - 1) = h
    BY DEF Wrap, Dist, Slots
  <1>3. Item(su[h]) \in ItemRec
    BY DEF Item, ItemRec, BlockRec
  <1>4. /\ old \in Seq(ItemRec) /\ new \in Seq(ItemRec)
        /\ Len(old) = Dist(t, h) /\ Len(new) = Dist(t, h) + 1 /\ Len(old) \in Nat
        /\ \A k \in 1 .. Dist(t, h) : new[k] = old[k]
        /\ new[Len(old) + 1] = Item(su[h])
    <2>1. \A k \in 1 .. Dist(t, h) : /\ Wrap(t + k - 1) \in Slots \ {h}
                                     /\ old[k] = Item(st[Wrap(t + k - 1)])
      BY BetweenSeq
    <2>2. /\ new \in Seq(ItemRec) /\ Len(new) = Dist(t, h) + 1
          /\ \A k \in 1 .. Dist(t, h) + 1 : new[k] = Item(su[Wrap(t + k - 1)])
      <3> PICK g \in Slots : g = Succ(h)
        BY <1>1
      <3> DEFINE from == Between(su, t, g)
      <3>1. /\ from \in Seq(ItemRec) /\ Len(from) = Dist(t, g)
            /\ \A k \in 1 .. Dist(t, g) : from[k] = Item(su[Wrap(t + k - 1)])
        <4>1. from \in Seq(ItemRec)
          BY BetweenSeq
        <4>2. Len(from) = Dist(t, g)
          BY BetweenSeq
        <4>3. \A k \in 1 .. Dist(t, g) : from[k] = Item(su[Wrap(t + k - 1)])
          BY DEF Between
        <4> HIDE DEF from
        <4> QED  BY <4>1, <4>2, <4>3
      <3>2. new = from /\ Dist(t, g) = Dist(t, h) + 1
        BY <1>1
      <3> HIDE DEF new, from
      <3> QED  BY <3>1, <3>2
    <2>3. old \in Seq(ItemRec) /\ Len(old) = Dist(t, h) /\ Dist(t, h) \in Nat
      <3>1. old \in Seq(ItemRec) /\ Len(old) = Dist(t, h)
        BY BetweenSeq, Zenon
      <3> HIDE DEF old
      <3> QED  BY <3>1, LenProperties
    <2>4. \A k \in 1 .. Dist(t, h) : new[k] = old[k]
      BY <2>1, <2>2, <2>3
    <2>5. new[Dist(t, h) + 1] = Item(su[h])
      BY <1>2, <2>2, <2>3
    <2>6. QED
      BY <2>2, <2>3, <2>4, <2>5
  <1>5. /\ Append(old, Item(su[h])) \in Seq(ItemRec)
        /\ Len(Append(old, Item(su[h]))) = Len(old) + 1
        /\ \A k \in 1 .. Len(old) + 1 :
              Append(old, Item(su[h]))[k] = IF k <= Len(old) THEN old[k] ELSE Item(su[h])
    <2> HIDE DEF old
    <2> QED  BY <1>3, <1>4
  <1>6. QED
    <2> HIDE DEF old, new
    <2>1. new = Append(old, Item(su[h]))
      BY <1>4, <1>5, SeqEqual
    <2>2. QED
      BY <2>1 DEF old, new

\* Without the block at the tail the others are left.
LEMMA BetweenTail ==
  ASSUME NEW st \in [Slots -> BlockRec], NEW su \in [Slots -> BlockRec],
         NEW t \in Slots, NEW h \in Slots, t # h,
         \A i \in Slots : i # t => su[i] = st[i]
  PROVE  /\ Between(st, t, h) # <<>>
         /\ Between(su, Succ(t), h) = Tail(Between(st, t, h))
  <1> DEFINE old == Between(st, t, h)
             new == Between(su, Succ(t), h)
  <1>1. Succ(t) \in Slots /\ Dist(t, h) = Dist(Succ(t), h) + 1
    BY DEF Succ, Wrap, Dist, Slots
  <1>2. \A k \in 1 .. Dist(Succ(t), h) : /\ Wrap(Succ(t) + k - 1) = Wrap(t + (k + 1) - 1)
                                         /\ Wrap(t + (k + 1) - 1) # t
    BY DEF Succ, Wrap, Dist, Slots
  <1>3. /\ old \in Seq(ItemRec) /\ new \in Seq(ItemRec)
        /\ Len(old) = Len(new) + 1 /\ Len(new) \in Nat
        /\ \A k \in 1 .. Len(new) : new[k] = old[k + 1]
    <2>1. /\ old \in Seq(ItemRec) /\ Len(old) = Dist(t, h)
          /\ \A k \in 1 .. Dist(t, h) : /\ Wrap(t + k - 1) \in Slots
                                        /\ old[k] = Item(st[Wrap(t + k - 1)])
      BY BetweenSeq
    <2>2. /\ new \in Seq(ItemRec) /\ Len(new) = Dist(Succ(t), h) /\ Dist(Succ(t), h) \in Nat
          /\ \A k \in 1 .. Dist(Succ(t), h) : new[k] = Item(su[Wrap(Succ(t) + k - 1)])
      BY <1>1, BetweenSeq
    <2>3. ASSUME NEW k \in 1 .. Dist(Succ(t), h)
          PROVE  new[k] = old[k + 1]
      <3>1. k + 1 \in 1 .. Dist(t, h)
        BY <1>1, <2>2
      <3>2. /\ Wrap(t + (k + 1) - 1) \in Slots
            /\ old[k + 1] = Item(st[Wrap(t + (k + 1) - 1)])
        BY <2>1, <3>1
      <3>3. QED
        BY <1>2, <2>2, <3>2
    <2>4. QED
      BY <1>1, <2>1, <2>2, <2>3
  <1>4. old # <<>>
    BY <1>3, EmptySeq
  <1>5. QED
    <2> HIDE DEF old, new
    <2>1. new = Tail(old)
      BY <1>3, <1>4, HeadTailProperties, SeqEqual
    <2>2. QED
      BY <1>4, <2>1 DEF old, new

\* A byte read from the tail block shows in front of the queue, and nowhere else.
LEMMA BetweenRead ==
  ASSUME NEW st \in [Slots -> BlockRec], NEW su \in [Slots -> BlockRec],
         NEW t \in Slots, NEW h \in Slots, t # h,
         \A i \in Slots : i # t => su[i] = st[i],
         su[t] = ReadOne(st[t])
  PROVE  /\ Between(st, t, h) # <<>>
         /\ Between(st, t, h)[1] = Item(st[t])
         /\ Between(su, t, h) = ReadFront(Between(st, t, h))
  <1>1. 1 \in 1 .. Dist(t, h) /\ Wrap(t + 1 - 1) = t
    BY DEF Dist, Wrap, Slots
  <1>2. Between(st, t, h)[1] = Item(st[t])
    BY <1>1 DEF Between
  <1>3. Between(st, t, h) # <<>>
    <2>1. Len(Between(st, t, h)) = Dist(t, h)
      BY BetweenSeq
    <2>2. Dist(t, h) # 0
      BY DEF Dist, Slots
    <2>3. QED
      BY <2>1, <2>2, EmptySeq
  <1>4. \A k \in 1 .. Dist(t, h) : k # 1 => Wrap(t + k - 1) # t
    BY DEF Dist, Wrap, Slots
  <1>5. /\ \A i \in Slots : i # t => su[i] = st[i]
        /\ Item(su[t]) = [Item(st[t]) EXCEPT !.read = @ + 1]
    BY DEF Item, BlockRec, ReadOne
  <1>6. \A k \in 1 .. Dist(t, h) :
           Item(su[Wrap(t + k - 1)]) = IF k = 1 THEN [Item(st[t]) EXCEPT !.read = @ + 1]
                                                ELSE Item(st[Wrap(t + k - 1)])
    BY <1>1, <1>4, <1>5, BetweenSeq
  <1>7. Between(su, t, h) = ReadFront(Between(st, t, h))
    BY <1>1, <1>6 DEF Between, ReadFront
  <1>8. QED
    BY <1>2, <1>3, <1>7

\* What an insert does to the queue: a block that is stored while there is room
\* joins it, one that is stored while the ring is full lies at the head, out of
\* reach, and one without memory only takes its number.
LEMMA InsertQueue ==
  ASSUME IInv, NEW len \in Lens, NEW ok \in BOOLEAN, Insert(len, ok)
  PROVE  Queue!Keep(len) \/ Queue!Lose
  <1> DEFINE new == IF ok THEN [data |-> born + 1, len |-> len, idx |-> 0,
                                pcb |-> pcb, conn |-> conn]
                          ELSE NoBlock
  <1>1. /\ store \in [Slots -> BlockRec] /\ head \in Slots /\ tail \in Slots
        /\ tail' = tail /\ born' = born + 1
    BY DEF IInv, TypeOK, Insert
  <1>2. store' \in [Slots -> BlockRec] /\ head' \in Slots
    BY InsertKeeps
  <1>3. /\ \A i \in Slots : i # head => store'[i] = store[i]
        /\ store'[head] = new
    BY <1>1 DEF Insert
  <1>4. Contents \in Seq(ItemRec) /\ Len(Contents) = Dist(tail, head)
    BY <1>1, BetweenSeq DEF Contents
  <1>5. CASE ok /\ Succ(head) # tail
    <2>1. head' = Succ(head) /\ Item(store'[head]) = [id |-> born + 1, len |-> len, read |-> 0]
      BY <1>3, <1>5 DEF Insert, NextHead, Item
    <2>2. Contents' = Append(Contents, [id |-> born + 1, len |-> len, read |-> 0])
      BY <1>1, <1>2, <1>3, <1>5, <2>1, BetweenAppend DEF Contents
    <2>3. Dist(tail, head) < MAX_PBUF_STORED - 1
      BY <1>1, <1>5 DEF Dist, Succ, Wrap, Slots
    <2>4. Queue!Keep(len)
      BY <1>1, <1>4, <2>2, <2>3 DEF Queue!Keep, Contents, Between, Item
    <2>5. QED
      BY <2>4
  <1>6. CASE ~ (ok /\ Succ(head) # tail)
    <2>1. head' = head
      BY <1>6 DEF Insert, NextHead
    <2>2. Contents' = Contents
      BY <1>1, <1>2, <1>3, <2>1, BetweenSame DEF Contents
    <2>3. Dist(tail, head) = MAX_PBUF_STORED - 1 \/ MayFail
      BY <1>1, <1>6 DEF Dist, Succ, Wrap, Slots, Insert
    <2>4. Queue!Lose
      BY <1>1, <1>4, <2>2, <2>3 DEF Queue!Lose, Contents, Between, Item
    <2>5. QED
      BY <2>4
  <1>7. QED
    BY <1>5, <1>6

\* The tail block is the packet in front: freeing it takes it out of the queue.
LEMMA AckAndFreeQueue ==
  ASSUME IInv, AckAndFree, IsBufAvail, UNCHANGED <<head, born, sock>>
  PROVE  Queue!ReadRest
  <1>1. /\ store \in [Slots -> BlockRec] /\ head \in Slots /\ tail \in Slots
        /\ tail # head
    BY DEF IInv, TypeOK, IsBufAvail
  <1>2. /\ store' \in [Slots -> BlockRec] /\ tail' = Succ(tail)
        /\ store' = [store EXCEPT ![tail] = NoBlock]
    BY AckAndFreeKeeps
  <1>3. \A i \in Slots : i # tail => store'[i] = store[i]
    BY <1>1, <1>2
  <1>4. Contents # <<>> /\ Contents' = Tail(Contents)
    BY <1>1, <1>2, <1>3, BetweenTail DEF Contents
  <1>5. QED
    BY <1>4 DEF Queue!ReadRest, Contents, Between, Item

\* A byte that is not the last one of the tail block is read from the packet in
\* front.
LEMMA ReadByteQueue ==
  ASSUME IInv, tail # head, store[tail].idx + 1 < store[tail].len,
         store' \in [Slots -> BlockRec],
         \A i \in Slots : i # tail => store'[i] = store[i],
         store'[tail] = ReadOne(store[tail]), UNCHANGED <<head, tail, born>>
  PROVE  Queue!ReadByte
  <1>1. store \in [Slots -> BlockRec] /\ head \in Slots /\ tail \in Slots
    BY DEF IInv, TypeOK
  <1>2. PICK t \in Slots, h \in Slots : t = tail /\ h = head
    BY <1>1
  <1>3. /\ Between(store, t, h) # <<>>
        /\ Between(store, t, h)[1] = Item(store[t])
        /\ Between(store', t, h) = ReadFront(Between(store, t, h))
    <2>1. /\ t # h /\ \A i \in Slots : i # t => store'[i] = store[i]
          /\ store'[t] = ReadOne(store[t])
      BY <1>2
    <2>2. QED
      BY <1>1, <2>1, BetweenRead
  <1>4. /\ Contents # <<>> /\ Contents[1] = Item(store[tail])
        /\ Contents' = [Contents EXCEPT ![1].read = @ + 1]
    BY <1>2, <1>3 DEF Contents, ReadFront
  <1>5. Contents[1].read + 1 < Contents[1].len
    BY <1>4 DEF Item
  <1>6. QED
    BY <1>4, <1>5 DEF Queue!ReadByte, Contents, Between, Item

\* Emptying the ring empties the queue.
LEMMA EmptiedQueue ==
  ASSUME IInv, NEW gone \in SUBSET Slots, Emptied(gone), UNCHANGED born
  PROVE  Queue!Empty
  <1>1. store' \in [Slots -> BlockRec] /\ head' \in Slots /\ tail' = head'
    BY DEF IInv, TypeOK, Emptied, NoBlock, BlockRec
  <1>2. Dist(tail', head') = 0
    <2>1. \A h \in Slots : Dist(h, h) = 0
      BY DEF Dist, Slots
    <2>2. QED
      BY <1>1, <2>1
  <1>3. Contents' \in Seq(ItemRec) /\ Len(Contents') = 0
    BY <1>1, <1>2, BetweenSeq DEF Contents
  <1>4. Contents' = <<>>
    BY <1>3, EmptySeq
  <1>5. QED
    BY <1>4 DEF Queue!Empty, Contents, Between, Item

\* Every step of the socket is a step of the queue, or none of its business.
LEMMA StepQueue == IInv /\ [Next]_vars => [Queue!Next]_(Queue!vars)
  <1> SUFFICES ASSUME IInv, [Next]_vars PROVE [Queue!Next]_(Queue!vars)
    OBVIOUS
  <1> USE DEF Queue!vars
  <1>1. ASSUME NEW len \in Lens, NEW ok \in BOOLEAN,
               RecvTcp(len, ok) \/ RecvUdp(len, ok) \/ InsertData(len, ok)
        PROVE  Queue!Next
    <2>1. Insert(len, ok)
      BY <1>1 DEF RecvTcp, RecvUdp, InsertData
    <2>2. QED
      BY <2>1, InsertQueue DEF Queue!Next
  <1>2. ASSUME AckAndFree, IsBufAvail, UNCHANGED <<head, born, sock>>
        PROVE  Queue!Next
    BY <1>2, AckAndFreeQueue DEF Queue!Next
  <1>3. ASSUME UNCHANGED <<store, head, tail, born>>
        PROVE  UNCHANGED Queue!vars
    BY <1>3 DEF Dist
  <1>4. ASSUME NEW peek \in BOOLEAN, GetData(peek)
        PROVE  Queue!Next \/ UNCHANGED Queue!vars
    <2>1. CASE AckAndFree
      BY <1>2, <1>4, <2>1 DEF GetData
    <2>2. CASE ~ AckAndFree
      <3>1. /\ store' = Advanced(peek) /\ UNCHANGED <<head, tail, born>>
            /\ store[tail].idx < store[tail].len /\ tail # head
            /\ peek \/ store[tail].idx + 1 # store[tail].len
        BY <1>4, <2>2 DEF GetData, IsBufAvail
      <3>2. CASE peek
        BY <1>3, <3>1, <3>2 DEF Advanced
      <3>3. CASE ~ peek
        <4>1. /\ store' \in [Slots -> BlockRec]
              /\ \A i \in Slots : i # tail => store'[i] = store[i]
              /\ store'[tail] = ReadOne(store[tail])
              /\ store[tail].idx + 1 < store[tail].len
          BY <3>1, <3>3 DEF IInv, TypeOK, BlockRec, Advanced, ReadOne
        <4>2. QED
          BY <3>1, <4>1, ReadByteQueue DEF Queue!Next
      <3>4. QED
        BY <3>2, <3>3
    <2>3. QED
      BY <2>1, <2>2
  <1>5. CASE GetDataBuf \/ ShowStatus
    BY <1>2, <1>5 DEF GetDataBuf, ShowStatus
  <1>6. ASSUME NEW gone \in SUBSET Slots, Emptied(gone), UNCHANGED born
        PROVE  Queue!Next
    BY <1>6, EmptiedQueue DEF Queue!Next
  <1>7. CASE SendUdp
    BY <1>6, <1>7 DEF SendUdp, ClearBuf
  <1>8. ASSUME NEW ok \in BOOLEAN, StartClient(ok)
        PROVE  Queue!Next \/ UNCHANGED Queue!vars
    <2>1. CASE tx
      BY <1>6, <1>8, <2>1 DEF StartClient, FreeAll
    <2>2. CASE ~ tx
      BY <1>3, <1>8, <2>2 DEF StartClient, ring
    <2>3. QED
      BY <2>1, <2>2
  <1>9. CASE StopClient
    BY <1>6, <1>9 DEF StopClient, FreeAll
  <1>10. CASE LoseClient \/ UNCHANGED vars
    BY <1>3, <1>10 DEF LoseClient, vars, ring
  <1>11. QED
    BY <1>1, <1>4, <1>5, <1>7, <1>8, <1>9, <1>10 DEF Next

\* The packet store of a socket is a bounded first-in first-out queue: whatever
\* insert, read, merge or stop does to the ring is one step of the queue.
THEOREM ImplementsQueueHolds == Spec => ImplementsQueue
  <1>1. Init => Queue!Init
    <2> SUFFICES ASSUME Init PROVE Queue!Init
      OBVIOUS
    <2>1. store \in [Slots -> BlockRec] /\ head \in Slots /\ tail \in Slots
      BY InitIInv DEF IInv, TypeOK
    <2>2. Dist(tail, head) = 0
      BY DEF Init, Dist
    <2>3. Contents \in Seq(ItemRec) /\ Len(Contents) = 0
      BY <2>1, <2>2, BetweenSeq DEF Contents
    <2>4. Contents = <<>>
      BY <2>3, EmptySeq
    <2>5. QED
      BY <2>4 DEF Init, Queue!Init, Contents, Between, Item
  <1>2. QED
    BY <1>1, StepQueue, Invariance, PTL DEF Spec, ImplementsQueue, Queue!Spec

=============================================================================
