-------------------------- MODULE TcpServer_proofs --------------------------
(***************************************************************************)
(* What holds of TcpServer for every number of blocks and of entries.      *)
(***************************************************************************)
EXTENDS TcpServer, TLAPS, FiniteSetTheorems, WellFoundedInduction

-----------------------------------------------------------------------------
(* The search round the table. *)

LEMMA HasLeast ==
    ASSUME NEW T, T \subseteq Nat, T # {}
    PROVE  \E n \in T : \A k \in T : n <= k
<1>1. PICK n \in T : \A k \in T : ~(<<k, n>> \in OpToRel(<, Nat))
    BY NatLessThanWellFounded, WFMin, Zenon
<1>2. ASSUME NEW k \in T PROVE n <= k
    <2>1. <<k, n>> \in Nat \X Nat
        OBVIOUS
    <2>2. ~(k < n)
        BY <1>1, <2>1, Zenon DEF OpToRel
    <2>3. QED
        BY <2>2
<1>3. QED
    BY <1>2

LEMMA TurnIsNat ==
    ASSUME NEW s \in Slots, currConnId \in Slots
    PROVE  Turn(s) \in Nat
<1>1. s - currConnId \in Int
    BY ClientsAssumption DEF Slots
<1>2. QED
    BY <1>1, ClientsAssumption DEF Turn

\* A search that can find something finds it.
LEMMA FirstIsOne ==
    ASSUME NEW S, S \subseteq Slots, S # {}, currConnId \in Slots
    PROVE  First(S) \in S
<1> DEFINE T == {Turn(s) : s \in S}
<1>1. T \subseteq Nat
    BY TurnIsNat
<1>2. T # {}
    OBVIOUS
<1>3. PICK n \in T : \A k \in T : n <= k
    <2> HIDE DEF T
    <2>1. QED
        BY <1>1, <1>2, HasLeast
<1>4. \E s \in S : \A t \in S : Turn(s) <= Turn(t)
    BY <1>3
<1>5. QED
    BY <1>4 DEF First

\* The entry that a search for p finds, when there is one.
LEMMA EntryOf ==
    ASSUME TypeOK, NEW p, SlotsOf(p) # {}
    PROVE  First(SlotsOf(p)) \in Slots /\ tpcb[First(SlotsOf(p))] = p
<1>1. First(SlotsOf(p)) \in SlotsOf(p)
    BY FirstIsOne DEF SlotsOf, TypeOK
<1>2. QED
    BY <1>1 DEF SlotsOf

-----------------------------------------------------------------------------
(* Types. *)

LEMMA CloseTypes ==
    ASSUME TypeOK, NEW p \in Pcbs, NEW st \in TcpStates, NEW mem \in BOOLEAN,
           CloseConn(p, st, mem)
    PROVE  /\ pool' \subseteq Pcbs /\ state' \in [Pcbs -> TcpStates]
           /\ arg' \subseteq Pcbs /\ errf' \subseteq Pcbs
           /\ tpcb' \in [Slots -> Pcbs \union {NULL}]
           /\ payload' \subseteq Slots /\ left' \subseteq Slots /\ pending_close' \subseteq Slots
<1>1. AfterClose(st) \in TcpStates
    BY DEF AfterClose, NeedsFin, TcpStates
<1>2. SlotsOf(p) # {} => First(SlotsOf(p)) \in Slots
    BY EntryOf
<1>3. CASE SlotsOf(p) = {}
    BY <1>3 DEF CloseConn, TypeOK
<1>4. CASE SlotsOf(p) # {}
    BY <1>1, <1>2, <1>4 DEF CloseConn, TypeOK
<1>5. QED
    BY <1>3, <1>4

LEMMA AbortTypes ==
    ASSUME TypeOK, NEW p, Aborted(p)
    PROVE  /\ tpcb' \in [Slots -> Pcbs \union {NULL}]
           /\ payload' \subseteq Slots
           /\ run' \in {"on", "wild", "hung"}
           /\ orderly' \in BOOLEAN
BY DEF Aborted, TypeOK

LEMMA TypeStep == TypeOK /\ [Next]_vars => TypeOK'
<1> SUFFICES ASSUME TypeOK, [Next]_vars PROVE TypeOK'
    OBVIOUS
<1> USE DEF TypeOK
<1>1. CASE UNCHANGED vars
    BY <1>1 DEF vars, lwip, table, server
<1>2. CASE Look
    <2>1. Taken \subseteq Slots
        BY DEF Taken
    <2>2. First(Taken) \in Slots
        BY <1>2, <2>1, FirstIsOne DEF Look
    <2>3. QED
        BY <1>2, <2>2 DEF Look, lwip, table, server
<1>3. CASE OtherLook
    BY <1>3 DEF OtherLook, lwip, table, server
<1>4. ASSUME NEW sent \in BOOLEAN, Write(sent) PROVE TypeOK'
    <2>1. Taken \subseteq Slots
        BY DEF Taken
    <2>2. First(Taken) \in Slots
        BY <1>4, <2>1, FirstIsOne DEF Write
    <2>3. QED
        BY <1>4, <2>2 DEF Write, lwip, server
<1>5. ASSUME NEW mem \in BOOLEAN, Stop(mem) PROVE TypeOK'
    <2> DEFINE p == tpcb[currConnId]
    <2>1. p \in Pcbs /\ state[p] \in TcpStates
        BY <1>5 DEF Stop
    <2>2. CASE p \in pool \/ state[p] = "OTHER"
        BY <1>5, <2>2 DEF Stop, lwip, table, server
    <2>3. CASE ~(p \in pool \/ state[p] = "OTHER")
        <3>1. CloseConn(p, state[p], mem)
                 /\ UNCHANGED <<run, currConnId, orderly, listening, mapped>>
            BY <1>5, <2>3 DEF Stop, server
        <3> HIDE DEF p
        <3>2. QED
            BY <2>1, <3>1, CloseTypes
    <2>4. QED
        BY <2>2, <2>3
<1>6. ASSUME NEW p \in Pcbs, Syn(p) PROVE TypeOK'
    BY <1>6 DEF Syn, TcpStates, table, server
<1>7. ASSUME NEW p \in Pcbs, AckFin(p) PROVE TypeOK'
    BY <1>7 DEF AckFin, Freed, TcpStates, table, server
<1>8. ASSUME NEW p \in Pcbs, PeerReset(p) PROVE TypeOK'
    BY <1>8 DEF PeerReset, Freed, TcpStates, table, server
<1>9. ASSUME NEW p \in Pcbs, Expire(p) PROVE TypeOK'
    BY <1>9, AbortTypes DEF Expire, Freed, server
<1>10. ASSUME NEW p \in Pcbs, TimeWaitOver(p) PROVE TypeOK'
    BY <1>10 DEF TimeWaitOver, Freed, table, server
<1>11. ASSUME NEW p \in Pcbs, PollAborts(p) PROVE TypeOK'
    BY <1>11, AbortTypes DEF PollAborts, Freed, TcpStates, server
<1>12. ASSUME NEW p \in Pcbs, DataSent(p) PROVE TypeOK'
    BY <1>12 DEF DataSent, lwip, server
<1>13. ASSUME NEW p \in Pcbs, OtherStart(p) PROVE TypeOK'
    <2>1. tpcb' \in [Slots -> Pcbs \union {NULL}] /\ payload' \subseteq Slots
              /\ run' \in {"on", "wild", "hung"} /\ orderly' \in BOOLEAN
        BY <1>13, AbortTypes DEF OtherStart, table
    <2>2. currConnId' \in Slots
        BY <1>13, ClientsAssumption DEF OtherStart, Slots
    <2>3. QED
        BY <1>13, <2>1, <2>2 DEF OtherStart, table, TcpStates, server
<1>14. ASSUME NEW p \in Pcbs, OtherEnds(p) PROVE TypeOK'
    BY <1>14 DEF OtherEnds, TcpStates, table, server
<1>15. ASSUME NEW p \in Pcbs, NEW sent \in BOOLEAN, NEW mem \in BOOLEAN, Poll(p, sent, mem)
       PROVE  TypeOK'
    <2>1. First(SlotsOf(p)) \in Slots
        BY <1>15, EntryOf DEF Poll
    <2>2. AfterClose(state[p]) \in TcpStates
        BY DEF AfterClose, NeedsFin, TcpStates
    <2>3. QED
        BY <1>15, <2>1, <2>2 DEF Poll, server
<1>16. ASSUME NEW p \in Pcbs, NEW malloc \in BOOLEAN, Accept(p, malloc) PROVE TypeOK'
    <2> DEFINE Places == SlotsOf(p) \union SlotsOf(NULL)
               id == First(Places)
    <2>1. Places # {} => id \in Slots
        BY FirstIsOne DEF SlotsOf
    <2>2. CASE ~(p \in arg /\ Places # {} /\ id \notin payload)
        BY <1>16, <2>2 DEF Accept, TcpStates, table
    <2>3. CASE p \in arg /\ Places # {} /\ id \notin payload
        BY <1>16, <2>1, <2>3 DEF Accept, Freed, TcpStates
    <2>4. QED
        BY <2>2, <2>3
<1>17. ASSUME NEW p \in Pcbs, NEW mem \in BOOLEAN, PeerFin(p, mem) PROVE TypeOK'
    <2>1. PICK st \in AfterFin(state[p]) :
              \/ CloseConn(p, st, mem)
              \/ /\ state' = [state EXCEPT ![p] = st]
                 /\ UNCHANGED <<pool, arg, errf, table>>
        BY <1>17 DEF PeerFin
    <2>2. st \in TcpStates
        BY <2>1 DEF AfterFin, TcpStates
    <2>3. UNCHANGED <<currConnId, run, orderly, listening, mapped>>
        BY <1>17 DEF PeerFin, server
    <2>4. CASE CloseConn(p, st, mem)
        BY <2>2, <2>3, <2>4, CloseTypes
    <2>5. CASE state' = [state EXCEPT ![p] = st] /\ UNCHANGED <<pool, arg, errf, table>>
        BY <2>2, <2>3, <2>5 DEF table
    <2>6. QED
        BY <2>1, <2>4, <2>5
<1>18. CASE AskFreed
    BY <1>18 DEF AskFreed, lwip, table, server
<1>19. CASE End
    BY <1>19 DEF End, TcpStates
<1>20. ASSUME NEW p \in Pcbs, Begin(p) PROVE TypeOK'
    <2>1. tpcb' \in [Slots -> Pcbs \union {NULL}] /\ payload' \subseteq Slots
              /\ run' \in {"on", "wild", "hung"} /\ orderly' \in BOOLEAN
        BY <1>20, AbortTypes DEF Begin
    <2>2. currConnId' \in Slots
        BY <1>20, ClientsAssumption DEF Begin, Slots
    <2>3. QED
        BY <1>20, <2>1, <2>2 DEF Begin, Freed, TcpStates
<1>21. QED
    BY <1>1, <1>2, <1>3, <1>4, <1>5, <1>6, <1>7, <1>8, <1>9, <1>10, <1>11, <1>12,
       <1>13, <1>14, <1>15, <1>16, <1>17, <1>18, <1>19, <1>20 DEF Next

\* Every variable has its type, for any number of blocks and of entries.
THEOREM TypeCorrect == Spec => []TypeOK
<1>1. Init => TypeOK
    BY ClientsAssumption DEF Init, TypeOK, Slots, TcpStates
<1>2. QED
    BY <1>1, TypeStep, PTL DEF Spec

-----------------------------------------------------------------------------
(* The table, as long as no connection error was reported. *)

\* What the three conjuncts of the properties say, and that lwIP reports an
\* error of every open client, which ends the orderly part of a run.
Good ==
    /\ \A s \in Slots : tpcb[s] # NULL => Open(tpcb[s])
    /\ \A p \in Pcbs : Open(p) => \E s \in Slots : tpcb[s] = p
    /\ \A s, t \in Slots : tpcb[s] # NULL /\ tpcb[s] = tpcb[t] => s = t
    /\ \A s \in Slots : s \in payload <=> tpcb[s] # NULL
    /\ \A s \in pending_close : tpcb[s] # NULL
    /\ \A p \in Pcbs : Open(p) => p \in arg /\ p \in errf
    /\ run # "hung"

IInv == TypeOK /\ (orderly => Good)

\* A block that is not open is in no entry.
LEMMA NotOpen ==
    ASSUME TypeOK, Good, NEW p \in Pcbs, ~Open(p)
    PROVE  SlotsOf(p) = {}
BY BlocksAssumption DEF Good, SlotsOf

LEMMA IsOpen ==
    ASSUME TypeOK, Good, NEW p \in Pcbs, Open(p)
    PROVE  SlotsOf(p) # {}
BY DEF Good, SlotsOf

\* A change of blocks that are not open, and stay so, disturbs nothing.
LEMMA Aside ==
    ASSUME TypeOK, Good, NEW p \in Pcbs, ~Open(p), ~Open(p)',
           \A q \in Pcbs : q # p => /\ q \in pool' <=> q \in pool
                                    /\ state'[q] = state[q]
                                    /\ q \in arg' <=> q \in arg
                                    /\ q \in errf' <=> q \in errf,
           UNCHANGED <<tpcb, payload, pending_close>>, run' # "hung"
    PROVE  Good'
<1>1. \A q \in Pcbs : Open(q)' <=> Open(q)
    BY DEF Open
<1>2. \A q \in Pcbs : Open(q)' => q \in arg' /\ q \in errf'
    BY <1>1 DEF Good, Open
<1>3. \A s \in Slots : tpcb[s] # NULL => tpcb[s] \in Pcbs
    BY DEF TypeOK
<1>4. QED
    BY <1>1, <1>2, <1>3 DEF Good

\* A client leaves the table when it stops being open.
LEMMA Removed ==
    ASSUME TypeOK, Good, NEW p \in Pcbs, NEW id \in Slots, tpcb[id] = p,
           NEW st, st \notin {"ESTABLISHED", "CLOSE_WAIT"},
           state' = [state EXCEPT ![p] = st],
           arg' = arg \/ arg' = arg \ {p},
           tpcb' = [tpcb EXCEPT ![id] = NULL],
           payload' = payload \ {id},
           pending_close' = pending_close \ {id},
           UNCHANGED <<pool, errf>>, UNCHANGED run
    PROVE  Good'
<1>1. ~Open(p)' /\ \A q \in Pcbs : q # p => (Open(q)' <=> Open(q))
    BY DEF Open, TypeOK
<1>2. p # NULL
    BY BlocksAssumption
<1>3. \A s \in Slots : tpcb'[s] = IF s = id THEN NULL ELSE tpcb[s]
    BY DEF TypeOK
<1>4. \A s \in Slots : tpcb[s] # NULL => tpcb[s] \in Pcbs
    BY DEF TypeOK
<1>5. \A s \in Slots : tpcb[s] = p => s = id
    BY <1>2 DEF Good
<1>6. \A s \in Slots : tpcb'[s] # NULL => Open(tpcb[s])'
    <2> SUFFICES ASSUME NEW s \in Slots, tpcb'[s] # NULL PROVE Open(tpcb[s])'
        OBVIOUS
    <2>1. s # id /\ tpcb'[s] = tpcb[s]
        BY <1>3
    <2>2. tpcb[s] \in Pcbs /\ tpcb[s] # p
        BY <1>4, <1>5, <2>1
    <2>3. Open(tpcb[s])
        BY <2>1 DEF Good
    <2>4. QED
        BY <1>1, <2>1, <2>2, <2>3 DEF Open
<1>7. \A q \in Pcbs : Open(q)' => \E s \in Slots : tpcb'[s] = q
    BY <1>1, <1>3 DEF Good
<1>8. \A s, t \in Slots : tpcb'[s] # NULL /\ tpcb'[s] = tpcb'[t] => s = t
    BY <1>3 DEF Good
<1>9. \A s \in Slots : s \in payload' <=> tpcb'[s] # NULL
    BY <1>3 DEF Good
<1>10. \A s \in pending_close' : tpcb'[s] # NULL
    BY <1>3 DEF Good, TypeOK
<1>11. \A q \in Pcbs : Open(q)' => q \in arg' /\ q \in errf'
    BY <1>1 DEF Good
<1>12. run' # "hung"
    BY DEF Good
<1>13. QED
    BY <1>6, <1>7, <1>8, <1>9, <1>10, <1>11, <1>12 DEF Good

\* A close, whether it is done or put off.
LEMMA CloseGood ==
    ASSUME TypeOK, Good, NEW p \in Pcbs, NEW st \in TcpStates, NEW mem \in BOOLEAN,
           p \notin pool,
           Open(p) <=> st \in {"ESTABLISHED", "CLOSE_WAIT"},
           CloseConn(p, st, mem), UNCHANGED run
    PROVE  Good'
<1>1. CASE ~Open(p)
    <2>1. SlotsOf(p) = {}
        BY <1>1, NotOpen
    <2>2. /\ state' = [state EXCEPT ![p] = st]
          /\ UNCHANGED <<pool, errf, arg, tpcb, payload, pending_close>>
        BY <2>1 DEF CloseConn
    <2>3. ~Open(p)'
        BY <1>1, <2>2 DEF Open, TypeOK
    <2>4. \A q \in Pcbs : q # p => state'[q] = state[q]
        BY <2>2 DEF TypeOK
    <2>5. run' # "hung"
        BY DEF Good
    <2>6. QED
        BY <1>1, <2>2, <2>3, <2>4, <2>5, Aside
<1>2. CASE Open(p)
    <2> DEFINE id == First(SlotsOf(p))
    <2>1. id \in Slots /\ tpcb[id] = p
        BY <1>2, IsOpen, EntryOf
    <2>2. st \in {"ESTABLISHED", "CLOSE_WAIT"} /\ st \in NeedsFin
        BY <1>2 DEF NeedsFin
    <2>3. SlotsOf(p) # {}
        BY <1>2, IsOpen
    <2> HIDE DEF id
    <2>4. CASE ~mem
        <3>1. /\ state' = [state EXCEPT ![p] = st]
              /\ pending_close' = pending_close \union {id}
              /\ UNCHANGED <<pool, errf, arg, tpcb, payload>>
            BY <2>2, <2>3, <2>4 DEF CloseConn, id
        <3>2. \A q \in Pcbs : Open(q)' <=> Open(q)
            BY <1>2, <2>2, <3>1 DEF Open, TypeOK
        <3>3. p # NULL
            BY BlocksAssumption
        <3>4. \A s \in pending_close' : tpcb'[s] # NULL
            BY <2>1, <3>1, <3>3 DEF Good
        <3>5. \A s \in Slots : tpcb[s] # NULL => tpcb[s] \in Pcbs
            BY DEF TypeOK
        <3>6. QED
            BY <3>1, <3>2, <3>4, <3>5 DEF Good
    <2>5. CASE mem
        <3>1. /\ state' = [state EXCEPT ![p] = AfterClose(st)]
              /\ arg' = arg \ {p}
              /\ tpcb' = [tpcb EXCEPT ![id] = NULL]
              /\ payload' = payload \ {id}
              /\ pending_close' = pending_close \ {id}
              /\ UNCHANGED <<pool, errf>>
            BY <2>2, <2>3, <2>5 DEF CloseConn, id
        <3>2. AfterClose(st) \notin {"ESTABLISHED", "CLOSE_WAIT"}
            BY <2>2 DEF AfterClose, NeedsFin
        <3>3. QED
            BY <2>1, <3>1, <3>2, Removed
    <2>6. QED
        BY <2>4, <2>5
<1>3. QED
    BY <1>1, <1>2

\* There are as many entries as blocks, so a new client finds an empty one.
LEMMA PlaceFound ==
    ASSUME TypeOK, Good, NEW p \in Pcbs, ~Open(p)
    PROVE  \E s \in Slots : tpcb[s] = NULL
<1> SUFFICES ASSUME \A s \in Slots : tpcb[s] # NULL PROVE FALSE
    OBVIOUS
<1>1. tpcb \in [Slots -> Pcbs \ {p}]
    BY DEF TypeOK, Good
<1>2. IsFiniteSet(Slots) /\ Cardinality(Slots) = MAX_CLIENT_ACCEPTED
    <2>1. MAX_CLIENT_ACCEPTED - 1 \in Int /\ 0 \in Int
        BY ClientsAssumption
    <2>2. IsFiniteSet(0 .. (MAX_CLIENT_ACCEPTED - 1))
             /\ Cardinality(0 .. (MAX_CLIENT_ACCEPTED - 1))
                    = IF 0 > MAX_CLIENT_ACCEPTED - 1 THEN 0 ELSE (MAX_CLIENT_ACCEPTED - 1) - 0 + 1
        BY <2>1, FS_Interval
    <2>3. QED
        BY <2>2, ClientsAssumption DEF Slots
<1>3. IsFiniteSet(Pcbs \ {p}) /\ Cardinality(Pcbs \ {p}) = Cardinality(Pcbs) - 1
    BY EnoughEntries, FS_RemoveElement
<1>4. Cardinality(Pcbs) \in Nat
    BY EnoughEntries, FS_CardinalityType
<1>5. Cardinality(Pcbs \ {p}) < Cardinality(Slots)
    BY <1>2, <1>3, <1>4, EnoughEntries, ClientsAssumption
<1>6. \E s, t \in Slots : s # t /\ tpcb[s] = tpcb[t]
    BY <1>1, <1>2, <1>3, <1>5, FS_PigeonHole
<1>7. QED
    BY <1>6 DEF Good

\* An error that leaves the run orderly is of a block that is not open, and
\* nobody hears of it.
LEMMA QuietAbort ==
    ASSUME Good, NEW p \in Pcbs, Aborted(p), orderly'
    PROVE  ~Open(p) /\ UNCHANGED <<tpcb, payload, run>>
BY DEF Aborted, Good

LEMMA AcceptGood ==
    ASSUME TypeOK, Good, NEW p \in Pcbs, NEW malloc \in BOOLEAN, Accept(p, malloc), orderly'
    PROVE  Good'
<1> DEFINE Places == SlotsOf(p) \union SlotsOf(NULL)
           id == First(Places)
<1>1. ~Open(p) /\ p \notin pool
    BY DEF Accept, ActivePcbs, Open
<1>2. SlotsOf(p) = {}
    BY <1>1, NotOpen
<1>3. Places # {}
    BY <1>1, PlaceFound DEF SlotsOf
<1>4. id \in Slots /\ tpcb[id] = NULL
    <2>1. id \in Places
        BY <1>3, FirstIsOne DEF SlotsOf, TypeOK
    <2>2. QED
        BY <1>2, <2>1 DEF SlotsOf
<1>5. id \notin payload
    BY <1>4 DEF Good
<1>6. /\ tpcb' = [tpcb EXCEPT ![id] = p]
      /\ state' = [state EXCEPT ![p] = "ESTABLISHED"]
      /\ payload' = payload \union {id}
      /\ errf' = errf \union {p}
      /\ p \in arg
      /\ UNCHANGED <<pool, arg, pending_close, run>>
    BY <1>3, <1>5 DEF Accept
<1> HIDE DEF id
<1>7. Open(p)' /\ \A q \in Pcbs : q # p => (Open(q)' <=> Open(q))
    BY <1>1, <1>6 DEF Open, TypeOK
<1>8. \A s \in Slots : tpcb'[s] = IF s = id THEN p ELSE tpcb[s]
    BY <1>6 DEF TypeOK
<1>9. \A s \in Slots : tpcb[s] # p
    BY <1>2 DEF SlotsOf
<1>10. p # NULL
    BY BlocksAssumption
<1>11. \A s \in Slots : tpcb[s] # NULL => tpcb[s] \in Pcbs
    BY DEF TypeOK
<1>12. \A s \in Slots : tpcb'[s] # NULL => Open(tpcb[s])'
    <2> SUFFICES ASSUME NEW s \in Slots, tpcb'[s] # NULL PROVE Open(tpcb[s])'
        OBVIOUS
    <2>1. CASE s = id
        BY <1>7, <1>8, <2>1 DEF Open
    <2>2. CASE s # id
        <3>1. tpcb'[s] = tpcb[s] /\ tpcb[s] \in Pcbs /\ tpcb[s] # p /\ Open(tpcb[s])
            BY <1>8, <1>9, <1>11, <2>2 DEF Good
        <3>2. QED
            BY <1>7, <3>1 DEF Open
    <2>3. QED
        BY <2>1, <2>2
<1>13. \A q \in Pcbs : Open(q)' => \E s \in Slots : tpcb'[s] = q
    <2> SUFFICES ASSUME NEW q \in Pcbs, Open(q)' PROVE \E s \in Slots : tpcb'[s] = q
        OBVIOUS
    <2>1. CASE q = p
        BY <1>4, <1>8, <2>1
    <2>2. CASE q # p
        <3>1. PICK s \in Slots : tpcb[s] = q
            BY <1>7, <2>2 DEF Good
        <3>2. q # NULL
            BY BlocksAssumption
        <3>3. tpcb'[s] = q
            BY <1>4, <1>8, <3>1, <3>2
        <3>4. QED
            BY <3>3
    <2>3. QED
        BY <2>1, <2>2
<1>14. \A s, t \in Slots : tpcb'[s] # NULL /\ tpcb'[s] = tpcb'[t] => s = t
    BY <1>8, <1>9 DEF Good
<1>15. \A s \in Slots : s \in payload' <=> tpcb'[s] # NULL
    BY <1>4, <1>6, <1>8, <1>10 DEF Good
<1>16. \A s \in pending_close' : tpcb'[s] # NULL
    BY <1>6, <1>8, <1>10 DEF Good, TypeOK
<1>17. \A q \in Pcbs : Open(q)' => q \in arg' /\ q \in errf'
    BY <1>6, <1>7 DEF Good
<1>18. run' # "hung"
    BY <1>6 DEF Good
<1>19. QED
    BY <1>12, <1>13, <1>14, <1>15, <1>16, <1>17, <1>18 DEF Good

LEMMA PollGood ==
    ASSUME TypeOK, Good, NEW p \in Pcbs, NEW sent \in BOOLEAN, NEW mem \in BOOLEAN,
           Poll(p, sent, mem)
    PROVE  Good'
<1> DEFINE id == First(SlotsOf(p))
           closes == id \in pending_close /\ (state[p] \in NeedsFin => mem)
<1>1. id \in Slots /\ tpcb[id] = p
    BY EntryOf DEF Poll
<1>2. CASE ~closes
    <2>1. UNCHANGED <<state, pending_close, payload, tpcb, pool, arg, errf, run>>
        BY <1>2 DEF Poll, TypeOK
    <2>2. QED
        BY <2>1 DEF Good, Open
<1>3. CASE closes
    <2>1. /\ state' = [state EXCEPT ![p] = AfterClose(state[p])]
          /\ tpcb' = [tpcb EXCEPT ![id] = NULL]
          /\ payload' = payload \ {id}
          /\ pending_close' = pending_close \ {id}
          /\ UNCHANGED <<pool, arg, errf, run>>
        BY <1>3 DEF Poll
    <2>2. AfterClose(state[p]) \notin {"ESTABLISHED", "CLOSE_WAIT"}
        BY DEF AfterClose, NeedsFin
    <2> HIDE DEF id, closes
    <2>3. QED
        BY <1>1, <2>1, <2>2, Removed
<1>4. QED
    BY <1>2, <1>3

LEMMA FinGood ==
    ASSUME TypeOK, Good, NEW p \in Pcbs, NEW mem \in BOOLEAN, PeerFin(p, mem)
    PROVE  Good'
<1>1. p \notin pool
    BY DEF PeerFin, ActivePcbs
<1>2. PICK st \in AfterFin(state[p]) :
          \/ p \in arg /\ CloseConn(p, st, mem)
          \/ /\ p \notin arg
             /\ state' = [state EXCEPT ![p] = st]
             /\ UNCHANGED <<pool, arg, errf, table>>
    BY DEF PeerFin
<1>3. /\ st \in TcpStates
      /\ Open(p) <=> st \in {"ESTABLISHED", "CLOSE_WAIT"}
    BY <1>1, <1>2 DEF AfterFin, TcpStates, Open, ActivePcbs, PeerFin
<1>4. UNCHANGED run
    BY DEF PeerFin
<1>5. CASE CloseConn(p, st, mem)
    BY <1>1, <1>3, <1>4, <1>5, CloseGood
<1>6. CASE /\ p \notin arg
           /\ state' = [state EXCEPT ![p] = st]
           /\ UNCHANGED <<pool, arg, errf, table>>
    <2>1. ~Open(p) /\ ~Open(p)'
        BY <1>3, <1>6 DEF Good, Open, TypeOK
    <2>2. \A q \in Pcbs : q # p => state'[q] = state[q]
        BY <1>6 DEF TypeOK
    <2>3. run' # "hung"
        BY <1>4 DEF Good
    <2>4. QED
        BY <1>6, <2>1, <2>2, <2>3, Aside DEF table
<1>7. QED
    BY <1>2, <1>5, <1>6

LEMMA GoodStep ==
    ASSUME TypeOK, Good, [Next]_vars, orderly'
    PROVE  Good'
<1> USE DEF TypeOK
<1>1. CASE UNCHANGED vars
    BY <1>1 DEF vars, lwip, table, Good, Open
<1>2. CASE Look \/ OtherLook
    BY <1>2 DEF Look, OtherLook, lwip, table, Good, Open
<1>3. ASSUME NEW sent \in BOOLEAN, Write(sent) PROVE Good'
    <2>1. UNCHANGED <<lwip, tpcb, payload, pending_close>> /\ run' # "hung"
        BY <1>3 DEF Write, Good
    <2>2. QED
        BY <2>1 DEF lwip, Good, Open
<1>4. ASSUME NEW mem \in BOOLEAN, Stop(mem) PROVE Good'
    <2> DEFINE p == tpcb[currConnId]
    <2>1. p \in Pcbs /\ Open(p)
        BY <1>4 DEF Stop, Good
    <2>2. CloseConn(p, state[p], mem) /\ UNCHANGED run
        BY <1>4, <2>1 DEF Stop, Open
    <2>3. state[p] \in TcpStates /\ p \notin pool /\ state[p] \in {"ESTABLISHED", "CLOSE_WAIT"}
        BY <2>1 DEF Open
    <2> HIDE DEF p
    <2>4. QED
        BY <2>1, <2>2, <2>3, CloseGood
<1>5. ASSUME NEW p \in Pcbs, Syn(p) PROVE Good'
    <2>1. ~Open(p) /\ ~Open(p)'
        BY <1>5 DEF Syn, Spare, TimeWaitPcbs, Open
    <2>2. QED
        BY <1>5, <2>1, Aside DEF Syn, table, Good
<1>6. ASSUME NEW p \in Pcbs, AckFin(p) PROVE Good'
    <2>1. ~Open(p) /\ ~Open(p)'
        BY <1>6 DEF AckFin, Open
    <2>2. QED
        BY <1>6, <2>1, Aside DEF AckFin, Freed, table, Good
<1>7. ASSUME NEW p \in Pcbs, PeerReset(p) PROVE Good'
    <2>1. SlotsOf(p) = {}
        BY <1>7 DEF PeerReset
    <2>2. ~Open(p)
        BY <2>1, IsOpen
    <2>3. ~Open(p)'
        BY <1>7 DEF PeerReset, Freed, Open
    <2>4. QED
        BY <1>7, <2>2, <2>3, Aside DEF PeerReset, Freed, table, Good
<1>8. ASSUME NEW p \in Pcbs, Expire(p) PROVE Good'
    <2>1. ~Open(p) /\ UNCHANGED <<tpcb, payload, run>>
        BY <1>8, QuietAbort DEF Expire
    <2>2. ~Open(p)'
        BY <1>8 DEF Expire, Freed, Open
    <2>3. QED
        BY <1>8, <2>1, <2>2, Aside DEF Expire, Freed, Good
<1>9. ASSUME NEW p \in Pcbs, TimeWaitOver(p) PROVE Good'
    <2>1. ~Open(p) /\ ~Open(p)'
        BY <1>9 DEF TimeWaitOver, TimeWaitPcbs, Freed, Open
    <2>2. QED
        BY <1>9, <2>1, Aside DEF TimeWaitOver, Freed, table, Good
<1>10. ASSUME NEW p \in Pcbs, PollAborts(p) PROVE Good'
    BY <1>10 DEF PollAborts, Aborted
<1>11. ASSUME NEW p \in Pcbs, DataSent(p) PROVE Good'
    BY <1>11 DEF DataSent, lwip, Good, Open
<1>12. ASSUME NEW p \in Pcbs, OtherStart(p) PROVE Good'
    <2>1. ~Open(p) /\ UNCHANGED <<tpcb, payload, pending_close, run>>
        <3>1. CASE p \in Spare /\ UNCHANGED <<table, run, orderly>>
            BY <3>1 DEF Spare, TimeWaitPcbs, Open, table
        <3>2. CASE Aborted(p) /\ UNCHANGED <<left, pending_close>>
            BY <3>2, QuietAbort
        <3>3. QED
            BY <1>12, <3>1, <3>2 DEF OtherStart
    <2>2. ~Open(p)'
        BY <1>12 DEF OtherStart, Open
    <2>3. QED
        BY <1>12, <2>1, <2>2, Aside DEF OtherStart, Good
<1>13. ASSUME NEW p \in Pcbs, OtherEnds(p) PROVE Good'
    <2>1. ~Open(p) /\ ~Open(p)'
        BY <1>13 DEF OtherEnds, Open
    <2>2. QED
        BY <1>13, <2>1, Aside DEF OtherEnds, table, Good
<1>14. ~AskFreed
    BY DEF AskFreed
<1>15. CASE End
    <2>1. \A p \in Pcbs : ~Open(p)'
        <3>1. SUFFICES ASSUME NEW p \in Pcbs PROVE ~Open(p)'
            OBVIOUS
        <3>2. Open(p) => SlotsOf(p) # {}
            BY IsOpen
        <3>3. pool' = pool /\ state'[p] = IF SlotsOf(p) # {} /\ Open(p) THEN "OTHER" ELSE state[p]
            BY <1>15 DEF End
        <3>4. QED
            BY <3>2, <3>3 DEF Open
    <2>2. /\ \A s \in Slots : tpcb'[s] = NULL
          /\ payload' = {} /\ pending_close' = {}
        BY <1>15 DEF End
    <2>3. run' # "hung"
        BY <1>15 DEF End, Good
    <2>4. QED
        BY <2>1, <2>2, <2>3 DEF Good
<1>16. ASSUME NEW p \in Pcbs, Begin(p) PROVE Good'
    <2>1. ~Open(p) /\ UNCHANGED <<tpcb, payload, run>>
        <3>1. CASE p \in Spare /\ UNCHANGED <<tpcb, payload, run, orderly>>
            BY <3>1 DEF Spare, TimeWaitPcbs, Open
        <3>2. CASE Aborted(p)
            BY <3>2, QuietAbort
        <3>3. QED
            BY <1>16, <3>1, <3>2 DEF Begin
    <2>2. ~Open(p)'
        BY <1>16 DEF Begin, Open
    <2>3. QED
        BY <1>16, <2>1, <2>2, Aside DEF Begin, Freed, Good
<1>17. QED
    BY <1>1, <1>2, <1>3, <1>4, <1>5, <1>6, <1>7, <1>8, <1>9, <1>10, <1>11, <1>12, <1>13,
       <1>14, <1>15, <1>16, PollGood, AcceptGood, FinGood DEF Next

\* An error once reported stays reported.
LEMMA OrderlyBefore ==
    ASSUME TypeOK, [Next]_vars, orderly'
    PROVE  orderly
<1>1. ASSUME NEW p, Aborted(p) PROVE orderly
    BY <1>1 DEF Aborted
<1>2. CASE UNCHANGED vars
    BY <1>2 DEF vars
<1>3. CASE Look \/ OtherLook \/ AskFreed \/ End \/ \E yes \in BOOLEAN : Write(yes) \/ Stop(yes)
    BY <1>3 DEF Look, OtherLook, AskFreed, End, Write, Stop
<1>4. ASSUME NEW p \in Pcbs,
             \/ Syn(p) \/ AckFin(p) \/ PeerReset(p) \/ Expire(p) \/ TimeWaitOver(p)
             \/ PollAborts(p) \/ DataSent(p) \/ OtherStart(p) \/ OtherEnds(p)
             \/ Begin(p)
      PROVE  orderly
    BY <1>1, <1>4 DEF Syn, AckFin, PeerReset, Expire, TimeWaitOver, PollAborts, DataSent,
       OtherStart, OtherEnds, Begin
<1>5. ASSUME NEW p \in Pcbs, NEW yes \in BOOLEAN, NEW mem \in BOOLEAN,
             Poll(p, yes, mem) \/ Accept(p, yes) \/ PeerFin(p, yes)
      PROVE  orderly
    BY <1>5 DEF Poll, Accept, PeerFin
<1>6. QED
    BY <1>2, <1>3, <1>4, <1>5 DEF Next

THEOREM Invariant == Spec => []IInv
<1>1. Init => IInv
    <2>1. Init => TypeOK
        BY ClientsAssumption DEF Init, TypeOK, Slots, TcpStates
    <2>2. Init => Good
        BY BlocksAssumption DEF Init, Good, Open
    <2>3. QED
        BY <2>1, <2>2 DEF IInv
<1>2. IInv /\ [Next]_vars => IInv'
    BY TypeStep, GoodStep, OrderlyBefore DEF IInv
<1>3. QED
    BY <1>1, <1>2, PTL DEF Spec

\* As long as no connection error was reported the table holds exactly the open
\* clients, each once, for any number of entries and at most as many blocks.
THEOREM TableExactHolds == Spec => []TableExact
<1>1. IInv => TableExact
    BY DEF IInv, Good, TableExact, Taken, SlotsOf
<1>2. QED
    BY <1>1, Invariant, PTL

\* As long as no connection error was reported an empty entry holds nothing of the
\* client before, and the assertion of atcp_accept_cb holds.
THEOREM EmptyIsCleanHolds == Spec => []EmptyIsClean
<1>1. IInv => EmptyIsClean
    BY DEF IInv, TypeOK, Good, EmptyIsClean, Taken
<1>2. QED
    BY <1>1, Invariant, PTL
=============================================================================
