------------------------------ MODULE TcpServer ------------------------------
(***************************************************************************)
(* The listening TCP socket of the shield (ard_tcp.c) on lwIP: the table   *)
(* of accepted clients (tpcb, payload, left, pending_close, and the global *)
(* currConnId that says whose turn it is), the pool of connection control  *)
(* blocks it shares with the other sockets, and the life of each block.    *)
(* The server ends with the interface and may be started again; its        *)
(* clients are not closed then, and two kinds of pointer to it are left:   *)
(* those of half-open connections, and the one of its socket.              *)
(*                                                                         *)
(* Abstracted: segments, windows and sequence numbers; a block taken from  *)
(* the pool is any free one; "the oldest" connection is any; left is       *)
(* whether bytes of the host's last write are not handed to lwIP yet, and  *)
(* tcp_poll_retries, which counts polls with left set, is any count.       *)
(***************************************************************************)
EXTENDS Integers, FiniteSets

CONSTANTS Pcbs,                \* MEMP_NUM_TCP_PCB connection control blocks
          NULL,
          MAX_CLIENT_ACCEPTED

ASSUME BlocksAssumption == NULL \notin Pcbs
ASSUME ClientsAssumption == MAX_CLIENT_ACCEPTED \in Nat \ {0}

\* lwipopts.h and ard_tcp.h say 4 and 4.
ASSUME EnoughEntries == IsFiniteSet(Pcbs) /\ Cardinality(Pcbs) <= MAX_CLIENT_ACCEPTED

VARIABLES
    pool,           \* the free blocks
    state,          \* the state field of each block; a freed block keeps it
    arg,            \* the blocks whose callback_arg is this server's ttcp
    errf,           \* the blocks with this server's callbacks
    tpcb,           \* the table of clients
    payload,        \* the entries with a buffer
    left,           \* the entries with bytes not handed to lwIP
    pending_close,  \* the entries to be closed by atcp_poll
    currConnId,
    listening,      \* the server runs
    mapped,         \* mapSockTCP[sock][TTCP_MODE_TRANSMIT]: nothing, this server, or a freed one
    run,            \* "on"; "hung" in a failed ASSERT; "wild" after following a bad pointer
    orderly         \* so far no connection error was reported, no accept failed, and no
                    \* pointer to a freed server was followed

lwip == <<pool, state, arg, errf>>
table == <<tpcb, payload, left, pending_close>>
server == <<listening, mapped>>
vars == <<lwip, table, server, currConnId, run, orderly>>

Slots == 0 .. (MAX_CLIENT_ACCEPTED - 1)

TcpStates == {"CLOSED", "SYN_RCVD", "ESTABLISHED", "CLOSE_WAIT", "FIN_WAIT_1",
              "FIN_WAIT_2", "CLOSING", "LAST_ACK", "TIME_WAIT", "OTHER"}

Init ==
    /\ pool = Pcbs
    /\ state = [p \in Pcbs |-> "CLOSED"]
    /\ arg = {} /\ errf = {}
    /\ tpcb = [s \in Slots |-> NULL]
    /\ payload = {} /\ left = {} /\ pending_close = {}
    /\ currConnId = 0
    /\ listening = TRUE /\ mapped = "none"
    /\ run = "on"
    /\ orderly = TRUE

-----------------------------------------------------------------------------
(* The table is searched from currConnId on, round to the entry before it. *)

Turn(s) == (s - currConnId) % MAX_CLIENT_ACCEPTED
First(S) == CHOOSE s \in S : \A t \in S : Turn(s) <= Turn(t)

SlotsOf(p) == {s \in Slots : tpcb[s] = p}
Taken == {s \in Slots : tpcb[s] # NULL}

ActivePcbs == {p \in Pcbs \ pool : state[p] \notin {"TIME_WAIT", "OTHER"}}
TimeWaitPcbs == {p \in Pcbs \ pool : state[p] = "TIME_WAIT"}

Open(p) == p \notin pool /\ state[p] \in {"ESTABLISHED", "CLOSE_WAIT"}

\* What tcp_alloc finds without ending a connection.
Spare == IF pool # {} THEN pool ELSE TimeWaitPcbs

\* The block goes back to the pool; tcp_alloc will clear what is in it.
Freed(p) ==
    /\ pool' = pool \union {p}
    /\ arg' = arg \ {p}
    /\ errf' = errf \ {p}

NeedsFin == {"SYN_RCVD", "ESTABLISHED", "CLOSE_WAIT"}

\* The state in which tcp_close leaves a connection in state st.
AfterClose(st) ==
    IF st = "CLOSE_WAIT" THEN "LAST_ACK" ELSE IF st \in NeedsFin THEN "FIN_WAIT_1" ELSE st

\* tcp_close and what close_conn does of its outcome, for client p in state st;
\* mem: a segment for the FIN was found.
CloseConn(p, st, mem) ==
    LET id == First(SlotsOf(p))
    IN  /\ \/ /\ SlotsOf(p) = {}
              /\ state' = [state EXCEPT ![p] = st]
              /\ UNCHANGED <<arg, tpcb, payload, pending_close>>
           \/ /\ SlotsOf(p) # {} /\ st \in NeedsFin /\ ~mem
              /\ state' = [state EXCEPT ![p] = st]
              /\ pending_close' = pending_close \union {id}
              /\ UNCHANGED <<arg, tpcb, payload>>
           \/ /\ SlotsOf(p) # {} /\ (st \in NeedsFin => mem)
              /\ state' = [state EXCEPT ![p] = AfterClose(st)]
              /\ arg' = arg \ {p}
              /\ tpcb' = [tpcb EXCEPT ![id] = NULL]
              /\ payload' = payload \ {id}
              /\ pending_close' = pending_close \ {id}
        /\ UNCHANGED <<pool, errf, left>>

\* lwIP gives up connection p and reports ERR_ABRT: the callback drops the
\* client whose turn it is, and follows a null pointer where close_conn_pcb has
\* cleared the argument.
Aborted(p) ==
    IF p \notin errf THEN UNCHANGED <<tpcb, payload, run, orderly>>
    ELSE /\ orderly' = FALSE
         /\ IF p \in arg
            THEN /\ tpcb' = [tpcb EXCEPT ![currConnId] = NULL]
                 /\ payload' = payload \ {currConnId}
                 /\ UNCHANGED run
            ELSE run' = "wild" /\ UNCHANGED <<tpcb, payload>>

-----------------------------------------------------------------------------
(* The network. *)

\* A connection request; it is ignored when no block is spare: the listener's
\* priority is 0, too low to end a connection.
Syn(p) ==
    /\ listening /\ p \in Spare
    /\ pool' = pool \ {p}
    /\ state' = [state EXCEPT ![p] = "SYN_RCVD"]
    /\ arg' = arg \union {p}
    /\ errf' = errf \ {p}
    /\ UNCHANGED <<table, currConnId, run, orderly, server>>

\* The handshake is complete; malloc: a buffer was found for the client.  The
\* callback follows a freed pointer when its server has ended, and indexes
\* outside the table when that is full.
Accept(p, malloc) ==
    LET Places == SlotsOf(p) \union SlotsOf(NULL)
        id == First(Places)
    IN  /\ p \in ActivePcbs /\ state[p] = "SYN_RCVD"
        /\ \/ /\ \/ p \notin arg /\ run' = "wild" /\ orderly' = FALSE
                 \/ p \in arg /\ Places = {} /\ run' \in {"hung", "wild"} /\ UNCHANGED orderly
                 \/ p \in arg /\ Places # {} /\ id \in payload /\ run' = "hung" /\ UNCHANGED orderly
              /\ state' = [state EXCEPT ![p] = "ESTABLISHED"]
              /\ UNCHANGED <<pool, arg, errf, table, mapped>>
           \/ /\ p \in arg /\ Places # {} /\ id \notin payload
              /\ tpcb' = [tpcb EXCEPT ![id] = p]
              /\ \/ /\ malloc
                    /\ state' = [state EXCEPT ![p] = "ESTABLISHED"]
                    /\ payload' = payload \union {id}
                    /\ errf' = errf \union {p}
                    /\ mapped' = "server"
                    /\ UNCHANGED <<pool, arg, orderly>>
                 \/ /\ ~malloc
                    /\ state' = [state EXCEPT ![p] = "CLOSED"]
                    /\ Freed(p)
                    /\ orderly' = FALSE
                    /\ UNCHANGED <<payload, mapped>>
              /\ UNCHANGED <<left, pending_close, run>>
        /\ UNCHANGED <<currConnId, listening>>

AfterFin(st) ==
    CASE st = "ESTABLISHED" -> {"CLOSE_WAIT"}
      [] st = "FIN_WAIT_1" -> {"CLOSING", "TIME_WAIT"}
      [] st = "FIN_WAIT_2" -> {"TIME_WAIT"}
      [] OTHER -> {}

\* The client has nothing more to send: lwIP tells the server by a NULL buffer.
Bug_PeerFin(p, mem) ==
    /\ p \in ActivePcbs
    /\ \E st \in AfterFin(state[p]) : state' = [state EXCEPT ![p] = st]
    /\ UNCHANGED <<pool, arg, errf, table, currConnId, run, orderly, server>>

PeerFin(p, mem) ==
    /\ p \in ActivePcbs
    /\ \E st \in AfterFin(state[p]) :
          \/ p \in arg /\ CloseConn(p, st, mem)
          \/ /\ p \notin arg
             /\ state' = [state EXCEPT ![p] = st]
             /\ UNCHANGED <<pool, arg, errf, table>>
    /\ UNCHANGED <<currConnId, run, orderly, server>>

\* The client acknowledges the server's FIN.
AckFin(p) ==
    /\ p \in ActivePcbs
    /\ \/ /\ state[p] = "FIN_WAIT_1"
          /\ state' = [state EXCEPT ![p] = "FIN_WAIT_2"]
          /\ UNCHANGED <<pool, arg, errf>>
       \/ /\ state[p] = "CLOSING"
          /\ state' = [state EXCEPT ![p] = "TIME_WAIT"]
          /\ UNCHANGED <<pool, arg, errf>>
       \/ /\ state[p] = "LAST_ACK"
          /\ state' = [state EXCEPT ![p] = "CLOSED"]
          /\ Freed(p)
    /\ UNCHANGED <<table, currConnId, run, orderly, server>>

\* A reset: the callback does nothing for ERR_RST, so the table keeps the client.
PeerReset(p) ==
    /\ p \in ActivePcbs
    /\ state' = [state EXCEPT ![p] = "CLOSED"]
    /\ Freed(p)
    /\ orderly' = (orderly /\ SlotsOf(p) = {})
    /\ UNCHANGED <<table, currConnId, run, server>>

-----------------------------------------------------------------------------
(* The timers of lwIP. *)

\* No answer for too long: a retransmission too many, or the time limit of
\* SYN_RCVD, FIN_WAIT_2 and LAST_ACK.
Expire(p) ==
    /\ p \in ActivePcbs
    /\ Aborted(p)
    /\ Freed(p)
    /\ UNCHANGED <<state, left, pending_close, currConnId, server>>

TimeWaitOver(p) ==
    /\ p \in TimeWaitPcbs
    /\ Freed(p)
    /\ UNCHANGED <<state, table, currConnId, run, orderly, server>>

\* atcp_poll after four polls with bytes left and no acknowledgement.
PollAborts(p) ==
    LET id == First(SlotsOf(p))
    IN  /\ p \in ActivePcbs \intersect errf \intersect arg
        /\ SlotsOf(p) # {} /\ id \in left
        /\ Aborted(p)
        /\ state' = [state EXCEPT ![p] = "CLOSED"]
        /\ Freed(p)
        /\ pending_close' = pending_close \ {id}
        /\ UNCHANGED <<left, currConnId, server>>

\* atcp_poll: it sends what is left (sent: all of it) and closes what is pending.
Bug_Poll(p, sent, mem) ==
    LET id == First(SlotsOf(p))
        closes == id \in pending_close /\ (state[p] \in NeedsFin => mem)
    IN  /\ p \in ActivePcbs \intersect errf \intersect arg
        /\ SlotsOf(p) # {}
        /\ id \in left
        /\ left' = IF sent THEN left \ {id} ELSE left
        /\ state' = [state EXCEPT ![p] = IF closes THEN AfterClose(@) ELSE @]
        /\ pending_close' = IF closes THEN pending_close \ {id} ELSE pending_close
        /\ payload' = IF closes THEN payload \ {id} ELSE payload
        /\ tpcb' = IF closes THEN [tpcb EXCEPT ![id] = NULL] ELSE tpcb
        /\ UNCHANGED <<pool, arg, errf, currConnId, run, orderly, server>>

Poll(p, sent, mem) ==
    LET id == First(SlotsOf(p))
        closes == id \in pending_close /\ (state[p] \in NeedsFin => mem)
    IN  /\ p \in ActivePcbs \intersect errf \intersect arg
        /\ SlotsOf(p) # {}
        /\ left' = IF sent THEN left \ {id} ELSE left
        /\ state' = [state EXCEPT ![p] = IF closes THEN AfterClose(@) ELSE @]
        /\ pending_close' = IF closes THEN pending_close \ {id} ELSE pending_close
        /\ payload' = IF closes THEN payload \ {id} ELSE payload
        /\ tpcb' = IF closes THEN [tpcb EXCEPT ![id] = NULL] ELSE tpcb
        /\ UNCHANGED <<pool, arg, errf, currConnId, run, orderly, server>>

\* The client acknowledges data: tcp_data_sent sends more of what is left.
DataSent(p) ==
    /\ p \in ActivePcbs \intersect arg
    /\ SlotsOf(p) # {}
    /\ First(SlotsOf(p)) \in left
    /\ left' = left \ {First(SlotsOf(p))}
    /\ UNCHANGED <<lwip, tpcb, payload, pending_close, currConnId, run, orderly, server>>

-----------------------------------------------------------------------------
(* The host. *)

\* Any question about the socket: getFirstClient gives the turn to a client.
Look ==
    /\ Taken # {}
    /\ currConnId' = First(Taken)
    /\ UNCHANGED <<lwip, table, run, orderly, server>>

\* sendTcpData: sent: lwIP took all of it. A freed block, or one that another
\* socket has got since, may still look open.
Write(sent) ==
    LET id == First(Taken)
        p == tpcb[id]
        open == state[p] \in {"ESTABLISHED", "CLOSE_WAIT", "SYN_RCVD", "OTHER"}
    IN  /\ mapped = "server" /\ Taken # {}
        /\ currConnId' = id
        /\ id \in payload /\ open
        /\ \/ /\ p \in pool \/ state[p] = "OTHER"
              /\ run' = "wild"
              /\ UNCHANGED left
           \/ /\ p \notin pool /\ state[p] # "OTHER"
              /\ left' = IF sent THEN left \ {id} ELSE left \union {id}
              /\ UNCHANGED run
        /\ UNCHANGED <<lwip, tpcb, payload, pending_close, orderly, server>>

\* ard_tcp_stop for the client whose turn it is.
Bug_Stop(mem) ==
    LET p == tpcb[currConnId]
    IN  /\ mapped = "server" /\ p # NULL
        /\ state[p] \notin {"LAST_ACK", "CLOSED"} /\ p \notin pool
        /\ state' = [state EXCEPT ![p] = IF mem THEN AfterClose(@) ELSE @]
        /\ tpcb' = [tpcb EXCEPT ![currConnId] = NULL]
        /\ payload' = payload \ {currConnId}
        /\ UNCHANGED <<pool, arg, errf, left, pending_close, currConnId, run, orderly, server>>

Stop(mem) ==
    LET p == tpcb[currConnId]
    IN  /\ mapped = "server" /\ p # NULL
        /\ state[p] \notin {"LAST_ACK", "CLOSED"}
        /\ \/ /\ p \in pool \/ state[p] = "OTHER"
              /\ run' = "wild"
              /\ UNCHANGED <<lwip, table>>
           \/ /\ p \notin pool /\ state[p] # "OTHER"
              /\ CloseConn(p, state[p], mem)
              /\ UNCHANGED run
        /\ UNCHANGED <<currConnId, orderly, server>>

\* A command for the socket whose server was freed, until the next server there
\* accepts a client.
AskFreed ==
    /\ mapped = "freed"
    /\ run' = "wild" /\ orderly' = FALSE
    /\ UNCHANGED <<lwip, table, currConnId, server>>

\* The interface goes down: closeConnections and ard_tcp_destroy.  The clients of
\* the table lose their callbacks and are left to lwIP; a pointer that other
\* connections keep is followed sooner or later, unless they are half open.  The
\* socket's second entry, there since the first accept, is not cleared, and a
\* freed server found in it is freed once more.
End ==
    /\ listening /\ listening' = FALSE
    /\ state' = [p \in Pcbs |-> IF SlotsOf(p) # {} /\ Open(p) THEN "OTHER" ELSE state[p]]
    /\ arg' = {} /\ errf' = {p \in errf : SlotsOf(p) = {}}
    /\ tpcb' = [s \in Slots |-> NULL]
    /\ payload' = {} /\ left' = {} /\ pending_close' = {}
    /\ mapped' = IF mapped = "none" THEN "none" ELSE "freed"
    /\ run' = IF \/ mapped = "freed"
                 \/ \E p \in arg : SlotsOf(p) = {} /\ state[p] # "SYN_RCVD"
              THEN "wild" ELSE run
    /\ orderly' = (orderly /\ run' # "wild")
    /\ UNCHANGED <<pool, currConnId>>

\* The host starts the server again.  The block of tcp_new goes back to the pool
\* when tcp_listen has taken one of another kind; to get it lwIP may end a
\* connection.
Begin(p) ==
    /\ ~listening /\ listening' = TRUE
    /\ \/ p \in Spare /\ UNCHANGED <<tpcb, payload, run, orderly>>
       \/ Spare = {} /\ p \in ActivePcbs /\ Aborted(p)
    /\ state' = [state EXCEPT ![p] = "CLOSED"]
    /\ Freed(p)
    /\ currConnId' = 0
    /\ UNCHANGED <<left, pending_close, mapped>>

-----------------------------------------------------------------------------
(* The other sockets: they share currConnId and the pool. *)

OtherLook ==
    /\ \E s \in Slots : currConnId' = s
    /\ UNCHANGED <<lwip, table, run, orderly, server>>

\* A client connection of the host. tcp_new of it may end a connection.
OtherStart(p) ==
    /\ UNCHANGED server
    /\ \/ p \in Spare /\ UNCHANGED <<table, run, orderly>>
       \/ /\ Spare = {} /\ p \in ActivePcbs
          /\ Aborted(p)
          /\ UNCHANGED <<left, pending_close>>
    /\ pool' = pool \ {p}
    /\ state' = [state EXCEPT ![p] = "OTHER"]
    /\ arg' = arg \ {p}
    /\ errf' = errf \ {p}
    /\ currConnId' = 0

OtherEnds(p) ==
    /\ p \in Pcbs \ pool /\ state[p] = "OTHER"
    /\ pool' = pool \union {p}
    /\ state' = [state EXCEPT ![p] = "CLOSED"]
    /\ UNCHANGED <<arg, errf, table, currConnId, run, orderly, server>>

-----------------------------------------------------------------------------
Next ==
    /\ run = "on"
    /\ \/ Look \/ OtherLook \/ AskFreed \/ End
       \/ \E yes \in BOOLEAN : Write(yes) \/ Stop(yes)
       \/ \E p \in Pcbs :
             \/ Syn(p) \/ AckFin(p) \/ PeerReset(p) \/ Expire(p) \/ TimeWaitOver(p)
             \/ PollAborts(p) \/ DataSent(p) \/ OtherStart(p) \/ OtherEnds(p)
             \/ Begin(p)
             \/ \E yes, mem \in BOOLEAN : Poll(p, yes, mem)
             \/ \E yes \in BOOLEAN : Accept(p, yes) \/ PeerFin(p, yes)

\* lwIP polls every connection and now and then finds a segment for its FIN; a
\* client acknowledges a FIN.
Fairness ==
    \A p \in Pcbs : /\ WF_vars(run = "on" /\ \E yes \in BOOLEAN : Poll(p, yes, TRUE))
                    /\ WF_vars(run = "on" /\ AckFin(p))

Spec == Init /\ [][Next]_vars
FairSpec == Spec /\ Fairness

-----------------------------------------------------------------------------
TypeOK ==
    /\ pool \subseteq Pcbs
    /\ state \in [Pcbs -> TcpStates]
    /\ arg \subseteq Pcbs /\ errf \subseteq Pcbs
    /\ tpcb \in [Slots -> Pcbs \union {NULL}]
    /\ payload \subseteq Slots /\ left \subseteq Slots /\ pending_close \subseteq Slots
    /\ currConnId \in Slots
    /\ listening \in BOOLEAN /\ mapped \in {"none", "server", "freed"}
    /\ run \in {"on", "hung", "wild"}
    /\ orderly \in BOOLEAN

\* While no connection error was reported, the table holds exactly the open
\* clients, each once, whatever the order of FINs, stops, polls and turns: a
\* client that is missing is never served nor closed, one too many is a dangling
\* pointer.
TableExact ==
    orderly => /\ \A s \in Taken : Open(tpcb[s])
               /\ \A p \in Pcbs : Open(p) => SlotsOf(p) # {}
               /\ \A s, t \in Taken : tpcb[s] = tpcb[t] => s = t

\* While no connection error was reported, an empty entry holds no buffer and no
\* order to close: the next client accepted in it trips no assertion and is not
\* closed in the place of the last one.
EmptyIsClean ==
    orderly => /\ payload = Taken
               /\ pending_close \subseteq Taken
               /\ run # "hung"

\* The assertion of atcp_accept_cb: the buffer of the entry's last client was
\* freed.
PayloadFreed == run # "hung"

\* A close that found no memory is made up for by a poll, unless an error is
\* reported first.
PendingCloses ==
    \A s \in Slots : (s \in pending_close) ~> (s \notin pending_close \/ ~orderly)

\* The block of a client that said goodbye goes back to the pool, unless an error
\* is reported first or the end of the server leaves the client unclosed.
GoodbyeFrees ==
    \A p \in Pcbs : (Open(p) /\ state[p] = "CLOSE_WAIT")
                       ~> (p \in pool \/ ~orderly \/ state[p] = "OTHER")
=============================================================================
