----------------------------- MODULE DhcpClient -----------------------------
(***************************************************************************)
(* The DHCP client of the shield: lwIP's dhcp.c as the firmware builds it  *)
(* (with the ARP check) and drives it: started when the station is         *)
(* associated, released and stopped when it no longer is (main.c), with    *)
(* the fine timer every half second and the coarse timer every minute      *)
(* (lwip_setup.c).                                                         *)
(*                                                                         *)
(* Requests and answers may be lost, delayed and repeated: `live` says     *)
(* which requests carried the present transaction identifier, and any      *)
(* answer to one of them may come at any time, never or often.  An answer  *)
(* to an earlier identifier is dropped, so those need no memory.           *)
(*                                                                         *)
(* The time a request waits is not counted, only whether its timer runs;   *)
(* the lease timers are counted in ticks of the coarse timer.  Nothing     *)
(* calls dhcp_network_changed or dhcp_inform in this firmware, so the      *)
(* state REBOOTING is never entered.                                       *)
(*                                                                         *)
(* A start that finds no memory leaves no client behind, but main.c takes  *)
(* DHCP to run; the release at the end of the association then writes      *)
(* through a NULL pointer.  That may hit nothing that matters or anything: *)
(* `wild` says that it did, and nothing is claimed from there on.          *)
(***************************************************************************)
EXTENDS Naturals

CONSTANTS
    Addrs,      \* addresses the servers give out
    None,       \* 0.0.0.0
    Inf,        \* 0xffffffff, a timer that is not to be set
    Ticks,      \* lease timers a server may ask for, in coarse ticks
    TRIES_MOD,  \* 2^8, tries is a u8_t
    TICK_MOD,   \* 2^16, t1_timeout and t2_timeout are u16_t
    MayFail     \* mem_malloc, udp_new and pbuf_alloc may fail

ASSUME DhcpAssumption ==
    /\ None \notin Addrs
    /\ Inf \notin Nat
    /\ TRIES_MOD \in Nat /\ TRIES_MOD > 10
    /\ TICK_MOD \in Nat /\ TICK_MOD > 1
    /\ Ticks \subseteq 0..(TICK_MOD - 1)
    /\ MayFail \in BOOLEAN

VARIABLES
    running,   \* dhcp_running in main.c
    attached,  \* netif->dhcp is there
    wild,      \* a write through NULL has done harm
    st,        \* state
    tries,     \* retries of the current request
    req,       \* request_timeout is not 0
    t1, t2,    \* t1_timeout, t2_timeout
    offered,   \* offered_ip_addr
    lease,     \* offered_t1_renew and offered_t2_rebind
    up,        \* NETIF_FLAG_UP
    addr,      \* the address of the interface
    live,      \* the states whose requests carried the present identifier
    deaf       \* an offer without a server identifier stopped the timer

link == <<running, attached, wild>>
vars == <<link, st, tries, req, t1, t2, offered, lease, up, addr, live, deaf>>

\* Requests a server answers: DISCOVER in the first, REQUEST in the others.
Asking == {"SELECTING", "REQUESTING", "RENEWING", "REBINDING"}
States == Asking \cup {"OFF", "CHECKING", "BOUND", "BACKING_OFF"}

NoLease == [t1 |-> 0, t2 |-> 0]
Leases == [t1 : Ticks \cup {0, Inf}, t2 : Ticks \cup {0, Inf}]

Init ==
    /\ running = FALSE /\ attached = FALSE /\ wild = FALSE
    /\ st = "OFF" /\ tries = 0 /\ req = FALSE
    /\ t1 = 0 /\ t2 = 0
    /\ offered = None /\ lease = NoLease
    /\ up = FALSE /\ addr = None
    /\ live = {} /\ deaf = FALSE

-----------------------------------------------------------------------------
(* Parts the handlers share.                                               *)

\* Whether dhcp_create_request finds a buffer.
Outcome == IF MayFail THEN BOOLEAN ELSE {TRUE}

\* dhcp_set_state: a change of state resets tries.
TriesIn(s) == IF st = s THEN tries ELSE 0

\* dhcp_create_request: the first request in a state has a new identifier.
\* Without a buffer nothing is sent, and the retry is no first request.
Carried(s, ok) ==
    IF ~ok THEN live
    ELSE ({s} \cap Asking) \cup (IF TriesIn(s) = 0 THEN {} ELSE live)

\* A request: dhcp_select, dhcp_renew, dhcp_rebind, dhcp_decline and the end
\* of dhcp_discover.  The wait of a renewal is a multiple of tries, and 0
\* when tries has come round.
Request(s) ==
    \E ok \in Outcome :
        /\ st' = s
        /\ tries' = (TriesIn(s) + 1) % TRIES_MOD
        /\ live' = Carried(s, ok)
        /\ req' = (s = "RENEWING" => tries' # 0) /\ deaf' = FALSE

\* dhcp_discover
Discover == offered' = None /\ Request("SELECTING")

\* Mutant: the interface stays up.
Bug_TakeDown == addr' = None /\ UNCHANGED up

\* netif_set_down and the address, gateway and mask set to 0.
TakeDown == up' = FALSE /\ addr' = None

\* dhcp_release and then dhcp_discover.  The message of dhcp_release has an
\* identifier of its own, if it finds a buffer.
GiveUp ==
    /\ TakeDown
    /\ lease' = NoLease /\ offered' = None
    /\ st' = "SELECTING" /\ tries' = 1 /\ req' = TRUE /\ deaf' = FALSE
    /\ \E ok \in Outcome :
          \/ live' = IF ok THEN {"SELECTING"} ELSE {}
          \/ ~ok /\ UNCHANGED live

\* A timer the lease leaves alone keeps what it has.
Timer(offer, now) == IF offer = Inf THEN now ELSE IF offer = 0 THEN 1 ELSE offer

\* dhcp_bind; whoever calls it has cleared request_timeout.
Bind ==
    /\ st' = "BOUND" /\ tries' = TriesIn("BOUND") /\ req' = FALSE
    /\ t1' = Timer(lease.t1, t1) /\ t2' = Timer(lease.t2, t2)
    /\ addr' = offered /\ up' = TRUE
    /\ UNCHANGED <<link, offered, lease, live, deaf>>

-----------------------------------------------------------------------------
(* The link, from wl_cm_conn_cb and wl_cm_disconn_cb of main.c.            *)

\* dhcp_start: a new client, all zero, and the first DISCOVER.
Start ==
    /\ attached' = TRUE
    /\ st' = "SELECTING" /\ tries' = 1 /\ req' = TRUE /\ live' = {"SELECTING"}
    /\ t1' = 0 /\ t2' = 0 /\ offered' = None /\ lease' = NoLease
    /\ UNCHANGED <<up, addr, deaf>>

\* Without memory for the client, its pcb or its first DISCOVER none is left.
NoStart == MayFail /\ UNCHANGED <<attached, st, tries, req, t1, t2, offered,
                                  lease, up, addr, live, deaf>>

\* wl_cm_conn_cb notes that DHCP runs whatever dhcp_start returned.
LinkUp ==
    /\ ~wild /\ ~running
    /\ running' = TRUE
    /\ Start \/ NoStart
    /\ UNCHANGED wild

\* dhcp_release and dhcp_stop.  What was in the freed client is gone.
Stop ==
    /\ attached' = FALSE
    /\ TakeDown
    /\ st' = "OFF" /\ tries' = 0 /\ req' = FALSE /\ live' = {} /\ deaf' = FALSE
    /\ t1' = 0 /\ t2' = 0 /\ offered' = None /\ lease' = NoLease

\* wl_cm_disconn_cb.  dhcp_release of no client writes through NULL.
LinkDown ==
    /\ ~wild /\ running
    /\ running' = FALSE
    /\ Stop
    /\ wild' \in IF attached THEN {FALSE} ELSE BOOLEAN

-----------------------------------------------------------------------------
(* Answers, dhcp_recv.  One in a state that does not wait for it, or with  *)
(* another identifier, changes nothing.                                    *)

\* DHCP_OFFER: the first one that names its server is taken.
RecvOffer ==
    /\ attached /\ st = "SELECTING" /\ "SELECTING" \in live
    /\ offered' \in Addrs
    /\ Request("REQUESTING")
    /\ UNCHANGED <<link, t1, t2, lease, up, addr>>

\* One that does not is dropped, after dhcp_recv has cleared request_timeout.
RecvNameless ==
    /\ attached /\ st = "SELECTING" /\ "SELECTING" \in live
    /\ req' = FALSE /\ deaf' = TRUE
    /\ UNCHANGED <<link, st, tries, t1, t2, offered, lease, up, addr, live>>

Answered == live \cap {"REQUESTING", "RENEWING", "REBINDING"} # {}

\* Mutant: a renewal takes over what the acknowledgement says.
Bug_RecvAck ==
    /\ attached /\ Answered
    /\ \/ /\ st = "REQUESTING"
          /\ offered' \in Addrs
          /\ lease' \in [t1 : Ticks \cup {Inf}, t2 : Ticks \cup {Inf}]
          /\ st' = "CHECKING" /\ tries' = 1 /\ req' = TRUE
          /\ UNCHANGED <<link, t1, t2, up, addr, live, deaf>>
       \/ /\ st \in {"RENEWING", "REBINDING"}
          /\ offered' \in Addrs /\ addr' = offered' /\ up' = TRUE
          /\ st' = "BOUND" /\ tries' = 0 /\ req' = FALSE
          /\ t1' = Timer(lease.t1, t1) /\ t2' = Timer(lease.t2, t2)
          /\ UNCHANGED <<link, lease, live, deaf>>

\* DHCP_ACK.  To a first request: dhcp_handle_ack and dhcp_check.  To a
\* renewal: the lease stays what the first acknowledgement made it.
RecvAck ==
    /\ attached /\ Answered
    /\ \/ /\ st = "REQUESTING"
          /\ offered' \in Addrs
          /\ lease' \in [t1 : Ticks \cup {Inf}, t2 : Ticks \cup {Inf}]
          /\ st' = "CHECKING" /\ tries' = 1 /\ req' = TRUE
          /\ UNCHANGED <<link, t1, t2, up, addr, live, deaf>>
       \/ /\ st \in {"RENEWING", "REBINDING"}
          /\ Bind

\* DHCP_NAK: dhcp_handle_nak.
RecvNak ==
    /\ attached /\ Answered
    /\ st \in {"REQUESTING", "RENEWING", "REBINDING"}
    /\ TakeDown
    /\ Discover
    /\ UNCHANGED <<link, t1, t2, lease>>

\* dhcp_arp_reply: somebody has the address; dhcp_decline.
ArpReply ==
    /\ attached /\ st = "CHECKING"
    /\ Request("BACKING_OFF")
    /\ UNCHANGED <<link, t1, t2, offered, lease, up, addr>>

-----------------------------------------------------------------------------
(* Timers.                                                                 *)

\* dhcp_fine_tmr and dhcp_timeout, one disjunct for each state.
TimeoutSelecting ==
    /\ st \in {"BACKING_OFF", "SELECTING"}
    /\ Discover
    /\ UNCHANGED <<link, t1, t2, lease, up, addr>>

TimeoutRequesting ==
    /\ st = "REQUESTING"
    /\ IF tries <= 5
       THEN Request("REQUESTING") /\ UNCHANGED <<offered, lease, up, addr>>
       ELSE GiveUp
    /\ UNCHANGED <<link, t1, t2>>

\* Mutant: the queries are not counted.
Bug_TimeoutChecking ==
    /\ st = "CHECKING"
    /\ \/ /\ tries <= 1
          /\ req' = TRUE
          /\ UNCHANGED <<link, st, tries, t1, t2, offered, lease, up, addr, live, deaf>>
       \/ /\ tries > 1
          /\ Bind

\* No answer to the ARP query: ask once more, then the address is free.
TimeoutChecking ==
    /\ st = "CHECKING"
    /\ \/ /\ tries <= 1
          /\ tries' = tries + 1 /\ req' = TRUE
          /\ UNCHANGED <<link, st, t1, t2, offered, lease, up, addr, live, deaf>>
       \/ /\ tries > 1
          /\ Bind

TimeoutRenewing ==
    /\ st = "RENEWING"
    /\ Request("RENEWING")
    /\ UNCHANGED <<link, t1, t2, offered, lease, up, addr>>

\* Mutant: rebinding goes on for ever.
Bug_TimeoutRebinding ==
    /\ st = "REBINDING"
    /\ Request("REBINDING") /\ UNCHANGED <<offered, lease, up, addr>>
    /\ UNCHANGED <<link, t1, t2>>

TimeoutRebinding ==
    /\ st = "REBINDING"
    /\ IF tries <= 8
       THEN Request("REBINDING") /\ UNCHANGED <<offered, lease, up, addr>>
       ELSE GiveUp
    /\ UNCHANGED <<link, t1, t2>>

Timeout ==
    /\ attached /\ req
    /\ \/ TimeoutSelecting \/ TimeoutRequesting \/ TimeoutChecking
       \/ TimeoutRenewing \/ TimeoutRebinding

\* u16_t, counted down past 0.
Minus1(t) == (t + TICK_MOD - 1) % TICK_MOD

\* dhcp_t1_timeout and dhcp_t2_timeout: ask again in state s.
Due(s) ==
    IF st \in {"REQUESTING", "BOUND", "RENEWING"}
    THEN Request(s)
    ELSE UNCHANGED <<st, tries, live, req, deaf>>

\* dhcp_coarse_tmr
CoarseTick ==
    /\ attached
    /\ t2' = Minus1(t2)
    /\ \/ /\ t2 = 1
          /\ Due("REBINDING")
          /\ UNCHANGED t1
       \/ /\ t2 # 1
          /\ t1' = Minus1(t1)
          /\ IF t1 = 1 THEN Due("RENEWING") ELSE UNCHANGED <<st, tries, live, req, deaf>>
    /\ UNCHANGED <<link, offered, lease, up, addr>>

Next ==
    \/ LinkUp \/ LinkDown
    \/ RecvOffer \/ RecvNameless \/ RecvAck \/ RecvNak \/ ArpReply
    \/ Timeout \/ CoarseTick

Spec == Init /\ [][Next]_vars

\* The timers run.
Fairness == WF_vars(Timeout) /\ WF_vars(CoarseTick)

\* Requests find a buffer and reach a server now and then, and its answers
\* arrive.  A server offers an address as long as the client keeps asking.
Delivery ==
    /\ SF_vars(Timeout /\ "SELECTING" \in live')
    /\ SF_vars(req /\ RecvOffer /\ "REQUESTING" \in live')
    /\ SF_vars(RecvAck)

FairSpec == Spec /\ Fairness

-----------------------------------------------------------------------------
\* Types.
TypeOK ==
    /\ running \in BOOLEAN /\ attached \in BOOLEAN /\ wild \in BOOLEAN
    /\ req \in BOOLEAN /\ up \in BOOLEAN /\ deaf \in BOOLEAN
    /\ st \in States
    /\ tries \in 0..(TRIES_MOD - 1)
    /\ t1 \in 0..(TICK_MOD - 1) /\ t2 \in 0..(TICK_MOD - 1)
    /\ offered \in Addrs \cup {None} /\ addr \in Addrs \cup {None}
    /\ lease \in Leases
    /\ live \subseteq Asking

\* A client that is not bound has a retry ahead (request_timeout is set again
\* on every path that clears it), whether or not its request found a buffer.
\* There are two exceptions: a renewal whose u8_t of tries has come round, with
\* a wait of 0 and only the rebind timer ahead; and a client that waits for
\* offers and has dropped one without a server identifier.
NeverStuck ==
    /\ attached => running /\ st # "OFF"
    /\ attached /\ st # "BOUND" => \/ req
                                   \/ st = "RENEWING" /\ tries = 0
                                   \/ st = "SELECTING" /\ deaf

\* Every state from which dhcp_bind can be reached holds an address to bind:
\* the interface never comes up as 0.0.0.0, also when a lease timer of an
\* earlier lease sends the client from REQUESTING into a renewal.
HoldsOffer ==
    st \in {"REQUESTING", "CHECKING", "BOUND", "RENEWING", "REBINDING"} => offered # None

\* The interface is up, and the host told so, only with the address the
\* client holds and while its lease is bound or being renewed.
UpIsLeased ==
    up => /\ st \in {"BOUND", "RENEWING", "REBINDING"}
          /\ addr = offered

Service == INSTANCE DhcpService WITH
    phase <- IF ~attached THEN "off" ELSE IF up THEN "bound" ELSE "asking"

\* The client gives ConnMgr what it relies on.
ServesLink == Service!Spec

\* A client that found the memory to start and is not stopped gets an address,
\* again and again, unless every address it is given turns out to be somebody
\* else's: whatever tries, timers and identifiers an earlier lease, refusal or
\* lost answer left.  Nothing else stops it but an offer without a server
\* identifier, after which it never asks again.
Binds ==
    Delivery /\ <>[]attached /\ <>[][~ArpReply]_vars
      => []<>up \/ <>[](st = "SELECTING" /\ deaf)

\* An address is not kept for ever without a server: unless acknowledgements
\* go on, the lease runs out and the interface goes down, also when the
\* lease timers are infinite or a renewal has stopped asking.
Expires == []<>~up \/ []<><<RecvAck>>_vars

-----------------------------------------------------------------------------
(* What an assertion says and the program does not keep.                   *)

\* dhcp.c:1491, LWIP_ERROR("dhcp_create_request: dhcp != NULL"): there is a
\* client whenever the end of the association releases its lease.
ReleasesAClient == [][running /\ ~running' => attached]_vars
=============================================================================
