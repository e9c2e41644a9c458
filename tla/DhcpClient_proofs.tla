------------------------- MODULE DhcpClient_proofs -------------------------
(***************************************************************************)
(* Proofs about DhcpClient, for every set of addresses, every lease time   *)
(* and every width of the counters.                                        *)
(***************************************************************************)
EXTENDS DhcpClient, TLAPS

\* What UpIsLeased leaves open: an interface that is down has no address, and
\* without a client it is down.
DownIsBare == /\ ~up => addr = None
              /\ ~attached => st = "OFF"

\* The inductive invariant.
IInv == /\ TypeOK
        /\ NeverStuck
        /\ HoldsOffer
        /\ UpIsLeased
        /\ DownIsBare

USE DhcpAssumption DEF DhcpAssumption

LEMMA NoLeaseFits == NoLease \in Leases
  BY DEF NoLease, Leases

LEMMA TriesFit == ASSUME NEW n \in Nat PROVE n % TRIES_MOD \in 0..(TRIES_MOD - 1)
  <1>1. \A k \in Nat, d \in Nat : d > 0 => k % d \in 0..(d - 1)
    OBVIOUS
  <1>2. QED
    BY <1>1

LEMMA TimersFit == ASSUME NEW t \in 0..(TICK_MOD - 1) PROVE Minus1(t) \in 0..(TICK_MOD - 1)
  <1>1. \A k \in Nat, d \in Nat : d > 0 => k % d \in 0..(d - 1)
    OBVIOUS
  <1>2. t + TICK_MOD - 1 \in Nat
    OBVIOUS
  <1>3. QED
    BY <1>1, <1>2 DEF Minus1

\* A request leaves the client waiting in the state it was made in, but for a
\* renewal whose tries have come round.
LEMMA RequestKeeps ==
  ASSUME TypeOK, NEW s \in States, Request(s)
  PROVE  /\ st' = s
         /\ tries' \in 0..(TRIES_MOD - 1)
         /\ req' \in BOOLEAN /\ deaf' = FALSE
         /\ req' \/ (s = "RENEWING" /\ tries' = 0)
         /\ live' \subseteq Asking
  <1>1. PICK ok \in Outcome : live' = Carried(s, ok)
    BY DEF Request
  <1>2. live' \subseteq Asking
    BY <1>1 DEF Carried, TypeOK
  <1>3. TriesIn(s) \in Nat
    BY DEF TriesIn, TypeOK
  <1>4. tries' \in 0..(TRIES_MOD - 1)
    BY <1>3, TriesFit DEF Request
  <1>5. QED
    BY <1>2, <1>4 DEF Request

\* Binding brings the interface up with the address the client holds.
LEMMA BindKeeps ==
  ASSUME IInv, attached, offered # None, Bind
  PROVE  IInv'
  <1> USE DEF IInv
  <1>1. \A offer \in Ticks \cup {0, Inf}, now \in 0..(TICK_MOD - 1) :
          Timer(offer, now) \in 0..(TICK_MOD - 1)
    BY DEF Timer
  <1>2. t1' \in 0..(TICK_MOD - 1) /\ t2' \in 0..(TICK_MOD - 1)
    BY <1>1 DEF Bind, TypeOK, Leases
  <1>3. tries' \in 0..(TRIES_MOD - 1)
    BY DEF Bind, TriesIn, TypeOK
  <1>4. TypeOK'
    BY <1>2, <1>3 DEF Bind, TypeOK, States, link
  <1>5. QED
    BY <1>4 DEF link, Bind, TypeOK, NeverStuck, HoldsOffer, UpIsLeased, DownIsBare

\* Giving a lease up takes the interface down and starts again.
LEMMA GiveUpKeeps ==
  ASSUME IInv, attached, GiveUp, UNCHANGED <<link, t1, t2>>
  PROVE  IInv'
  <1>1. live' \subseteq Asking
    BY DEF GiveUp, IInv, TypeOK, Asking
  <1>2. lease' \in Leases
    BY NoLeaseFits DEF GiveUp
  <1>3. st' \in States /\ tries' \in 0..(TRIES_MOD - 1)
    BY DhcpAssumption DEF GiveUp, States, Asking
  <1>4. req' = TRUE /\ deaf' = FALSE
    BY Zenon DEF GiveUp
  <1>5. TypeOK'
    BY <1>1, <1>2, <1>3, <1>4 DEF GiveUp, TakeDown, IInv, TypeOK, link
  <1>6. QED
    BY <1>5 DEF link, GiveUp, TakeDown, IInv, NeverStuck, HoldsOffer, UpIsLeased, DownIsBare

\* A request in a state that need not hold an offer, with the interface down.
LEMMA DiscoverKeeps ==
  ASSUME IInv, attached, Discover, up' = FALSE /\ addr' = None,
         UNCHANGED <<link, t1, t2, lease>>
  PROVE  IInv'
  <1>1. "SELECTING" \in States
    BY DEF States, Asking
  <1>2. /\ st' = "SELECTING" /\ tries' \in 0..(TRIES_MOD - 1) /\ req' = TRUE
        /\ deaf' = FALSE /\ live' \subseteq Asking
    BY <1>1, RequestKeeps DEF Discover, IInv, Request
  <1>3. QED
    BY <1>1, <1>2 DEF link, Discover, IInv, TypeOK, NeverStuck, HoldsOffer,
                      UpIsLeased, DownIsBare

\* A request of a client that keeps the address it holds.
LEMMA AskAgainKeeps ==
  ASSUME IInv, attached,
         NEW s \in {"REQUESTING", "RENEWING", "REBINDING", "BACKING_OFF"},
         Request(s),
         s # "BACKING_OFF" => offered # None,
         up => s \in {"RENEWING", "REBINDING"},
         {t1', t2'} \subseteq 0..(TICK_MOD - 1),
         UNCHANGED <<link, offered, lease, up, addr>>
  PROVE  IInv'
  <1>1. s \in States
    BY DEF States, Asking
  <1>2. /\ st' = s /\ tries' \in 0..(TRIES_MOD - 1) /\ req' \in BOOLEAN
        /\ req' \/ (s = "RENEWING" /\ tries' = 0)
        /\ deaf' = FALSE
        /\ live' \subseteq Asking
    BY <1>1, RequestKeeps DEF IInv
  <1>3. TypeOK'
    BY <1>1, <1>2 DEF IInv, TypeOK, link
  <1>4. QED
    BY <1>2, <1>3 DEF link, IInv, TypeOK, NeverStuck, HoldsOffer, UpIsLeased, DownIsBare

LEMMA InitIInv == Init => IInv
  <1> SUFFICES ASSUME Init PROVE IInv
    OBVIOUS
  <1>1. lease \in Leases /\ st \in States /\ live \subseteq Asking
    BY NoLeaseFits DEF Init, States
  <1>2. tries \in 0..(TRIES_MOD - 1) /\ {t1, t2} \subseteq 0..(TICK_MOD - 1)
    BY DEF Init
  <1>3. /\ running \in BOOLEAN /\ attached \in BOOLEAN /\ wild \in BOOLEAN
        /\ req \in BOOLEAN /\ up \in BOOLEAN /\ deaf \in BOOLEAN
    BY DEF Init
  <1>4. TypeOK
    BY <1>1, <1>2, <1>3 DEF Init, TypeOK
  <1>5. QED
    BY <1>4 DEF Init, IInv, NeverStuck, HoldsOffer, UpIsLeased, DownIsBare

\* Every answer leaves the client with a retry ahead or a lease.
LEMMA AnswerKeeps ==
  ASSUME IInv, RecvOffer \/ RecvNameless \/ RecvAck \/ RecvNak \/ ArpReply
  PROVE  IInv'
  <1>1. CASE RecvOffer
    <2>1. "REQUESTING" \in States /\ attached /\ ~up
      BY <1>1 DEF RecvOffer, IInv, UpIsLeased, States, Asking
    <2>2. /\ st' = "REQUESTING" /\ tries' \in 0..(TRIES_MOD - 1) /\ req' = TRUE
          /\ deaf' = FALSE /\ live' \subseteq Asking
      BY <1>1, <2>1, RequestKeeps DEF RecvOffer, IInv, Request
    <2>3. offered' \in Addrs /\ UNCHANGED <<link, t1, t2, lease, up, addr>>
      BY <1>1 DEF RecvOffer
    <2>4. QED
      BY <2>1, <2>2, <2>3 DEF link, IInv, TypeOK, NeverStuck, HoldsOffer, UpIsLeased, DownIsBare
  <1>2. CASE RecvAck /\ st = "REQUESTING"
    <2>1. /\ attached /\ ~up
          /\ offered' \in Addrs
          /\ lease' \in [t1 : Ticks \cup {Inf}, t2 : Ticks \cup {Inf}]
          /\ st' = "CHECKING" /\ tries' = 1 /\ req' = TRUE
          /\ UNCHANGED <<link, t1, t2, up, addr, live, deaf>>
      BY <1>2 DEF RecvAck, IInv, UpIsLeased
    <2>2. lease' \in Leases
      BY <2>1 DEF Leases
    <2>3. QED
      BY <2>1, <2>2 DEF link, IInv, TypeOK, NeverStuck, HoldsOffer, UpIsLeased,
                        DownIsBare, States
  <1>3. CASE RecvAck /\ st # "REQUESTING"
    BY <1>3, BindKeeps DEF RecvAck, IInv, HoldsOffer
  <1>4. CASE RecvNak
    BY <1>4, DiscoverKeeps DEF RecvNak, TakeDown
  <1>5. CASE ArpReply
    <2>1. ~up
      BY <1>5 DEF ArpReply, IInv, UpIsLeased
    <2>2. {t1', t2'} \subseteq 0..(TICK_MOD - 1)
      BY <1>5 DEF ArpReply, IInv, TypeOK
    <2>3. QED
      BY <1>5, <2>1, <2>2, AskAgainKeeps DEF ArpReply
  <1>6. CASE RecvNameless
    <2>1. /\ attached /\ st = "SELECTING" /\ req' = FALSE /\ deaf' = TRUE
          /\ UNCHANGED <<link, st, tries, t1, t2, offered, lease, up, addr, live>>
      BY <1>6 DEF RecvNameless
    <2>2. QED
      BY <2>1 DEF link, IInv, TypeOK, NeverStuck, HoldsOffer, UpIsLeased, DownIsBare
  <1>7. QED
    BY <1>1, <1>2, <1>3, <1>4, <1>5, <1>6

LEMMA TimeoutKeeps == ASSUME IInv, Timeout PROVE IInv'
  <1>1. attached /\ req /\ {t1, t2} \subseteq 0..(TICK_MOD - 1)
    BY DEF Timeout, IInv, TypeOK
  <1>2. CASE TimeoutSelecting
    BY <1>1, <1>2, DiscoverKeeps
       DEF TimeoutSelecting, IInv, TypeOK, UpIsLeased, DownIsBare
  <1>3. CASE TimeoutRequesting
    <2>1. CASE tries <= 5
      BY <1>1, <1>3, <2>1, AskAgainKeeps DEF TimeoutRequesting, IInv, HoldsOffer, UpIsLeased
    <2>2. CASE ~(tries <= 5)
      BY <1>1, <1>3, <2>2, GiveUpKeeps DEF TimeoutRequesting
    <2>3. QED
      BY <2>1, <2>2
  <1>4. CASE TimeoutChecking
    <2>1. CASE tries <= 1 /\ tries' = tries + 1 /\ req' = TRUE
               /\ UNCHANGED <<link, st, t1, t2, offered, lease, up, addr, live, deaf>>
      BY <1>1, <2>1 DEF link, IInv, TypeOK, NeverStuck, HoldsOffer, UpIsLeased, DownIsBare
    <2>2. CASE Bind
      BY <1>1, <1>4, <2>2, BindKeeps DEF TimeoutChecking, IInv, HoldsOffer
    <2>3. QED
      BY <1>4, <2>1, <2>2 DEF TimeoutChecking
  <1>5. CASE TimeoutRenewing
    BY <1>1, <1>5, AskAgainKeeps DEF TimeoutRenewing, IInv, HoldsOffer
  <1>6. CASE TimeoutRebinding
    <2>1. CASE tries <= 8
      BY <1>1, <1>6, <2>1, AskAgainKeeps DEF TimeoutRebinding, IInv, HoldsOffer
    <2>2. CASE ~(tries <= 8)
      BY <1>1, <1>6, <2>2, GiveUpKeeps DEF TimeoutRebinding
    <2>3. QED
      BY <2>1, <2>2
  <1>7. QED
    BY <1>2, <1>3, <1>4, <1>5, <1>6 DEF Timeout

\* The lease timers act only in states that hold an address to renew.
LEMMA CoarseTickKeeps == ASSUME IInv, CoarseTick PROVE IInv'
  <1>1. {t1', t2'} \subseteq 0..(TICK_MOD - 1)
    BY TimersFit DEF CoarseTick, IInv, TypeOK
  <1>2. attached /\ UNCHANGED <<link, offered, lease, up, addr>>
    BY DEF CoarseTick
  <1>3. CASE UNCHANGED <<st, tries, live, req, deaf>>
    BY <1>1, <1>2, <1>3 DEF link, IInv, TypeOK, NeverStuck, HoldsOffer, UpIsLeased, DownIsBare
  <1>4. CASE \E s \in {"RENEWING", "REBINDING"} :
               Request(s) /\ st \in {"REQUESTING", "BOUND", "RENEWING"}
    BY <1>1, <1>2, <1>4, AskAgainKeeps DEF IInv, HoldsOffer
  <1>5. QED
    BY <1>3, <1>4 DEF CoarseTick, Due

LEMMA StepKeeps == IInv /\ [Next]_vars => IInv'
  <1> SUFFICES ASSUME IInv, [Next]_vars PROVE IInv'
    OBVIOUS
  <1>1. CASE LinkUp
    <2>1. {"SELECTING"} \subseteq Asking /\ "SELECTING" \in States
      BY DEF States, Asking
    <2>2. running' = TRUE /\ wild' = wild /\ (Start \/ NoStart)
      BY <1>1 DEF LinkUp
    <2>3. ~attached
      BY <1>1 DEF LinkUp, IInv, NeverStuck
    <2>4. CASE Start
      BY <2>1, <2>2, <2>3, <2>4, NoLeaseFits
         DEF Start, IInv, TypeOK, NeverStuck, HoldsOffer, UpIsLeased, DownIsBare
    <2>5. CASE NoStart
      BY <2>2, <2>5 DEF NoStart, IInv, TypeOK, NeverStuck, HoldsOffer,
                        UpIsLeased, DownIsBare
    <2>6. QED
      BY <2>2, <2>4, <2>5
  <1>2. CASE LinkDown
    <2>1. lease' \in Leases /\ st' \in States /\ live' \subseteq Asking
      BY <1>2, NoLeaseFits DEF LinkDown, Stop, States
    <2>2. tries' \in 0..(TRIES_MOD - 1) /\ {t1', t2'} \subseteq 0..(TICK_MOD - 1)
      BY <1>2 DEF LinkDown, Stop
    <2>3. /\ running' \in BOOLEAN /\ attached' = FALSE /\ wild' \in BOOLEAN
          /\ req' \in BOOLEAN /\ up' \in BOOLEAN /\ deaf' \in BOOLEAN
      BY <1>2 DEF LinkDown, Stop, TakeDown
    <2>4. TypeOK'
      BY <1>2, <2>1, <2>2, <2>3 DEF LinkDown, Stop, TakeDown, IInv, TypeOK
    <2>5. QED
      BY <1>2, <2>4 DEF LinkDown, Stop, TakeDown, IInv, NeverStuck, HoldsOffer,
                        UpIsLeased, DownIsBare
  <1>3. CASE RecvOffer \/ RecvNameless \/ RecvAck \/ RecvNak \/ ArpReply
    BY <1>3, AnswerKeeps
  <1>4. CASE Timeout
    BY <1>4, TimeoutKeeps
  <1>5. CASE CoarseTick
    BY <1>5, CoarseTickKeeps
  <1>6. CASE UNCHANGED vars
    BY <1>6 DEF vars, link, IInv, TypeOK, NeverStuck, HoldsOffer, UpIsLeased, DownIsBare
  <1>7. QED
    BY <1>1, <1>2, <1>3, <1>4, <1>5, <1>6 DEF Next

LEMMA Invariant == Spec => []IInv
  BY InitIInv, StepKeeps, PTL DEF Spec

\* Type correctness: the fields of struct dhcp and of the interface keep
\* their types, the u8_t and u16_t counters their widths.
THEOREM TypeCorrect == Spec => []TypeOK
  BY Invariant, PTL DEF IInv

\* The only paths through dhcp.c that leave a client which is not bound without
\* a retry are a renewal whose tries come round (dhcp_renew) and an offer
\* without a server identifier (dhcp_recv, dhcp_handle_offer).
THEOREM NeverStuckHolds == Spec => []NeverStuck
  BY Invariant, PTL DEF IInv

\* dhcp_bind never brings the interface up as 0.0.0.0.
THEOREM HoldsOfferHolds == Spec => []HoldsOffer
  BY Invariant, PTL DEF IInv

\* The interface is up only with the address of the lease.
THEOREM UpIsLeasedHolds == Spec => []UpIsLeased
  BY Invariant, PTL DEF IInv

\* Every step of the client is one its user allows for, or changes nothing
\* the user sees.
LEMMA StepServes == IInv /\ [Next]_vars => [Service!Next]_(Service!vars)
  <1> SUFFICES ASSUME IInv, [Next]_vars PROVE [Service!Next]_(Service!vars)
    OBVIOUS
  <1> USE DEF Service!vars
  <1>1. ~up => addr = None
    BY DEF IInv, DownIsBare
  <1>2. ~attached => ~up /\ addr = None
    BY DEF IInv, DownIsBare, UpIsLeased
  <1>3. CASE UNCHANGED <<attached, up, addr>>
    BY <1>3
  <1>4. ASSUME attached, UNCHANGED attached, up' = FALSE, addr' = None
        PROVE  Service!Restart \/ UNCHANGED <<attached, up, addr>>
    <2>1. CASE up
      BY <1>4, <2>1 DEF Service!Restart
    <2>2. CASE up = FALSE
      BY <1>1, <1>4, <2>2
    <2>3. QED
      BY <2>1, <2>2 DEF IInv, TypeOK
  <1>5. ASSUME attached, offered # None, Bind
        PROVE  Service!Bind \/ UNCHANGED <<attached, up, addr>>
    BY <1>5 DEF link, Bind, Service!Bind, IInv, TypeOK, UpIsLeased
  <1>6. CASE LinkUp
    <2>1. ~attached
      BY <1>6 DEF LinkUp, IInv, NeverStuck
    <2>2. CASE Start
      BY <1>2, <2>1, <2>2 DEF Start, Service!Next, Service!Start
    <2>3. CASE NoStart
      BY <1>3, <2>3 DEF NoStart
    <2>4. QED
      BY <1>6, <2>2, <2>3 DEF LinkUp
  <1>7. CASE LinkDown
    <2>1. attached' = FALSE /\ up' = FALSE /\ addr' = None
      BY <1>7 DEF LinkDown, Stop, TakeDown
    <2>2. CASE attached
      BY <2>1, <2>2 DEF Service!Next, Service!Stop
    <2>3. CASE ~attached
      BY <1>2, <2>1, <2>3
    <2>4. QED
      BY <2>2, <2>3
  <1>8. CASE RecvOffer \/ RecvNameless \/ ArpReply \/ CoarseTick
    BY <1>3, <1>8 DEF RecvOffer, RecvNameless, ArpReply, CoarseTick, link
  <1>9. CASE RecvAck
    BY <1>3, <1>5, <1>9 DEF link, RecvAck, IInv, HoldsOffer, Service!Next
  <1>10. CASE RecvNak
    BY <1>3, <1>4, <1>10 DEF link, RecvNak, TakeDown, Service!Next
  <1>11. CASE Timeout
    <2>1. CASE TimeoutSelecting \/ TimeoutRenewing
      BY <1>3, <2>1 DEF link, TimeoutSelecting, TimeoutRenewing
    <2>2. CASE TimeoutRequesting
      BY <1>3, <1>4, <1>11, <2>2 DEF link, Timeout, TimeoutRequesting, GiveUp, TakeDown, Service!Next
    <2>3. CASE TimeoutChecking
      BY <1>3, <1>5, <1>11, <2>3 DEF link, Timeout, TimeoutChecking, IInv, HoldsOffer, Service!Next
    <2>4. CASE TimeoutRebinding
      BY <1>3, <1>4, <1>11, <2>4 DEF link, Timeout, TimeoutRebinding, GiveUp, TakeDown, Service!Next
    <2>5. QED
      BY <1>11, <2>1, <2>2, <2>3, <2>4 DEF Timeout
  <1>12. CASE UNCHANGED vars
    BY <1>3, <1>12 DEF vars, link
  <1>13. QED
    BY <1>6, <1>7, <1>8, <1>9, <1>10, <1>11, <1>12 DEF Next

\* DhcpClient implements DhcpService: dhcp.c, with its retries, lost answers
\* and lease timers, gives main.c and wl_cm.c what they rely on.
THEOREM ServesLinkHolds == Spec => ServesLink
  <1>1. Init => Service!Init
    BY DEF Init, Service!Init
  <1>2. QED
    BY <1>1, StepServes, Invariant, PTL DEF Spec, ServesLink, Service!Spec
=============================================================================
