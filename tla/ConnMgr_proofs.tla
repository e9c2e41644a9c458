--------------------------- MODULE ConnMgr_proofs ---------------------------
(***************************************************************************)
(* Proofs about ConnMgr, for every set of networks, access points and      *)
(* sockets, every signal strength and every threshold.                     *)
(***************************************************************************)
EXTENDS ConnMgr, TLAPS

\* The driver does one thing at a time: no attempt to join while associated,
\* nothing to leave without an association.
OneAtATime == /\ joining # NoAp => link = NoAp
              /\ leaving => link # NoAp

\* Both halves of the status ConnStatus is put together from are withdrawn
\* with the association.  ToldConnectedIsLinked alone is not inductive: while
\* the interface is up it says nothing of result, which shows through when
\* DhcpRestart takes the interface down.
UpIsLinked == ifStatus \/ result = "connected" => link # NoAp

\* The inductive invariant.
IInv == /\ TypeOK
        /\ OneAtATime
        /\ KeepsTrying
        /\ UpIsLinked
        /\ DhcpFollowsLink
        /\ ServersNeedInterface
        /\ ScanPromised

USE ConnAssumption DEF ConnAssumption

\* The network chosen is NoAp or one with the name asked for.
LEMMA BestIsCandidate ==
  ASSUME NEW visible \in SUBSET Aps, NEW rssi \in [Aps -> Rssi],
         NEW best \in FindBestCandidate(visible, rssi)
  PROVE  best = NoAp \/ (best \in Aps /\ best.ssid = candidate)
  <1> DEFINE matching == {a \in visible : a.ssid = candidate}
  <1>1. CASE matching = {}
    BY <1>1 DEF FindBestCandidate
  <1>2. CASE matching # {}
    BY <1>2 DEF FindBestCandidate
  <1>3. QED
    BY <1>1, <1>2

\* So whatever the driver may join is an access point of that name.
LEMMA JoinableIsCandidate ==
  ASSUME NEW best, best = NoAp \/ (best \in Aps /\ best.ssid = candidate),
         NEW a \in Joinable(best)
  PROVE  a \in Aps /\ a # NoAp /\ a.ssid = candidate
  BY DEF Joinable

LEMMA InitIInv == Init => IInv
  BY DEF Init, IInv, TypeOK, OneAtATime, KeepsTrying, UpIsLinked,
         DhcpFollowsLink, ServersNeedInterface, ScanPromised

\* The end of a scan leaves the manager at its aim, on its way to it, or with
\* a new scan.
LEMMA ScanCompleteKeeps == IInv /\ ScanComplete => IInv'
  <1> SUFFICES ASSUME IInv, ScanComplete PROVE IInv'
    OBVIOUS
  <1> USE DEF IInv
  <1>1. UNCHANGED <<candidate, dhcpMode, link, net>> /\ scanDone' = TRUE
    BY DEF ScanComplete
  <1>2. PICK visible \in SUBSET Aps, rssi \in [Aps -> Rssi] :
          \E best \in FindBestCandidate(visible, rssi) : SelectNet(best, rssi)
    BY DEF ScanComplete
  <1>3. PICK best \in FindBestCandidate(visible, rssi) : SelectNet(best, rssi)
    BY <1>2
  <1>4. best = NoAp \/ (best \in Aps /\ best.ssid = candidate)
    BY <1>3, BestIsCandidate
  <1>5. \A a \in Joinable(best) : a \in Aps /\ a # NoAp /\ a.ssid = candidate
    BY <1>4, JoinableIsCandidate
  <1>6. /\ joining' \in Aps \cup {NoAp} /\ {scanning', leaving'} \subseteq BOOLEAN
        /\ OneAtATime' /\ KeepsTrying'
    <2>1. CASE candidate = NoSsid /\ scanning' = FALSE /\ UNCHANGED <<joining, leaving>>
      BY <1>1, <2>1 DEF TypeOK, OneAtATime, KeepsTrying
    <2>2. CASE candidate # NoSsid /\ Stays(best, rssi) /\ scanning' = FALSE
               /\ UNCHANGED <<joining, leaving>>
      <3>1. On(link, candidate)
        BY <1>4, <2>2 DEF Stays, On
      <3>2. QED
        BY <1>1, <2>2, <3>1 DEF TypeOK, OneAtATime, KeepsTrying, On
    <2>3. CASE candidate # NoSsid /\ TryConnect(best)
      <3>1. CASE /\ link = NoAp /\ joining = NoAp
                 /\ joining' \in Joinable(best)
                 /\ scanning' = FALSE /\ UNCHANGED leaving
        BY <1>1, <1>5, <3>1 DEF TypeOK, OneAtATime, KeepsTrying, On
      <3>2. CASE /\ link \in Joinable(best)
                 /\ scanning' = FALSE /\ UNCHANGED <<joining, leaving>>
        BY <1>1, <1>5, <3>2 DEF TypeOK, OneAtATime, KeepsTrying, On
      <3>3. CASE link # NoAp /\ leaving' = TRUE /\ scanning' = FALSE /\ UNCHANGED joining
        BY <1>1, <3>3 DEF TypeOK, OneAtATime, KeepsTrying
      <3>4. CASE scanning' = TRUE /\ UNCHANGED <<joining, leaving>>
        BY <1>1, <3>4 DEF TypeOK, OneAtATime, KeepsTrying
      <3>5. QED
        BY <2>3, <3>1, <3>2, <3>3, <3>4 DEF TryConnect
    <2>4. QED
      BY <1>3, <2>1, <2>2, <2>3 DEF SelectNet
  <1>7. TypeOK'
    BY <1>1, <1>6 DEF TypeOK, net
  <1>8. UpIsLinked' /\ DhcpFollowsLink' /\ ServersNeedInterface' /\ ScanPromised'
    BY <1>1 DEF UpIsLinked, DhcpFollowsLink, ServersNeedInterface, ScanPromised, net
  <1>9. QED
    BY <1>6, <1>7, <1>8

\* Each of the other steps, one invariant after the other.
LEMMA StepKeeps == IInv /\ [Next]_vars => IInv'
  <1> SUFFICES ASSUME IInv, [Next]_vars PROVE IInv'
    OBVIOUS
  <1> USE DEF IInv
  <1>1. CASE ScanComplete
    BY <1>1, ScanCompleteKeeps
  <1>2. CASE MediaConnected
    <2>1. /\ link' = joining /\ joining # NoAp /\ joining' = NoAp
          /\ UNCHANGED <<candidate, scanDone, dhcpMode, scanning, leaving, addr, servers, wild>>
      BY <1>2 DEF MediaConnected, ConnCb, SetUp, net
    <2>2. \/ /\ dhcp' = "asking" \/ (MayFail /\ dhcp' = "failed")
             /\ dhcpRunning' = TRUE
             /\ UNCHANGED <<ifStatus, result>>
          \/ /\ ifStatus' = TRUE /\ result' \in {result, "connected"}
             /\ UNCHANGED <<dhcp, dhcpRunning>>
      BY <1>2 DEF MediaConnected, ConnCb, DhcpStart, SetUp
    <2>3. TypeOK' /\ OneAtATime' /\ KeepsTrying'
      BY <2>1, <2>2 DEF TypeOK, OneAtATime, KeepsTrying, On
    <2>4. UpIsLinked' /\ DhcpFollowsLink' /\ ServersNeedInterface' /\ ScanPromised'
      BY <2>1, <2>2 DEF TypeOK, UpIsLinked, DhcpFollowsLink, ServersNeedInterface,
                        ScanPromised
    <2>5. QED
      BY <2>3, <2>4
  <1>3. CASE ConnFailure
    BY <1>3 DEF ConnFailure, net, TypeOK, OneAtATime, KeepsTrying, UpIsLinked,
                DhcpFollowsLink, ServersNeedInterface, ScanPromised
  <1>4. CASE MediaDisconnected
    <2>1. /\ link' = NoAp /\ leaving' = FALSE /\ scanning' = TRUE
          /\ UNCHANGED <<candidate, scanDone, dhcpMode, joining>>
      BY <1>4 DEF MediaDisconnected
    <2>2. /\ ifStatus' = FALSE /\ result' = "connect_failed" /\ dhcpRunning' = FALSE
          /\ dhcp' = (IF dhcpRunning THEN "off" ELSE dhcp)
          /\ addr' = (IF dhcpRunning THEN "none" ELSE addr)
          /\ servers' = (IF ifStatus THEN {} ELSE servers)
          /\ wild' \in (IF dhcpRunning /\ dhcp \in {"off", "failed"} THEN BOOLEAN ELSE {FALSE})
      BY <1>4 DEF MediaDisconnected, DisconnCb, SetDown
    <2>3. joining = NoAp
      BY <1>4 DEF MediaDisconnected, OneAtATime
    <2>4. TypeOK' /\ OneAtATime' /\ KeepsTrying'
      BY <2>1, <2>2, <2>3 DEF TypeOK, OneAtATime, KeepsTrying
    <2>5. UpIsLinked' /\ DhcpFollowsLink' /\ ServersNeedInterface' /\ ScanPromised'
      BY <2>1, <2>2 DEF TypeOK, UpIsLinked, DhcpFollowsLink, ServersNeedInterface,
                        ScanPromised
    <2>6. QED
      BY <2>4, <2>5
  <1>5. CASE DhcpBind
    BY <1>5 DEF DhcpBind, SetUp, driver, TypeOK, OneAtATime, KeepsTrying, On,
                UpIsLinked, DhcpFollowsLink, ServersNeedInterface, ScanPromised
  <1>6. CASE DhcpRestart
    BY <1>6 DEF DhcpRestart, SetDown, driver, TypeOK, OneAtATime, KeepsTrying, On,
                UpIsLinked, DhcpFollowsLink, ServersNeedInterface, ScanPromised
  <1>7. CASE SetNetwork
    BY <1>7 DEF SetNetwork, net, TypeOK, OneAtATime, KeepsTrying, UpIsLinked,
                DhcpFollowsLink, ServersNeedInterface, ScanPromised
  <1>8. CASE SetIpConfig
    BY <1>8 DEF SetIpConfig, driver, TypeOK, OneAtATime, KeepsTrying, On,
                UpIsLinked, DhcpFollowsLink, ServersNeedInterface, ScanPromised
  <1>9. CASE SetDnsConfig \/ IpConfigNone
    BY <1>9 DEF SetDnsConfig, IpConfigNone, driver, net, TypeOK, OneAtATime,
                KeepsTrying, On, UpIsLinked, DhcpFollowsLink,
                ServersNeedInterface, ScanPromised
  <1>10. CASE Disconnect
    BY <1>10 DEF Disconnect, net, TypeOK, OneAtATime, KeepsTrying, UpIsLinked,
                 DhcpFollowsLink, ServersNeedInterface, ScanPromised
  <1>11. CASE StartScanNet
    BY <1>11 DEF StartScanNet, net, TypeOK, OneAtATime, KeepsTrying, UpIsLinked,
                 DhcpFollowsLink, ServersNeedInterface, ScanPromised
  <1>12. CASE StartServer
    BY <1>12 DEF StartServer, driver, TypeOK, OneAtATime, KeepsTrying, On,
                 UpIsLinked, DhcpFollowsLink, ServersNeedInterface, ScanPromised
  <1>13. CASE UNCHANGED vars
    BY <1>13 DEF vars, driver, net, TypeOK, OneAtATime, KeepsTrying, On,
                 UpIsLinked, DhcpFollowsLink, ServersNeedInterface, ScanPromised
  <1>14. QED
    BY <1>1, <1>2, <1>3, <1>4, <1>5, <1>6, <1>7, <1>8, <1>9, <1>10, <1>11,
       <1>12, <1>13 DEF Next

LEMMA Invariant == Spec => []IInv
  BY InitIInv, StepKeeps, PTL DEF Spec

\* Type correctness: every variable keeps its type (cm, net_cfg, and the
\* statuses main.c and ard_spi.c keep).
THEOREM TypeCorrect == Spec => []TypeOK
  BY Invariant, PTL DEF IInv

\* select_net and the event callbacks never leave the manager waiting for an
\* event that does not come: short of its aim, something is under way.
THEOREM KeepsTryingHolds == Spec => []KeepsTrying
  BY Invariant, PTL DEF IInv

\* get_reply_cb tells the host "connected" only while the station is
\* associated.
THEOREM ToldConnectedIsLinkedHolds == Spec => []ToldConnectedIsLinked
  <1>1. IInv => ToldConnectedIsLinked
    BY DEF IInv, ToldConnectedIsLinked, UpIsLinked, ConnStatus
  <1>2. QED
    BY <1>1, Invariant, PTL

\* wl_cm_disconn_cb releases exactly the DHCP client that wl_cm_conn_cb started,
\* or, after a start without memory, the one that is missing.
THEOREM DhcpFollowsLinkHolds == Spec => []DhcpFollowsLink
  BY Invariant, PTL DEF IInv

\* ip_status_cb leaves no TCP server behind on an interface that is down.
THEOREM ServersNeedInterfaceHolds == Spec => []ServersNeedInterface
  BY Invariant, PTL DEF IInv

\* A host that start_scan_net_cmd_cb has told to wait is told by
\* wl_scan_complete_cb that its scan is over: until then a scan runs.
THEOREM ScanPromisedHolds == Spec => []ScanPromised
  BY Invariant, PTL DEF IInv
=============================================================================
