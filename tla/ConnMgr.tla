------------------------------ MODULE ConnMgr ------------------------------
(***************************************************************************)
(* The connection manager of the WiFi shield (wl_cm.c) together with what  *)
(* hangs on it in main.c and ard_spi.c: the address configuration, the     *)
(* interface state and the result the host reads.                          *)
(*                                                                         *)
(* Everything runs from one polling loop (main.c, poll): commands of the   *)
(* host, events of the WLAN driver and packets for lwIP are handled one    *)
(* after the other, so a handler with all its callbacks is one action.     *)
(*                                                                         *)
(* The driver is a closed library: it is modelled from its interface,      *)
(* wl_api.h.  A scan and an attempt to connect run in the background and   *)
(* end with an event; a second connect meanwhile is answered WL_RETRY, a   *)
(* connect while associated WL_BUSY; wl_scan is refused only while a scan  *)
(* runs.                                                                   *)
(*                                                                         *)
(* The DHCP client is lwIP's.  A dhcp_start that finds no memory leaves    *)
(* none, and main.c takes DHCP to run all the same: the release at the end *)
(* of the association then writes through a NULL pointer, which may do     *)
(* harm or not; when it does (`wild`) the model ends.                      *)
(*                                                                         *)
(* wl_cm_stop is called nowhere in this build (cmd_ibss is compiled under  *)
(* WFE_6_12, which nothing defines), so cm->enabled is 1 from the start    *)
(* and its tests always pass.                                              *)
(***************************************************************************)
EXTENDS Integers

CONSTANTS
    Ssids,                   \* network names
    Bssids,                  \* access points of a network
    NoSsid,                  \* candidate.ssid.len = 0
    NoAp,                    \* no network (NULL)
    Rssi,                    \* signal strengths, dBm
    Socks,                   \* sockets a TCP server is started on
    MayFail,                 \* dhcp_start may find no memory
    ROAMING_RSSI_THRESHOLD,  \* -65
    ROAMING_RSSI_DIFF        \* 10

\* An access point, struct wl_network_t.
Aps == [ssid : Ssids, bssid : Bssids]

ASSUME ConnAssumption ==
    /\ NoSsid \notin Ssids
    /\ NoAp \notin Aps
    /\ MayFail \in BOOLEAN
    /\ Rssi \subseteq Int
    /\ ROAMING_RSSI_THRESHOLD \in Int /\ ROAMING_RSSI_DIFF \in Int

VARIABLES
    candidate,    \* the network the host asked for, cm->candidate
    scanDone,     \* scanNetCompleted
    dhcpMode,     \* net_cfg.dhcp_enabled
    dhcpRunning,  \* net_cfg.dhcp_running
    ifStatus,     \* the interface is up; ip_status_cb keeps it equal to the netif flag
    result,       \* result of the last operation
    servers,      \* sockets with a TCP server
    scanning,     \* driver: a scan runs
    joining,      \* driver: the network it is trying to join
    link,         \* driver: the network it is associated with
    leaving,      \* driver: a disconnect was asked for
    dhcp,         \* lwIP: state of the DHCP client; "failed" after a start without memory
    addr,         \* lwIP: where the address of the interface comes from
    wild          \* a write through NULL has done harm

driver == <<scanning, joining, link, leaving>>
net    == <<dhcpRunning, ifStatus, result, servers, dhcp, addr, wild>>
vars   == <<candidate, scanDone, dhcpMode, driver, net>>

\* wl_init_complete_cb: DHCP by default, first scan under way.
Init ==
    /\ candidate = NoSsid /\ scanDone = FALSE
    /\ dhcpMode = "dynamic" /\ dhcpRunning = FALSE
    /\ ifStatus = FALSE /\ result = "idle" /\ servers = {}
    /\ scanning = TRUE /\ joining = NoAp /\ link = NoAp /\ leaving = FALSE
    /\ dhcp = "off" /\ addr = "none" /\ wild = FALSE

-----------------------------------------------------------------------------
(* The interface.  ip_status_cb runs when the interface changes state.     *)

SetUp ==
    /\ ifStatus' = TRUE
    /\ result' = IF ifStatus THEN result ELSE "connected"
    /\ UNCHANGED servers

\* Mutant: the connections stay open.
Bug_SetDown == ifStatus' = FALSE /\ UNCHANGED servers

\* The TCP servers are closed with the interface.
SetDown ==
    /\ ifStatus' = FALSE
    /\ servers' = IF ifStatus THEN {} ELSE servers

\* dhcp_start
DhcpStart ==
    \/ dhcp' = "asking"
    \/ MayFail /\ dhcp' = "failed"

\* Mutant: nothing to start without DHCP.
Bug_ConnCb ==
    \/ /\ dhcpMode = "dynamic"
       /\ DhcpStart /\ dhcpRunning' = TRUE
       /\ UNCHANGED <<ifStatus, result, servers, addr, wild>>
    \/ /\ dhcpMode = "static"
       /\ UNCHANGED net

\* wl_cm_conn_cb: dhcp_running is set whatever dhcp_start returned.
ConnCb ==
    \/ /\ dhcpMode = "dynamic"
       /\ DhcpStart /\ dhcpRunning' = TRUE
       /\ UNCHANGED <<ifStatus, result, servers, addr, wild>>
    \/ /\ dhcpMode = "static"
       /\ SetUp
       /\ UNCHANGED <<dhcp, dhcpRunning, addr, wild>>

\* Mutant: the result is not reset.
Bug_DisconnCb ==
    /\ SetDown
    /\ dhcpRunning' = FALSE
    /\ dhcp' = IF dhcpRunning THEN "off" ELSE dhcp
    /\ addr' = IF dhcpRunning THEN "none" ELSE addr
    /\ wild' \in IF dhcpRunning /\ dhcp \in {"off", "failed"} THEN BOOLEAN ELSE {FALSE}
    /\ UNCHANGED result

\* wl_cm_disconn_cb: dhcp_release and dhcp_stop also take the address away.
\* The release of no client writes through NULL.
DisconnCb ==
    /\ SetDown
    /\ result' = "connect_failed"
    /\ dhcpRunning' = FALSE
    /\ dhcp' = IF dhcpRunning THEN "off" ELSE dhcp
    /\ addr' = IF dhcpRunning THEN "none" ELSE addr
    /\ wild' \in IF dhcpRunning /\ dhcp \in {"off", "failed"} THEN BOOLEAN ELSE {FALSE}

-----------------------------------------------------------------------------
(* Choosing a network.                                                     *)

\* Mutant: the name is not compared.
Bug_FindBestCandidate(visible, rssi) ==
    IF visible = {} THEN {NoAp}
    ELSE {a \in visible : \A b \in visible : rssi[b] <= rssi[a]}

\* The strongest of the access points seen with the name asked for; among
\* equals the order of the driver's list decides.
FindBestCandidate(visible, rssi) ==
    LET matching == {a \in visible : a.ssid = candidate}
    IN  IF matching = {} THEN {NoAp}
        ELSE {a \in matching : \A b \in matching : rssi[b] <= rssi[a]}

\* Already there, or roaming within the network is not worth it.
Stays(best, rssi) ==
    /\ best # NoAp /\ link # NoAp
    /\ \/ best = link
       \/ /\ best.ssid = link.ssid
          /\ \/ rssi[link] > ROAMING_RSSI_THRESHOLD
             \/ rssi[best] < rssi[link] + ROAMING_RSSI_DIFF

\* wl_connect_bssid for a network seen in the scan, wl_connect for a hidden
\* one: it may find any access point of that name.
Joinable(best) == IF best = NoAp THEN {a \in Aps : a.ssid = candidate} ELSE {best}

\* The connect of select_net and what it does with the driver's answer.
TryConnect(best) ==
    \/ \* WL_SUCCESS
       /\ link = NoAp /\ joining = NoAp
       /\ joining' \in Joinable(best)
       /\ scanning' = FALSE /\ UNCHANGED leaving
    \/ \* WL_SUCCESS: associated with this hidden network
       /\ link \in Joinable(best)
       /\ scanning' = FALSE /\ UNCHANGED <<joining, leaving>>
    \/ \* WL_BUSY: wl_disconnect
       /\ link # NoAp
       /\ leaving' = TRUE
       /\ scanning' = FALSE /\ UNCHANGED joining
    \/ \* WL_RETRY, an operation is under way, or WL_FAILURE, not found: scan again
       /\ link = NoAp \/ leaving
       /\ scanning' = TRUE
       /\ UNCHANGED <<joining, leaving>>

SelectNet(best, rssi) ==
    \/ /\ candidate = NoSsid \/ Stays(best, rssi)
       /\ scanning' = FALSE /\ UNCHANGED <<joining, leaving>>
    \/ /\ candidate # NoSsid /\ ~Stays(best, rssi)
       /\ TryConnect(best)

-----------------------------------------------------------------------------
(* Events of the driver.                                                   *)

\* WL_EVENT_SCAN_COMPLETE
ScanComplete ==
    /\ scanning
    /\ scanDone' = TRUE
    /\ \E visible \in SUBSET Aps, rssi \in [Aps -> Rssi] :
          \E best \in FindBestCandidate(visible, rssi) : SelectNet(best, rssi)
    /\ UNCHANGED <<candidate, dhcpMode, link, net>>

\* WL_EVENT_MEDIA_CONNECTED
MediaConnected ==
    /\ joining # NoAp
    /\ link' = joining /\ joining' = NoAp
    /\ ConnCb
    /\ UNCHANGED <<candidate, scanDone, dhcpMode, scanning, leaving>>

\* Mutant: no scan after a failed attempt.
Bug_ConnFailure ==
    /\ joining # NoAp
    /\ joining' = NoAp
    /\ UNCHANGED <<candidate, scanDone, dhcpMode, scanning, link, leaving, net>>

\* WL_EVENT_CONN_FAILURE
ConnFailure ==
    /\ joining # NoAp
    /\ joining' = NoAp
    /\ scanning' = TRUE
    /\ UNCHANGED <<candidate, scanDone, dhcpMode, link, leaving, net>>

\* WL_EVENT_MEDIA_DISCONNECTED: asked for, or the access point is gone.
MediaDisconnected ==
    /\ link # NoAp
    /\ link' = NoAp /\ leaving' = FALSE
    /\ DisconnCb
    /\ scanning' = TRUE
    /\ UNCHANGED <<candidate, scanDone, dhcpMode, joining>>

-----------------------------------------------------------------------------
(* lwIP's DHCP client.                                                     *)

\* A lease, the first one or a renewal.
DhcpBind ==
    /\ dhcp \in {"asking", "bound"}
    /\ dhcp' = "bound" /\ addr' = "leased"
    /\ SetUp
    /\ UNCHANGED <<candidate, scanDone, dhcpMode, dhcpRunning, driver, wild>>

\* The server refused the lease, or no server renewed it: start again.
DhcpRestart ==
    /\ dhcp \in {"asking", "bound"}
    /\ dhcp' = "asking" /\ addr' = "none"
    /\ SetDown
    /\ UNCHANGED <<candidate, scanDone, dhcpMode, dhcpRunning, result, driver, wild>>

-----------------------------------------------------------------------------
(* Commands of the host and of the console.                                *)

\* SET_NET, SET_KEY, SET_PASSPHRASE: wl_cm_set_network.
SetNetwork ==
    /\ candidate' \in Ssids \cup {NoSsid}
    /\ scanning' = (scanning \/ candidate' # NoSsid)
    /\ UNCHANGED <<scanDone, dhcpMode, joining, link, leaving, net>>

\* Mutant: the flag of the running client is cleared with the mode.
Bug_SetIpConfig ==
    /\ addr' = "static" /\ dhcpMode' = "static" /\ dhcpRunning' = FALSE
    /\ UNCHANGED <<candidate, scanDone, driver, ifStatus, result, servers, dhcp, wild>>

\* SET_IP_CONFIG: each parameter is set as it is read, a bad one ends the
\* command before the mode is changed, and none at all changes only the mode.
SetIpConfig ==
    /\ addr' \in {addr, "static"} /\ dhcpMode' \in {dhcpMode, "static"}
    /\ UNCHANGED <<candidate, scanDone, driver, dhcpRunning, ifStatus, result, servers, dhcp,
                   wild>>

\* SET_DNS_CONFIG switches DHCP off too, unless a parameter is bad.
SetDnsConfig ==
    /\ dhcpMode' \in {dhcpMode, "static"}
    /\ UNCHANGED <<candidate, scanDone, driver, net>>

\* ipconfig none, on the console
IpConfigNone ==
    /\ dhcpMode' = "dynamic"
    /\ UNCHANGED <<candidate, scanDone, driver, net>>

\* DISCONNECT: wl_disconnect fails when there is no association.
Disconnect ==
    /\ link # NoAp
    /\ leaving' = TRUE
    /\ UNCHANGED <<candidate, scanDone, dhcpMode, scanning, joining, link, net>>

\* START_SCAN_NETWORKS: one scan at a time for the host.
StartScanNet ==
    /\ scanDone
    /\ scanDone' = FALSE /\ scanning' = TRUE
    /\ UNCHANGED <<candidate, dhcpMode, joining, link, leaving, net>>

\* START_SERVER_TCP: refused, with nothing changed, while the interface is down
\* or a client of any socket is connected; when it fails the socket is left
\* without a server.
StartServer ==
    /\ ifStatus
    /\ \E s \in Socks : servers' \in {servers \cup {s}, servers \ {s}}
    /\ UNCHANGED <<candidate, scanDone, dhcpMode, driver, dhcpRunning, ifStatus, result, dhcp, addr,
                   wild>>

Next ==
  /\ ~wild
  /\ \/ ScanComplete \/ MediaConnected \/ ConnFailure \/ MediaDisconnected
     \/ DhcpBind \/ DhcpRestart
     \/ SetNetwork \/ SetIpConfig \/ SetDnsConfig \/ IpConfigNone
     \/ Disconnect \/ StartScanNet \/ StartServer

Spec == Init /\ [][Next]_vars

\* The driver ends what it began, its attempts succeed now and then, and
\* a DHCP server answers.
Fairness ==
    /\ WF_vars(~wild /\ ScanComplete)
    /\ WF_vars(~wild /\ (MediaConnected \/ ConnFailure))
    /\ WF_vars(~wild /\ leaving /\ MediaDisconnected)
    /\ SF_vars(~wild /\ ScanComplete /\ joining' # joining)
    /\ SF_vars(~wild /\ MediaConnected)
    /\ WF_vars(~wild /\ DhcpBind)

FairSpec == Spec /\ Fairness

-----------------------------------------------------------------------------
(* What get_reply_cb answers to GET_CONN_STATUS.                           *)
ConnStatus == IF ifStatus THEN "connected" ELSE result

On(a, s) == a # NoAp /\ a.ssid = s

\* Types.
TypeOK ==
    /\ candidate \in Ssids \cup {NoSsid}
    /\ dhcpMode \in {"dynamic", "static"}
    /\ {scanDone, dhcpRunning, ifStatus, scanning, leaving, wild} \subseteq BOOLEAN
    /\ result \in {"idle", "connected", "connect_failed"}
    /\ servers \subseteq Socks
    /\ joining \in Aps \cup {NoAp} /\ link \in Aps \cup {NoAp}
    /\ dhcp \in {"off", "failed", "asking", "bound"}
    /\ addr \in {"none", "static", "leased"}

\* The manager never rests short of its aim: while a network is asked for
\* (set_network) and the station is not on it, a scan, an attempt to join
\* that network, or the way out of another one is under way, whose event
\* leads on.
KeepsTrying ==
    candidate # NoSsid =>
        scanning \/ leaving \/ On(joining, candidate) \/ On(link, candidate)

\* The host is told WL_CONNECTED (get_reply_cb) only while the station is
\* associated, although the status is put together from two variables that
\* different callbacks write.
ToldConnectedIsLinked == ConnStatus = "connected" => link # NoAp

\* dhcp_running says that dhcp_start was called for this association: there is
\* a DHCP client exactly then, unless that start found no memory, whatever
\* SET_IP_CONFIG, SET_DNS_CONFIG and the console did to dhcp_enabled in
\* between.  So wl_cm_disconn_cb never leaves a client behind, and the only
\* client it releases that does not exist is one whose start failed.
DhcpFollowsLink ==
    /\ (dhcp # "off") = dhcpRunning
    /\ dhcpRunning => link # NoAp
    /\ dhcp = "failed" \/ wild => MayFail

\* No TCP server outlives the interface it was started on.
ServersNeedInterface == servers # {} => ifStatus

\* While the host is told to wait for the scan it asked for
\* (get_reply_scan_networks_cb), a scan runs.
ScanPromised == ~scanDone => scanning

\* A network asked for for good is joined again and again, whatever network
\* the station was on, was joining or was leaving when it was asked for.
Rejoins == \A s \in Ssids : <>[](candidate = s) => []<>On(link, s) \/ <>wild

\* An association that lasts gets an interface that is up, also when the
\* address configuration was changed before or during it.  Only a dhcp_start
\* that found no memory stops it: nothing tries again before the association
\* ends, also when the host then sets an address.
GetsAddress == <>[](link # NoAp) => []<>ifStatus \/ <>[](dhcp = "failed")

\* WiFi.config, "Change Ip configuration settings disabling the dhcp client":
\* the address it sets stays until another configuration is asked for.
StaticAddressStays ==
    [][dhcpMode = "static" /\ addr = "static" => addr' = "static"]_vars
=============================================================================
