# Verification of the station's network code

The repository holds ESP8266 sketches and the Arduino libraries they are built with,
among them the WiFi shield library with the sources of the shield's own firmware.
This directory holds TLA+ models of the parts that keep state, TLC configurations that
check them on small instances, and proofs for TLAPS that hold for every size.

Contents: [1 inventory](#1-inventory) · [2 modules](#2-modules-and-the-code) ·
[3 runs](#3-runs-bounds-and-fairness) · [4 proofs](#4-proofs) ·
[5 divergences](#5-where-code-and-documentation-disagree) ·
[6 what is left out](#6-what-is-not-modelled) · [7 plan](#7-plan) ·
[8 running it](#8-running-it)

Paths are relative to `src/`; `wifiHD` is `libraries/WiFi/extras/wifiHD/src`, `WiFi` is
`libraries/WiFi/src`, `MQTT` is `libraries/Adafruit_MQTT_Library`.

## 1. Inventory

Two machines meet in this code. The *host* runs a sketch and the host libraries. The
*shield* runs the firmware of `wifiHD`: one polling loop (`main.c`) that serves commands
of the host over SPI, events of a closed WLAN driver, and lwIP with its timers; only
the SPI line has an interrupt handler. The ESP8266 sketches use the same MQTT and sensor
libraries over the chip's own WiFi.

| Component | State | Operations | Talks to |
|---|---|---|---|
| Packet store, `wifiHD/ard_utils.c` | per socket a ring of heap blocks: `pBufStore`, `headBuf`, `tailBuf` | insert from the network or the host, read a byte or a block, merge into a datagram, clear, free | lwIP callbacks insert, SPI handlers read; acknowledges to lwIP (`ack_recved`) |
| DHCP client, lwIP's `dhcp.c` as `wifiHD/lwip_setup.c` and `main.c` drive it | `struct dhcp`: state, tries, timers, offered address and lease | start, release, stop, offers, acknowledgements, refusals, ARP answers, fine and coarse timer | connection manager, network |
| TCP and UDP sockets, `wifiHD/ard_tcp.c` | `struct ttcp`: pcbs, table of a server's clients, payload and bytes left per client, `pending_close`, retries; `mapSockTCP`; one global `_connected` | start, stop, accept, send, poll, sent, close, error | lwIP, packet store, SPI handlers |
| SPI link, `wifiHD/ard_spi.c`, `WiFi/utility/spi_drv.cpp` | command buffer, link state, `startRecvCmdSignal`, reply buffer | interrupt handler, poll, dispatch, reply; on the host send, wait, read | every command handler |
| Connection manager, `wifiHD/wl_cm.c` with `main.c`, `lwip_setup.c`, `cmd_wl.c` | candidate network, `ifStatus`, `result`, `scanNetCompleted`, DHCP configuration, running servers | set network, disconnect, scan, configure addresses, driver events, interface callback | WLAN driver, DHCP client of lwIP, TCP servers |
| Host WiFi library, `WiFi/*.cpp`, `utility/*_drv.cpp` | `_state` and `_server_port` per socket, a counter for server restarts | connect, stop, available, begin, parsePacket | SPI link |
| MQTT client, `MQTT/Adafruit_MQTT*.cpp` | subscription table, `packet_id_counter`, receive buffer, TCP client | connect, disconnect, publish, subscribe, unsubscribe, ping, readSubscription, processPackets | broker, TCP client |
| MQTT packet framing, `MQTT/Adafruit_MQTT.cpp` 231-279 | position in the byte stream | `readFullPacket` | TCP client |
| Web and MQTT station, `esp8266 code/webserv` | sensor values, timers, web server | `setup`, `loop`, `MQTT_connect`, `publish_mqtt`, pages | MQTT client, sensors, watchdog |
| OneWire bus, `libraries/OneWire` | `ROM_NO`, `LastDiscrepancy`, `LastDeviceFlag` | search, reset of a search, search of a family | devices of the bus |
| DallasTemperature, `libraries/DallasTemperature` | its own `alarmSearch...` variables, scratchpads | alarm search and its loops, convert, read | devices of the bus |
| DHT sensors, `libraries/DHT_sensor_library_for_ESPx` | timings | read | hardware |
| `Adafruit_ESP8266`, other sketches, console, vendored code | little of their own | see `PROJECT.json` | |

What is hard in it, and what makes each part correct:

* **Packet store.** One ring is filled by callbacks of the network and by the host and
  emptied by the host; a full ring steps its head back; walks with a do-while loop see the
  whole ring when it is empty. Right means: a read never meets a hole (it would stay there
  for ever), no block is leaked or freed twice, packets come in order and without a gap, a stop
  clears what its connection left, the TCP window is given back exactly, and what is stored is
  read in the end.
* **MQTT client.** Answers carry no call: an answer to a call that gave up is read by the
  next one. Retries outlive their call. The connection is lost at any point. Right means:
  a result of a call may be relied on, the table and the broker agree on the subscriptions,
  and every call returns.
* **Connection manager.** Commands come while the driver is in the middle of something;
  the driver answers busy or retry and the manager then relies on the next event. Right
  means: it never stalls short of the network asked for, the host is told connected only
  while associated, the DHCP client and the servers follow the link.
* **DHCP client.** Starts and requests find no memory, answers are lost, late and repeated, timers
  of a lease outlive it, counters come round. Right means: a retry is ahead, the interface is
  up only with the leased address, a client gets one, a lease nobody confirms ends.
* **TCP sockets.** Callbacks of one connection use state of the socket or of all sockets;
  entries of the table outlive their control block; closes are put off when memory is short.
  Right means: the table holds the open clients and nothing else, what was put off is done.
* **SPI link.** Interrupt handler, polling loop and the host's clock share a buffer, bytes look
  like delimiters, the host pauses. Right means: only whole requests run and once, undisturbed
  calls are answered, and the two sides get in step again.
* **Searches.** Each call goes on from what the one before left, while devices come and go.
  Right means: each device once, none missed, no mixture of two, and loops that end.
* **Packet framing.** A stream is cut by lengths into one buffer that serves everything. Right
  means: reading stays at the boundaries of packets and a message is the one that was sent.
* **Host library, station.** Waiting loops with timeouts over all of the above.

`PROJECT.json` lists these hazards at their lines, each with the properties that cover it or
with the reason why none does.

## 2. Modules and the code

Every definition has its lines in the `map` of `PROJECT.json`. Operators named `Bug_X` are
not part of a model: they are `X` with a plausible mistake, kept next to it, and show that
a property does notice that mistake when it takes the place of `X`.

| Module | Models |
|---|---|
| `PacketQueue` | abstract: what the packet store promises, a lossy bounded queue |
| `PbufRing` | the packet store of one socket, with its callers |
| `MqttClient` | the MQTT client, with broker and connection around it |
| `ConnMgr`, `MCConnMgr` | the connection manager, with driver and DHCP around it; `MCConnMgr` only gives the signal strengths and the (negative) threshold |
| `DhcpService` | abstract: what the firmware relies on its DHCP client for |
| `DhcpClient` | lwIP's DHCP client as this firmware builds and drives it, with servers and network around it |
| `SpiService` | abstract: what the link promises the host |
| `SpiLink`, `MCSpiLink` | both ends of the SPI link, byte by byte; `MCSpiLink` gives the requests |
| `TcpServer` | a listening socket with its table of clients, and the control blocks of lwIP |
| `AddressTree` | 1-Wire addresses as a tree: what both searches walk |
| `OneWireSearch`, `MCOneWire` | the search of OneWire; `MCOneWire` gives the devices, whose last bits are a checksum |
| `DallasAlarm`, `MCAlarm` | the alarm search of DallasTemperature |
| `MqttFraming`, `MCFraming` | cutting packets and messages out of a byte stream; `MCFraming` gives topic, messages and outgoing packets |
| `PbufRing_proofs`, `MqttClient_proofs`, `ConnMgr_proofs`, `DhcpClient_proofs`, `SpiLink_proofs`, `TcpServer_proofs`, `MqttFraming_proofs` | proofs of one model each |
| `Search_proofs` | proofs of both searches, on what they share in `AddressTree` |

### PbufRing

`pBufStore[][sock]`, `headBuf[sock]`, `tailBuf[sock]` are `store`, `head`, `tail`. Columns of
different sockets share nothing but the heap, so one column is a faithful picture. A block
is a number in order of allocation (0 is NULL) with its length, the bytes already read, the
connection and the control block it came in on; the bytes themselves are not represented: `got` is
the block and the range of it that the last read took. `heap` is the set of blocks allocated and
not freed; `wnd` is what the peer may still send, `leaked` what was dropped without an
acknowledgement, `misacked` what was acknowledged on this connection's control block for another
one; `lost` are the connections that ended without a stop; `written` and `sent` are what the host put
into a datagram and what went out.

One action is one call from the polling loop, with everything it calls: `RecvTcp`
(`atcp_recv_cb`), `RecvUdp` (`audp_recv_cb`), `InsertData` (`insert_data_cmd_cb`),
`GetData(peek)` (`get_data_tcp_cmd_cb`, including the free and acknowledgement when the last
byte is taken), `GetDataBuf` (`get_databuf_tcp_cmd_cb`), `ShowStatus`, `SendUdp`
(`send_data_udp_cmd_cb`: merge, send or not, clear), `StartClient` and `StopClient` (with
`freeAllTcpData`), and `LoseClient`: the error callback of a client, or the poll that finishes the
close its FIN asked for, clears the socket's map and leaves the ring as it is, so that the
`StartClient` after it frees nothing. A new connection gets any control block that is not in use,
also that of the one before, whose bytes are acknowledged on it. An allocation may fail when `MayFail`. Servers share the ring code; their
table of clients is not in this module.

`PacketQueue` says in twenty lines what a reader may rely on: packets are kept in order,
read byte by byte or as a rest, lost only on arrival or all together. `ImplementsQueue` maps
the slots from `tail` to `head` to that queue.

### MqttClient

The client is one thread. A call of the application runs to its end or to the point where
it waits for a packet; `pc` is the packet it waits for (or `"idle"`), `slot` and `left` are
the loop variables of `connect` and `unsubscribe` over the table and their retries, `ret` is
the result of the last call. `Call` is the start of a call, `Arrival` a packet read while
waiting (the one waited for, or another one that is handled or passed over, as
`processPacketsUntil`, `publish` and `unsubscribe` each do it), `Timeout` a read that ends
without a packet. `publish` reads exactly one packet, the others loop. Every write may be short
(`NotSent`), which each call answers in its own way.

Broker and connection are external: the broker reads in order, answers, may refuse a session
(`BrokerConnect`) or a subscription, drops a client that speaks out of
turn (`BrokerRejects`) and sends messages; `Lost` ends the connection with all that is
in flight both ways. Bytes already received that a client may still read after a close are
not modelled. Topics are the subscription objects, payloads are left out, packets are whole.

### ConnMgr

Handlers and callbacks of the firmware run to completion from one loop, so an event of the
driver with `wl_cm_conn_cb`, `wl_cm_disconn_cb` and `ip_status_cb` in it is one action:
`ScanComplete` (with `SelectNet`: stay, or try a network, and look at the driver's answer),
`MediaConnected`, `ConnFailure`, `MediaDisconnected`; commands are `SetNetwork`, `Disconnect`,
`StartScanNet`, `SetIpConfig`, `SetDnsConfig`, `IpConfigNone`, `StartServer`; `DhcpBind` and
`DhcpRestart` are lwIP's DHCP client, which calls `ip_status_cb` through the netif.

The driver is closed. `scanning`, `joining`, `link`, `leaving` are what its header
`wl_api.h` says of it: scans and attempts run in the background and end with an event; a
second connect is answered `WL_RETRY`, one while associated `WL_BUSY`, one for a network
that is not found `WL_FAILURE`; a scan is refused only while one runs. The
set of networks a scan finds and their strengths are arbitrary each time. A `dhcp_start` that finds
no memory leaves no client (`dhcp` is `"failed"`) and `main.c` sets `dhcp_running` all the same; the
release at the end of that association writes through NULL, after which nothing is claimed if it did
harm (`wild`). `wl_cm_stop` has no caller in this build, so `cm->enabled` stays 1.
`DhcpBind` and `DhcpRestart` are what `DhcpService` allows the DHCP client, and `DhcpClient`
implements that.

### DhcpClient

The variables are the fields of `struct dhcp` (`st` is `state`, `req` says whether
`request_timeout` runs), the address and flag of the interface, and `live`: the states whose
requests carried the present transaction identifier. The network may answer any of them at any
time, never or often, so no set of packets is needed; an answer to an earlier identifier is
dropped by the code. Actions: `LinkUp` and `LinkDown` (`wl_cm_conn_cb` and `wl_cm_disconn_cb`, with
`dhcp_start` that succeeds or finds no memory, `Start` and `NoStart`, and `dhcp_release` with
`dhcp_stop`, `Stop`), `RecvOffer`, `RecvNameless` (an offer without a server identifier: its sender
is unknown, so it is dropped, but the timer of the request has been cleared), `RecvAck`, `RecvNak`,
`ArpReply`, `Timeout` (`dhcp_fine_tmr` when the timer of a request ends, with one operator per
state) and `CoarseTick` (both lease timers). Any request may find no buffer. `DhcpService` has
three phases; `ServesLink` maps the client to it by `attached` and `up`. It is the DHCP half of
`ConnMgr`: one shows that the manager is right if the client keeps the service, the other that it does.

### SpiLink

The host clocks every byte and hears one of the shield with it; the pin says whether the shield
listens. `Call`, `Send`, `WaitReady`, `ReadStart`, `ReadReply` are the host's
`WAIT_FOR_SLAVE_SELECT`, frame, wait for the pin and readers; `Arrive` is what a byte does on the
shield in whatever it is doing: starting or continuing the interrupt handler's loop, or
moving the reply. `Poll`, `PollBad`, `RunSet` are `spi_poll` with `call_reply_cb`; `IsrTimeout` and
`StreamTimeout` the shield's two waits that may end while the host is paused. The handler waits for
a byte and for its own last one to be gone, so a byte that comes while the shield has more to send
stays where it is. `ReadReply` is both of the host's readers of one parameter: `waitResponseCmd`
wants the number of parameters to be 1, `waitResponseData8` does not. Frames,
lengths, the table of commands and the checks are those of the code, over real byte values.
Assumed: the shield reacts to one byte before the next (the delays in `spi_drv.cpp` are for that).

`SpiService` says what a call is worth: it runs at most once and before the next call goes out,
and a call without trouble on the wire is answered and not lost. `KeepsPromise` is the refinement.

### TcpServer

`tpcb`, `payload`, `left`, `pending_close` are the arrays of `struct ttcp` (as sets of
entries where they are flags), `currConnId` the global turn; `pool`, `state`, `arg`, `errf` are lwIP's
control blocks: which are free, their state, and which have this server as callback argument and as
callbacks. One action is one callback or one command with all it calls: `Syn` and `Accept`
(with `tcp_alloc`, which may end another connection), `PeerFin` (`atcp_recv_cb` without data),
`AckFin`, `PeerReset`, `Expire` (`tcp_slowtmr`), `TimeWaitOver`, `Poll` and `PollAborts`
(`atcp_poll`), `DataSent`, `Write`, `Look`, `Stop` for the host, and `Other...` for the sockets that
share pool and turn. `End` is the interface going down (`closeConnections`, `ard_tcp_destroy`): the
server is freed, its clients lose their callbacks and stay with lwIP (state `"OTHER"`). `Begin` is the
next start on the same socket. What points to the freed server is kept: half-open connections have it
as their argument, and `mapped` is the socket's second entry, which `AskFreed` follows. `orderly`
says that so far no connection error was reported, no accept failed and no pointer to a freed server was followed;
`run` becomes `"hung"` in a failed `ASSERT` and `"wild"` after a bad pointer.

### OneWireSearch and DallasAlarm

Both searches walk the bits of an address. `SearchBegins`, one `SearchBit` per bit (the devices
that still answer, the direction, who falls silent), `SearchFound`, `SearchSilent` and
`SearchEnded`/`SearchExhausted` are one call; devices or alarms come and go between calls
and within them (`Change`). `OneWireSearch` also has `reset_search` and `target_search`. What the
calls leave is the code's: `rom`, `lastDiscrepancy`, `lastDevice` for the one; `address`,
`junction`, `exhausted` for the other, which moves its junction *during* a call. `found`, `ended`,
`steady` (nothing came or went since the search began) are for the properties.

### MqttFraming

`wire` holds bytes as `publishPacket` and a broker write them. `ReadType`, `ReadLength`, `ReadBody`
take a byte each, as `readFullPacket` over `readPacket` does; the last one hands the buffer to
`handleSubscriptionPacket` (`Message`). `Stall` ends a read in the middle of a packet, `SendOwn`
builds an outgoing packet in the same buffer, `Reconnect` is a new connection. The radix of
lengths is a parameter, so that lengths of several bytes occur in short packets. The model assumes of
a message what `publishPacket` does when it counts in 16 bits: that its remaining length is below
`UINT16`; and of the buffer that a length of two bytes reaches its end (`SizeAssumption`; 150 and
16,384 in the code). `Lower` is the comparison of topics, which ignores the case of letters.

## 3. Runs, bounds and fairness

| Run | Instance | States | Result |
|---|---|---|---|
| `ring_tcp` | TCP; 4 slots, window 5, lengths 1-2, 6 blocks, 2 connections, allocation may fail, connections are lost | 232,395 | holds |
| `ring_udp` | UDP; 3 slots, lengths 0-2, 5 blocks, 2 connections | 1,091,587 | holds |
| `mqtt_client` | 2 subscriptions (one of QoS 1), 2 slots, 2 attempts, 5 identifiers, 2 ping attempts, 2 packets in flight each way | 2,277,857 | holds |
| `cm` | 2 networks of 2 access points, 3 strengths, 1 server socket, `dhcp_start` may fail | 2,772 | holds |
| `dhcp` | 2 addresses, lease timers of 1 and 2 ticks, `tries` mod 11, ticks mod 4, starts and requests may find no memory | 170,151 | holds |
| `spi` | 3 requests, one per kind of command, with parameters that look like START and END; real buffer size; 2 pauses | 274,907 | holds |
| `onewire` | 5 bits, families of 2 bits, 8 devices, 1 comes or goes | 376,446 | holds |
| `alarm` | 4 bits, 8 devices, 2 changes | 502,169 | holds |
| `alarm_loop` | the same, 1 change | | section 5 |
| `framing` | radix 8, buffer of 12 bytes, 3 bytes of data, 2 packets, 1 late one | 1,956,217 | holds |
| `tcp` | 2 control blocks, table of 2 | 377,624 | holds |
| `tcp_reset` | the same | | section 5 |

**What the passing runs show.**

* `ring_tcp`, `ring_udp`: `RingShape` (no hole where a read goes), `HeapExact` (no block leaked
  or freed twice), `OnlyThisConnection` (a read reaches the open connection, and those that were *lost*
  right before it, but nothing from before a stop or a start over a live client), `WindowAccounted`
  (every byte that left the ring was acknowledged exactly once and every byte dropped never, up to
  the bytes of a lost connection acknowledged on a control block that is used again), `ReadInOrder`
  (packets come in order and their bytes without a gap; a buffer read may begin a packet again that
  byte reads had begun, but takes it whole), the refinement `ImplementsQueue` for both kinds of
  socket, and `EveryBlockLeaves`.
* `mqtt_client`: a publish of QoS 1 that returns true was taken (`PublishedIsTaken`);
  `TableAgrees`: a connect that returns 0 has asked for every subscription (`ConnectedIsAsked`) and
  the broker serves nothing the client does not know, once it has read what is on the way
  (`NoOrphan`); a ping that returns true was answered on this connection (`PingIsHeard`; not
  necessarily *this* ping); every call returns (`CallReturns`).
* `cm`: `KeepsTrying`, `ToldConnectedIsLinked`, `DhcpFollowsLink` (`dhcp_running` says that
  `dhcp_start` was called for this association; a client is there exactly then, unless that start
  failed), `ServersNeedInterface`, and under fairness `Rejoins` and `GetsAddress` (an association that
  lasts gets an interface that is up, unless its `dhcp_start` failed, which nothing repeats).
* `dhcp`: `UpIsLeased`, the refinement `ServesLink`, and under fairness `Binds` (a client that could
  start gets an address again and again, or dropped an offer without a server identifier and asks no
  more) and `Expires` (without acknowledgements the interface goes down, also with infinite timers and
  after 256 renewals).
* `spi`: `Genuine` (what runs is the request of the present call, byte for byte and once),
  `Answers`, `Recovers` (every call returns and the sides get in step), `KeepsPromise`.
* `onewire`, `alarm`: each device once and all of them (`Once`, `FindsAll`; `Enumerates`), a family
  first if it was asked for (`FindsFamily`), and loops over the search end (`Ends`,
  `EndsWhenSteady`): OneWire's for any changes, the alarm search's only if alarms do not change.
* `framing`: reading stays `Aligned`, and a message is `Intact`: its own identifier and data, as far
  as a subscription keeps them. The property allows `SUBSCRIPTIONDATALEN` bytes, which the code keeps,
  and one less, which its header names; `Terminated` is about that byte.
* `tcp`: `TableExact`, `PendingCloses`, `GoodbyeFrees`, also when the server ends and is started
  again, up to the first connection error, failed accept or use of a freed server, for which see section 5.

Type invariants that a theorem states (section 4) are not among the properties of the runs;
those of `SpiLink` and `MqttFraming` are.

**Why the bounds are enough to be of use.** Rings of three and four slots fill up, wrap
around and step back within the five or six blocks allowed, with blocks left over to do so
again after reads; the window of five bytes closes and opens; the second connection meets
the remains of the first, on the same control block or another. In `MqttClient` five identifiers cover a connect with all its
attempts (two slots times two, where the code has three attempts) and a call after it; two
packets in flight are enough for an answer that is late by a call. `MaxIds` is below `ID_MOD`:
identifiers do not wrap, see section 4. `ConnMgr` and `TcpServer` need no bound: their state is
finite. The three strengths lie on both sides of the roaming threshold, with differences on both
sides of the roaming difference; two control blocks are enough for one connection to take the
block or the entry another one left. `DhcpClient` is unbounded too: eleven tries are one more
than any limit in the code, so both the limits and the wrap of the counter are met, and four
ticks let both lease timers fire, pass 0 and come round. In `SpiLink` two pauses suffice to lose a
call and disturb the one that repairs it; `TIMEOUT_CHAR` is 200 instead of 1000, still more bytes
than any frame. Addresses of four and five bits have
every shape of tree up to three branches on a path, with the all-zero address among the devices.
Radix 8 gives lengths of one and two bytes below and above the buffer's 12. Deadlock is checked
except where the system stops: the ring's and the framing's bounded supply, and the firmware in a
failed assertion or after a bad pointer (`TcpServer`, `ConnMgr`, `DhcpClient`).

**Fairness.** `PbufRing`: weak fairness of `GetData(FALSE)`, a host that goes on
reading bytes; sketches poll `available` and `read` from `loop`. `MqttClient`: weak
fairness of `Arrival \/ Timeout` (a read ends with a packet or its timeout, both in the
client's own thread) and of the broker reading what it was sent or dropping the client.
`ConnMgr`: the driver ends a scan, an attempt and a disconnect it began (weak), a scan
leads to an attempt and an attempt to an association now and then (strong: without it
`Rejoins` asks for a network that is out of reach), and a DHCP server answers. `DhcpClient`: both
timers run (weak; `start_ip_stack` registers them), and now and then a request finds a buffer, and an
offer and an acknowledgement arrive (strong: without it no client gets an address). `SpiLink`:
host and shield go on and pauses end (weak); the shield's wait for the next byte of a
frame ends if the sketch leaves the link alone again and again (strong). The searches: the sketch goes on
calling. `TcpServer`: lwIP polls every connection
and finds a segment for its FIN now and then, and a client acknowledges a FIN. Nothing is
assumed of the host's commands or of the network.

## 4. Proofs

All proofs are of safety, for every value of the constants that the `ASSUME`s allow: ring
size at least two; any networks and strengths; any addresses, lease times and widths of the
counters; 1-Wire addresses of any length; at most as many control blocks as entries in a
server's table (four of each in the code). No step is left open.

* **Packet store.** `IInv` = `TypeOK /\ RingShape /\ HeapExact /\ AgeOrder /\
  OnlyThisConnection /\ ReadFrontier`. The invariants need each other: an insert frees what
  the head slot holds, which is not a block a read can reach because of `RingShape`; that the
  heap is exact after an insert needs a new number to be new (`AgeOrder`: nothing is younger
  than `born`); reads are in order because everything left is younger than the block read last,
  or is that block with `idx` where the read ended (`ReadFrontier`), which survives a move of the tail because of `AgeOrder`. Each kind of change
  of the ring (insert, advance, acknowledge and free, empty) has its lemma, cited by the
  actions that make it. Theorems: one for each part, and the action property
  `ReadInOrderHolds`. `WindowAccountedHolds` adds `WindowInv`: the bytes still held are a finite set
  of pairs of slot and offset (`Held`); a step that changes one slot changes its size by what that block
  held, which is what the window takes or gives back, and as no block belongs to a connection to
  come, a new connection starts with nothing held; a block of a lost connection on the same control
  block widens the window by its length, which `misacked` counts. `ImplementsQueueHolds` reads the slots from `tail` to
  `head` as a sequence (`Contents`): an insert appends one item to it, a read changes or removes its
  first, clearing empties it, and each action of the ring is one step of `PacketQueue` or none.
* **MQTT client.** `TypeCorrect` goes by the kinds of step (call, arrival, timeout, network).
  `PublishedIsTakenHolds` needs `IInv` = `TypeOK /\ Budget /\ OutIds /\ InIds /\
  PublishedIsTaken`: `publish` takes a `PUBACK` whose identifier is the last one given out.
  That is an answer to *this* message because every identifier on the way to the broker is
  below the counter (`OutIds`), and a `PUBACK` on the way back with the last identifier means
  that the broker took the message (`InIds`). `Budget` says that the attempts a connect still
  has fit below `MaxIds`, which is assumed smaller than `ID_MOD`: the theorem is about a
  client whose 16-bit counter has not come round while an old acknowledgement is in flight.
  `PingIsHeardHolds` needs only that a PINGRESP on the way was sent on this connection (`Pongs`).
  `TableAgreesHolds` has two halves. For `ConnectedIsAsked`: `connect` goes through the table slot by
  slot, everything before its slot is asked for (`AskedSoFar`), and no UNSUBSCRIBE is on its way that
  could take it back (`NothingUnsaid`). For `NoOrphan`: the last word on its way about a
  subscription that is not in the table is an UNSUBSCRIBE, and without any the broker does not serve it
  (`Quiet`); each kind of change of channel, table and broker keeps that.
* **Connection manager.** `IInv` = `TypeOK /\ OneAtATime /\ KeepsTrying /\ UpIsLinked /\
  DhcpFollowsLink /\ ServersNeedInterface /\ ScanPromised`. `OneAtATime` (the station is not
  joining while associated, and leaves only what it is on) comes from the driver's interface and
  is what makes `KeepsTrying` survive `WL_BUSY`; `UpIsLinked` (interface up or result
  connected only while associated) gives `ToldConnectedIsLinked`.
* **DHCP client.** `IInv` = `TypeOK /\ NeverStuck /\ HoldsOffer /\ UpIsLeased /\ DownIsBare`. Every way
  into a waiting state starts the timer of a request, so a client that is not bound has a
  retry ahead (`NeverStuck`; the exceptions are a renewal whose eight-bit `tries` has come round,
  which waits for the rebind timer, and a client that dropped an offer without a server identifier). An acknowledgement and an ARP timeout bind the offered
  address, which exists (`HoldsOffer`) because every path to these states goes through
  `RecvOffer` and every path back to discovery forgets it; a stopped client has neither lease
  nor interface (`DownIsBare`). From this each step is a step of `DhcpService` or leaves
  what it shows unchanged: `ServesLinkHolds`, the safety half of what `ConnMgr` builds on.
* **SPI link.** `EndIsTheEnd` is about one frame: the interrupt handler, which after each byte
  equal to END walks the lengths from the start of its buffer, finds the end at the last byte of a
  request and nowhere before, whatever the parameters hold. The frame is a concatenation of
  parameters, so the walk is shown to stand at the beginning of each one in turn. The invariant
  `HostTidy /\ ShieldTidy /\ Smooth` relates both ends: `Smooth` says that a call without trouble is
  in one of six stages (`AtRest`, `Sending`, `Waiting`, `Replied`, `BeingRead`, `Finished`), each of
  which fixes what the shield has of the request, what has run and what is left of the reply; a pause is
  the only way out of them. From it `TypeCorrect`, `AnswersHolds`, `UntroubledIsGenuine` (`Genuine` for
  calls that met no trouble) and the refinement `KeepsPromiseHolds`, for any requests that are
  well formed and fit the buffer (`CallsAssumption`).

  `GenuineHolds` is `Genuine` for any number of pauses, under a condition on the requests,
  `NoFrameInside`: no part of a request, from a byte after the first to a later one, is itself a frame
  with a command of the shield. The condition is needed: with `sendData` of the four bytes of
  `getConnectionStatus` (START, 32, 0, END) and a pause before them the shield runs that command.
  `MCSpiLink` checks that the requests of the run meet it, and `PlainIsHarmless` that all do whose
  parameters hold no byte START, if the buffer has at most 224 bytes (it has 100). The invariant
  `Whole` says what a pause may leave on either side. `Collected`: while the host sends, the handler has
  a run of bytes up to the present one, or all of them behind one byte the host sent to read, or bytes
  with no number of parameters in their place (`Known`), and of these only the whole request and
  parts of it ever end (`LateHasNoEnd`, `EndlessHasNoEnd`, `PartEnds`); while it reads for a START
  what is left grows by a byte each, so that it is gone, or begins with what was sent to read, before
  the host gives up. That takes `RoomAssumption`, a buffer (100) no longer than the host's patience
  (`TIMEOUT_CHAR`, 1000). `LastByte` is the same for the one byte nobody took, `AtWork` for what the
  main loop has, and `Telling` says that a shield that writes a reply writes to a host that waits for
  it, with which byte next: the host returns exactly when the reply is through, so a SET runs
  before the next call, also when the host was paused on the way.
* **TCP server.** `IInv` is `TypeOK`, and as long as the history is `orderly` a condition on table
  and control blocks together (`Good`): an entry is occupied exactly by an open client of
  this server, no client has two entries, blocks that are free or in their last states appear
  nowhere, an empty entry has neither buffer nor pending close. That an accept finds an entry is
  counting: a table without an empty entry maps its entries one to one to open clients, while
  the one just arrived is in none, so that there would be more blocks than `EnoughEntries` allows.
* **1-Wire searches.** Addresses are paths in a binary tree, and the first part of `Search_proofs` is
  what both searches need of trees: what a set of addresses left of a path becomes when the path takes
  one more bit, and that a path which turns right at its deepest open branch has exactly the set
  left of it that was left of or on the path before. Then for `OneWireSearch` while nothing
  comes or goes: before the deepest open branch the path repeats the last one (`Again`), after it
  what was returned is exactly what lies left of the path (`Beyond`), where the first call has
  returned nothing (`First`). At the end of a path the address found is not left of itself
  (`OnceHolds`), and without an open branch nothing lies right of it (`FindsAllHolds`). `DallasAlarm`
  needs the same with another idea of the open branch: its `junction` is replaced *during* a
  call, when the search passes it, so the branch of this call is `lastJunction` before that
  and `junction` after (`Pending` in its proofs); `EnumeratesHolds` is the result.
* **MQTT framing.** `LengthBytes` is recursive: that it has the value its equation gives is shown by
  the existence of its first n values, with the least n that has none as the counterexample; the
  streams of packets, folds, are handled the same way and give what a stream is with one packet more at
  its end or one less at its front. `Due(m, n, k, v, u)` says that of the length of packet m the part
  n is still to come, behind k bytes, in units of u, after v has been read: a byte with the flag
  leads from n to n \div BASE (`DueMore`), one without it means that nothing is left (`DueLast`). The invariant
  `Place /\ Known /\ InPacket`: while no packet was late or cut, the bytes read are the first p of the
  packet that is read, the wire is the rest of it and the packets behind it, and the length is `Due`
  or the body has `want` bytes left. `MessageOf` is about one packet in the buffer, by position: with
  a length of one byte the message is the packet's own, with two bytes the length of the topic is
  read from a byte that is 0 and nothing is recognised. Theorems: `TypeCorrect`, `AlignedHolds`,
  `IntactHolds`, for any radix, sizes, topic, messages and own packets that the assumptions allow.

**Only model-checked.** All liveness (`EveryBlockLeaves`, `CallReturns`, `Rejoins`, `GetsAddress`,
`Binds`, `Expires`, `Recovers`, `Ends`, `EndsWhenSteady`, `PendingCloses`, `GoodbyeFrees`), which is
out of the prover's reach, and with it the fairness half of the refinements. Every other
property of a passing run is the statement of a theorem, `Genuine` under the condition on the requests
named above.

## 5. Where code and documentation disagree

Two are runs in which TLC finds what the quoted line rules out (`findings` in `PROJECT.json`).

| Run | Line | What happens |
|---|---|---|
| `alarm_loop` | `DallasTemperature.cpp:875-877` a search that is through returns 0 | if the alarm behind the open junction goes away between two calls and there is a junction before it, the search returns the same device for ever and `processAlarms` does not end |
| `tcp_reset` | `ard_tcp.c:531` `ASSERT(... "payload not freed!")` | a client that resets keeps its entry and its payload; a later client with the same control block runs into the assertion, which is compiled in |

Twelve more have their property in the module, next to the ones that hold, and a configuration in
which TLC refutes it (`tlc -config PbufRingLost.cfg PbufRing`; the last two and `ConnMgrStatic` with the
MC module).

| Configuration | Property | Line | What happens |
|---|---|---|---|
| `PbufRingLost` | `NoEarlierConnection` | `ard_spi.c:765` "Check previous connection" | the check asks a map that the loss of the connection has cleared, so its ring is not freed and the next connection reads its bytes |
| `PbufRingTwice` | `NoByteTwice` | `WiFiUdp.h:62`, `:58` "remaining in the current packet" | a buffer read after byte reads starts at the first byte again |
| `PbufRingNone` | `NoPacketNoBytes` | `WiFiUdp.h:56` "0 if no packets are available" | the walk of an empty ring counts the block left at its head |
| `PbufRingNewest` | `OverwriteFreesOldest` | `ard_utils.c:42`, `:143` "free the oldest buffer" | a full ring frees the newest block |
| `PbufRingMixed` | `DatagramIsWhatWasWritten` | `WiFiUdp.h:45`, `:50` "into the packet" | a datagram is merged from everything in the ring, received packets included |
| `MqttRefused` | `ConnectedIsSubscribed` | `Adafruit_MQTT.h:155`, `:163` "6 = Failed to subscribe" | connect returns 0 though a subscription was refused |
| `MqttLateAck` | `PublishAnswerIsRight` | `Adafruit_MQTT.h:187` "true if the message was published, false otherwise" | publish reads an answer to an earlier call and returns false for a message the broker took |
| `MqttUnsuback` | `UnsubackConfirms` | `Adafruit_MQTT.cpp:411` "wait for the unsuback to confirm" | the 4 bytes of an UNSUBACK never pass the test for 5, so unsubscribe of QoS 1 never succeeds |
| `ConnMgrStatic` | `StaticAddressStays` | `WiFi.h:81` "disabling the dhcp client" | a running DHCP client takes the configured address away |
| `DhcpNull` | `ReleasesAClient` | `dhcp.c:1491` "dhcp != NULL" | after a `dhcp_start` that found no memory the end of the association releases a client that is not there |
| `MqttFramingNul` | `Terminated` | `Adafruit_MQTT.h:308` "to ensure nul terminating lastread" | a message of exactly `SUBSCRIPTIONDATALEN` bytes fills `lastread` |
| `MqttFramingLate` | `JustTheData` | `Adafruit_MQTT.cpp:535` "extract out just the data" | the message of a packet whose rest is late has bytes of earlier packets |

**Limits of the code** met while modelling. They are in the models as the code has them unless it
says otherwise, and the properties above hold in spite of them or with the condition named.

* DHCP: `tries` of a renewal comes round after 256 and the wait becomes 0, so renewing pauses
  until the rebind timer; the lease timers count past 0 and come round after 65,536 ticks; without
  option 59 the rebind time is the whole lease; a lease timer survives a refusal. A `dhcp_start` that fails
  leaves `dhcp_running` at 1 (`main.c:115-117`) and is not tried again before the next association; an
  offer without a server identifier stops the client's timer for good (`dhcp.c:230`, `:1456`): both are
  the exceptions of `Binds`, `GetsAddress` and `NeverStuck`. `dhcp_release` clears the server's address before the RELEASE is built.
* SPI: without a pause of at least `SPI_TIMEOUT` a lost frame leaves the handler out of step
  (`Recovers` needs the pause); a pause right before a payload that looks like a frame runs that
  payload (`NoFrameInside` is the condition under which it does not matter); the END of a reply is not checked; `waitSpiChar` takes the -1 of an error for START; a
  SET is acknowledged but not run if writing the acknowledgement times out; a frame of 100 bytes or
  more, from `WiFiClient::write` of more than about 90 bytes, does not fit the buffer and is
  lost. The four commands whose replies are lists or data buffers are outside the model.
* Packet framing: lengths of four bytes are refused; publications whose remaining length needs a second
  byte are built with one. A packet that is too long or late leaves the reader inside the
  stream until the next connection, and a truncated one makes `datalen` wrap (`JustTheData`): `Aligned` and
  `Intact` are about streams without those.
* TCP: the end of the server leaves its clients unclosed, and a pointer to the freed server in half-open
  connections and in the socket's second entry (`ard_tcp.c:264-270`, `:545`); a connection error removes the client whose turn it is and not the one that failed;
  `close_conn_pcb` clears the argument but not the error callback, which then gets NULL; an
  entry keeps `left`, retries and `pending_close` of the client before; a partly sent payload goes
  on from its first byte; a second write replaces one that is not sent; one flag `_connected`
  serves all sockets; a failed bind or listen leaves its pcb behind, and a failed `ard_tcp_start` goes
  through `ard_tcp_destroy` with socket 255 (both assumed away). A `malloc` that fails in
  `atcp_accept_cb` leaves the freed client in the table (modelled; it ends `orderly`).
* Packet store: a lost connection's bytes are acknowledged on its control block, which is taken to be
  harmless while nobody has that block and widens the window of the connection that has it.
* OneWire: `LastFamilyDiscrepancy` is never read; `DallasTemperature::setResolution(address)`
  restarts the search a sketch may be in the middle of, because its look-up by index searches
  from the start.

## 6. What is not modelled

The repository is mostly other things than this code: sound data, flash images, Atmel's
framework, lwIP, and headers of the closed driver make up most of its 153,000 lines; the station's own
protocol code and the libraries with state are a few thousand. The models cover the parts that
keep state between events, lwIP's DHCP client and the life of its connections included. Of lwIP's
TCP the segments, windows and sequence numbers are left out: a connection is its state, an
acknowledgement, a FIN and a reset.

* Contents of packets, topics, messages and addresses beyond what a property tells apart; logging and
  console output.
* In `PbufRing`: the table of servers. In `MqttClient`: what a broker makes of half a packet after a short write, the will, matching of topics (in
  `MqttFraming`), the FONA transport, data read after a close, wrapping identifiers. In `ConnMgr`: TCP
  clients, the setting of an address on the console. In `TcpServer`: sockets in client mode, the
  bytes that are sent. In `SpiLink`: replies of several parameters. In
  `DhcpClient`: DECLINE by another station, BOOTP, options that change no state.
* The host WiFi library (`WiFi.cpp`, `WiFiClient.cpp`, `WiFiUdp.cpp`): its waits sit on calls of
  `SpiLink`; its socket table is in the plan.
* Atmel's framework and the WLAN driver, except as external actions.
* Bit timing and floating point of the sensor libraries; sketches that are a straight loop.

Hazards seen outside the models: `mergeBuf` (`ard_utils.c:120`) allocates less than it copies when bytes
were read before; `ard_tcp_destroy` (`ard_tcp.c:53`) goes on with socket 255; `IS_UDP_SOCK`
(`ard_tcp.h:22`) does not know datagram clients; a DNS server set alone turns DHCP off
(`ard_spi.c:638`); `publishPacket` copies a payload without a bound (`Adafruit_MQTT.cpp:716`), the first
packet identifier is 0 (`:119`); `connect` of `Adafruit_MQTT_Client.cpp:48` leaves the TCP
connection open when it fails; `WiFi.cpp:69` may read the status of the network before; the loop of
`MQTT_connect` in `webserv.ino:301` serves no page meanwhile.

## 7. Plan

In order of what matters most:

1. `SockTable`: sockets of the host library over the shield's, with the timeouts of connect, the
   restart of servers and `getSocket`, which takes a socket that is in use.
2. `TcpServer` with sockets in client mode and the bytes they send; composed with `PbufRing` through
   the receive callback.
3. `Station`: `webserv.ino` over the promises of `MqttClient`: the loop keeps serving or resets.
4. `SpiLink` with replies of several parameters.
5. The publications of the client itself against the broker's reader: `publish` builds in the same
   buffer that packets are read into.

## 8. Running it

    tlc -workers 2 -config PbufRingTcp.cfg PbufRing
    tlc -workers 2 -config PbufRingUdp.cfg PbufRing
    tlc -workers 2 -config MqttClient.cfg MqttClient
    tlc -workers 2 -config ConnMgr.cfg MCConnMgr
    tlc -workers 2 -config DhcpClient.cfg DhcpClient
    tlc -workers 2 -config SpiLink.cfg MCSpiLink
    tlc -workers 2 -config OneWire.cfg MCOneWire
    tlc -workers 2 -config DallasAlarm.cfg MCAlarm
    tlc -workers 2 -config MqttFraming.cfg MCFraming
    tlc -workers 2 -config TcpServer.cfg TcpServer
    tlc -workers 2 -config PbufRingLost.cfg PbufRing       # section 5, ends with a counterexample
    tlapm PbufRing_proofs.tla

`runs` in `PROJECT.json` pairs the configurations of the runs with their modules, section 5 the others;
every `_proofs` module is checked by `tlapm` in the same way.
