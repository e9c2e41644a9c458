---------------------------- MODULE DhcpService ----------------------------
(* What the firmware relies on its DHCP client for (main.c, wl_cm.c and    *)
(* ConnMgr): from a start that found memory to its stop the client asks    *)
(* for an address; while it holds one the interface is up with that address, and  *)
(* a renewal changes nothing; an address that is lost takes the interface  *)
(* down before another one is asked for.                                   *)
CONSTANTS
    Addrs,  \* addresses
    None    \* 0.0.0.0

VARIABLES
    phase,  \* "off", "asking" or "bound"
    addr    \* the address of the interface

vars == <<phase, addr>>

Init == phase = "off" /\ addr = None

Start == phase = "off" /\ phase' = "asking" /\ addr' = None

Bind == phase = "asking" /\ phase' = "bound" /\ addr' \in Addrs

Restart == phase = "bound" /\ phase' = "asking" /\ addr' = None

Stop == phase # "off" /\ phase' = "off" /\ addr' = None

Next == Start \/ Bind \/ Restart \/ Stop

Spec == Init /\ [][Next]_vars
=============================================================================
