--------------------------- MODULE AddressTree ----------------------------
(***************************************************************************)
(* The addresses of 1-Wire devices as leaves of a binary tree: both        *)
(* searches of the repository, OneWire's and the alarm search of           *)
(* DallasTemperature, walk it bit by bit.                                  *)
(***************************************************************************)
EXTENDS Integers

CONSTANT N   \* bits of an address: 64 in the code

ASSUME BitsAssumption == N \in Nat \ {0}

Addr == [1 .. N -> {0, 1}]

\* The addresses a and b are the same in their first k bits.
Agree(a, b, k) == \A j \in 1 .. k : a[j] = b[j]
=============================================================================
