----------------------------- MODULE MCConnMgr -----------------------------
(* Values of ConnMgr's constants for TLC that a configuration file cannot  *)
(* express: negative numbers.                                              *)
EXTENDS ConnMgr

\* Weak, weak but not 10 dB stronger, and good enough to stay.
MCRssi      == {-80, -72, -60}
MCThreshold == -65
=============================================================================
