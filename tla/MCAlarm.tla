------------------------------ MODULE MCAlarm -----------------------------
EXTENDS DallasAlarm

\* The last bit is the parity of the others.
MCSensors == {a \in Addr : (a[1] + a[2] + a[3] + a[4]) % 2 = 0}
=============================================================================
