----------------------------- MODULE MCOneWire ----------------------------
EXTENDS OneWireSearch

\* The last bit is the parity of the others.  The family of zeros has a single
\* address: a bus pulled low reads so.
MCDevices == {a \in Addr : /\ a[1] = 1
                           /\ (a[1] + a[2] + a[3] + a[4] + a[5]) % 2 = 0}
               \cup {[k \in 1 .. N |-> 0]}
=============================================================================
