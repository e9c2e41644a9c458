----------------------------- MODULE MCFraming ----------------------------
EXTENDS MqttFraming
MCTopic == <<116>>

\* Capital letters as small ones.
MCLower(b) == IF b \in 65 .. 90 THEN b + 32 ELSE b

\* 48 is '0' and the first byte of a PUBLISH, 50 is '2' and that of one with
\* quality of service 1; 3 is a small number.
MCMessages == [qos : {0, 1}, len : 0 .. 8, fill : {3, 48, 50}]

\* A PUBLISH that fills the buffer; a CONNECT.
MCOutgoing == {<<48, 10, 0, 1, 116>> \o [i \in 1 .. 7 |-> 48]}
MCConnect == <<16, 9, 0, 4, 77, 81, 84, 84, 4>>
=============================================================================
