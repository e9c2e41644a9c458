---------------------------- MODULE SpiService ----------------------------
(***************************************************************************)
(* What the link between the Arduino board and the WiFi shield promises    *)
(* the board: a call runs the command it names, at most once, before the   *)
(* next call goes out.  A call that met no trouble on the wire is answered *)
(* and not lost; an answer to a GET means the command has run, an answer   *)
(* to a SET that it runs before the next call.                             *)
(***************************************************************************)
EXTENDS Sequences

CONSTANTS Calls,          \* what the board may ask
          Deferred(_)     \* is a call acknowledged before it is run?

VARIABLES call,      \* the call being made, or the last one
          calling,   \* is the board inside a call?
          ran,       \* has the shield run it?
          answer,    \* "none", "ok" or "lost"
          trouble    \* did the wire fail the call?

vars == <<call, calling, ran, answer, trouble>>

Init == /\ call \in Calls
        /\ calling = FALSE /\ ran = FALSE /\ trouble = FALSE
        /\ answer = "none"

\* An acknowledged call has run before the next one goes out.
Call(c) == /\ ~calling
           /\ answer = "ok" /\ ~trouble => ran
           /\ call' = c
           /\ calling' = TRUE
           /\ ran' = FALSE
           /\ answer' = "none"
           /\ trouble' \in BOOLEAN

Run == /\ ~ran
       /\ ran' = TRUE
       /\ UNCHANGED <<call, calling, answer, trouble>>

Answer(a) == /\ calling
             /\ ~trouble => a = "ok" /\ (ran \/ Deferred(call))
             /\ answer' = a
             /\ calling' = FALSE
             /\ UNCHANGED <<call, ran, trouble>>

Trouble == /\ calling
           /\ trouble' = TRUE
           /\ UNCHANGED <<call, calling, ran, answer>>

Next == \/ \E c \in Calls : Call(c)
        \/ Run
        \/ \E a \in {"ok", "lost"} : Answer(a)
        \/ Trouble

Spec == Init /\ [][Next]_vars
=============================================================================
