----------------------------- MODULE SpiLink ------------------------------
(***************************************************************************)
(* The serial link between the Arduino board (host, spi_drv.cpp and the    *)
(* calls of server_drv.cpp and wifi_drv.cpp) and the WiFi shield           *)
(* (ard_spi.c), byte by byte.  The host clocks every byte; each clock also *)
(* brings it one byte of the shield.  A handshake pin says whether the     *)
(* shield listens.  The shield takes a frame inside one interrupt, works   *)
(* on it in its main loop (spi_poll), and writes the reply to the wire.    *)
(*                                                                         *)
(* Fault: the host may pause inside a call, at most MaxGaps times, and the *)
(* shield's waits, which are short, may then end.  Timing assumption: the  *)
(* shield takes a byte, raises the pin and writes its next byte before the *)
(* host's next clock or look at the pin; how long spi_poll takes to run is *)
(* not bounded.                                                            *)
(***************************************************************************)
EXTENDS Integers, Sequences

CONSTANTS Calls,         \* requests of the host: a command and its parameters
          BUFFERSIZE,    \* bytes the interrupt handler takes for one frame
          TIMEOUT_CHAR,  \* bytes the host reads beyond the first for a START
          MaxGaps        \* bound on the pauses of the host

START == 224
END == 238
ERR == 239
DUMMY == 255
Reply(c) == c + 128
IsReply(b) == b >= 128
Wide(b) == (b \div 64) % 2 = 1     \* DATA_FLAG: lengths of two bytes

\* The table of commands: those run after they are acknowledged; all others
\* are run first.
SetCmds == {16, 17, 18, 20, 21, 54, 48, 52, 40, 45, 46, 57}
GetCmds == (32 .. 38) \cup {39, 49, 50, 51, 53, 41, 44, 43, 42, 69, 47, 55, 56, 58}
ImmSetCmds == {68, 70}
Cmds == SetCmds \cup GetCmds \cup ImmSetCmds

\* The commands whose reply the model reads, of one parameter with a length
\* of one byte: all but the lists of addresses and networks and the data
\* buffer, which other readers of spi_drv.cpp take apart.
Answered == Cmds \ {33, 39, 58, 69}

\* A parameter with its length, the first k parameters, and a whole request.
Param(c, p) == (IF Wide(c) THEN <<Len(p) \div 256>> ELSE <<>>) \o <<Len(p) % 256>> \o p
Params(r) ==
  LET Upto[k \in 0 .. Len(r.params)] ==
        IF k = 0 THEN <<>> ELSE Upto[k - 1] \o Param(r.cmd, r.params[k])
  IN  Upto
Frame(r) == <<START, r.cmd, Len(r.params)>> \o Params(r)[Len(r.params)] \o <<END>>

\* A length is sent in one byte or in two.
Lengths(c) == IF Wide(c) THEN 65536 ELSE 256

ASSUME SizeAssumption == BUFFERSIZE \in Nat /\ TIMEOUT_CHAR \in Nat /\ MaxGaps \in Nat
ASSUME CallsAssumption ==
  /\ Calls \subseteq [cmd : Answered, params : Seq(Seq(0 .. 255))]
  /\ \A r \in Calls : /\ Len(r.params) < 128 /\ Len(Frame(r)) < BUFFERSIZE
                      /\ \A k \in 1 .. Len(r.params) :
                           Len(r.params[k]) < Lengths(r.cmd)
\* The buffer, of 100 bytes, ends before the 1000 bytes the host reads for a
\* START, and before a parameter whose length needs a second byte.
ASSUME RoomAssumption == BUFFERSIZE <= TIMEOUT_CHAR /\ BUFFERSIZE <= 256

VARIABLES hpc,      \* host: "idle", "send", "wait", "start", "read"
          call,     \* the request
          hi,       \* bytes of it on the wire, then bytes read for a START
          got,      \* bytes of the reply after its START
          answer,   \* what the last call returned: "none", "ok", "lost"
          paused,   \* the host is held up inside a call
          gaps,     \* pauses so far
          sh,       \* shield: "listen", "isr", "busy", "reply", "set"
          rbuf,     \* _receiveBuffer up to receivedChars
          rdr,      \* a byte received that nobody took
          last,     \* the byte received last, repeated when there is nothing to send
          tx,       \* shift register and transmit register
          rest,     \* bytes of the reply write_stream has still to write
          ran,      \* requests run since the call began
          trouble   \* the call met a pause, or a link out of step

host == <<hpc, call, hi, got, answer>>
wire == <<rdr, last, tx>>
shield == <<sh, rbuf, rest, ran>>
vars == <<hpc, call, hi, got, answer, paused, gaps, sh, rbuf, rdr, last, tx, rest, ran,
          trouble>>

\* The handshake pin, and whether the host leaves the wire alone long enough
\* for a wait of the shield to end.
Avail == sh \in {"listen", "isr", "reply"}
Quiet == paused \/ hpc = "idle"
InStep == sh = "listen" /\ tx = <<>> /\ rdr = <<>>

Init == /\ hpc = "idle" /\ call \in Calls /\ hi = 0 /\ got = <<>> /\ answer = "none"
        /\ paused = FALSE /\ gaps = 0 /\ trouble = FALSE
        /\ sh = "listen" /\ rbuf = <<>> /\ rest = <<>> /\ ran = <<>>
        /\ rdr = <<>> /\ last = 0 /\ tx = <<>>

-----------------------------------------------------------------------------
(***************************************************************************)
(* The interrupt handler: where the lengths say the frame ends.            *)
(***************************************************************************)

Bug_ParamSize(b, k) == b[k + 1] + 1

\* Bytes taken by the parameter whose length is at place k, counted from zero.
ParamSize(b, k) == IF Wide(b[2]) THEN b[k + 1] * 256 + b[k + 2] + 2 ELSE b[k + 1] + 1

\* The place after each of n parameters that start at place 3, or beyond "end"
\* when a length leads past it.
Places(b, n, end) ==
  LET Place[k \in 0 .. n] == IF k = 0 THEN 3
                             ELSE IF Place[k - 1] >= end THEN end + 1
                             ELSE Place[k - 1] + ParamSize(b, Place[k - 1])
  IN  Place

\* numParams is an int8_t: a count above 127 is never used up.
Bug_EndOfFrame(b) == b[Len(b)] = END /\ Len(b) >= 4

EndOfFrame(b) == /\ b[Len(b)] = END
                 /\ Len(b) >= 3
                 /\ b[3] < 128
                 /\ Places(b, b[3], Len(b) - 1)[b[3]] = Len(b) - 1

Bug_Taken(b) == LET f == Append(rbuf, b)
                IN  IF Len(f) > BUFFERSIZE THEN rbuf' = <<>> /\ sh' = "listen"
                    ELSE /\ rbuf' = f
                         /\ sh' = IF EndOfFrame(f) THEN "busy" ELSE "isr"

Taken(b) == LET f == Append(rbuf, b)
            IN  IF Len(f) >= BUFFERSIZE THEN rbuf' = <<>> /\ sh' = "listen"
                ELSE /\ rbuf' = f
                     /\ sh' = IF EndOfFrame(f) THEN "busy" ELSE "isr"

\* The interrupt enabled again: a byte nobody took starts a frame at once, but
\* is not taken while a byte of the shield's own waits for the wire.
Listen == /\ sh' = IF rdr = <<>> THEN "listen" ELSE "isr"
          /\ rbuf' = IF tx' = <<>> THEN rdr ELSE <<>>
          /\ rdr' = IF tx' = <<>> THEN <<>> ELSE rdr

(***************************************************************************)
(* write_stream with its bytes written one ahead of the wire.              *)
(***************************************************************************)
IsSet == rbuf # <<>> /\ rbuf[2] \in SetCmds

\* The reply is written: a SET is run next, the others are done.
Written == IF IsSet THEN sh' = "set" /\ UNCHANGED <<rbuf, rdr>> ELSE Listen

\* The byte b arrives at the shield.  Both waits for a byte, the handler's and
\* spi_read's, also wait until the shield has nothing left to send (TXEMPTY);
\* a byte that comes in the meantime replaces the one that waits.
Arrive(b) ==
  /\ last' = b
  /\ tx' = IF Len(tx) > 1 THEN Tail(tx)
           ELSE IF sh = "reply" /\ rest # <<>> THEN <<Head(rest)>> ELSE <<>>
  /\ \/ /\ sh \in {"listen", "isr"} /\ Len(tx) <= 1
        /\ Taken(b)
        /\ rdr' = <<>>
        /\ UNCHANGED rest
     \/ /\ sh \in {"listen", "isr"} /\ Len(tx) > 1
        /\ sh' = "isr"
        /\ rdr' = <<b>>
        /\ UNCHANGED <<rbuf, rest>>
     \/ /\ sh \in {"busy", "set"}
        /\ rdr' = <<b>>
        /\ UNCHANGED <<sh, rbuf, rest>>
     \/ /\ sh = "reply" /\ Len(tx) > 1
        /\ rdr' = <<b>>
        /\ UNCHANGED <<sh, rbuf, rest>>
     \/ /\ sh = "reply" /\ Len(tx) <= 1 /\ rest # <<>>
        /\ rest' = Tail(rest)
        /\ rdr' = <<>>
        /\ UNCHANGED <<sh, rbuf>>
     \/ /\ sh = "reply" /\ Len(tx) <= 1 /\ rest = <<>>
        /\ sh' = IF IsSet THEN "set" ELSE "listen"
        /\ rbuf' = IF IsSet THEN rbuf ELSE <<>>
        /\ rdr' = <<>>
        /\ UNCHANGED rest

\* The byte the host sees.
Seen == IF tx = <<>> THEN last ELSE Head(tx)

-----------------------------------------------------------------------------
(***************************************************************************)
(* The host.                                                               *)
(***************************************************************************)
Bug_Call(r) == /\ hpc = "idle"
               /\ hpc' = "send"
               /\ call' = r
               /\ answer' = "none"
               /\ ran' = <<>>
               /\ trouble' = ~InStep
               /\ UNCHANGED <<hi, got, paused, gaps, sh, rbuf, rest>>
               /\ UNCHANGED wire

\* WAIT_FOR_SLAVE_SELECT passes only while the pin says so.
Call(r) == /\ hpc = "idle" /\ Avail
           /\ hpc' = "send"
           /\ call' = r
           /\ answer' = "none"
           /\ ran' = <<>>
           /\ trouble' = ~InStep
           /\ UNCHANGED <<hi, got, paused, gaps, sh, rbuf, rest>>
           /\ UNCHANGED wire

\* sendCmd, sendParam, sendBuffer.
Send == /\ hpc = "send" /\ ~paused
        /\ hi' = hi + 1
        /\ hpc' = IF hi' = Len(Frame(call)) THEN "wait" ELSE "send"
        /\ Arrive(Frame(call)[hi'])
        /\ UNCHANGED <<call, got, answer, paused, gaps, ran, trouble>>

\* waitForSlaveReady, which has no end of its own.
WaitReady == /\ hpc = "wait" /\ ~paused /\ Avail
             /\ hpc' = "start"
             /\ hi' = 0
             /\ UNCHANGED <<call, got, answer, paused, gaps, trouble>>
             /\ UNCHANGED wire /\ UNCHANGED shield

Return(a) == hpc' = "idle" /\ answer' = a /\ hi' = 0 /\ got' = <<>>

\* waitSpiChar: an ERR gives -1, which the caller takes for the START.
ReadStart ==
  /\ hpc = "start" /\ ~paused
  /\ Arrive(DUMMY)
  /\ \/ /\ Seen \in {START, ERR}
        /\ hpc' = "read"
        /\ hi' = 0
        /\ UNCHANGED <<got, answer>>
     \/ /\ Seen \notin {START, ERR} /\ hi < TIMEOUT_CHAR
        /\ hi' = hi + 1
        /\ UNCHANGED <<hpc, got, answer>>
     \/ /\ Seen \notin {START, ERR} /\ hi = TIMEOUT_CHAR
        /\ Return("lost")
  /\ UNCHANGED <<call, paused, gaps, ran, trouble>>

\* The commands whose reply waitResponseData8 reads.
ByData8 == {44, 57, 68, 70}

\* After the START: the command, the number of parameters, the length, the
\* bytes, and one more, which should be END but is not looked at.
\* waitResponseCmd wants one parameter; waitResponseData8 takes any number of
\* them for one, and none for a reply without a length.
Wrong(g) == \/ Len(g) = 1 /\ g[1] # Reply(call.cmd)
            \/ Len(g) = 2 /\ g[2] # 1 /\ call.cmd \notin ByData8
Complete(g) == Len(g) >= 3 /\ (g[2] = 0 \/ Len(g) = g[3] + 4)
ReadReply ==
  /\ hpc = "read" /\ ~paused
  /\ Arrive(DUMMY)
  /\ LET g == Append(got, Seen)
     IN  \/ Wrong(g) /\ Return("lost")
         \/ ~Wrong(g) /\ Complete(g) /\ Return("ok")
         \/ /\ ~Wrong(g) /\ ~Complete(g)
            /\ got' = g
            /\ UNCHANGED <<hpc, hi, answer>>
  /\ UNCHANGED <<call, paused, gaps, ran, trouble>>

\* The host is held up, by its own interrupts say, long enough for a wait of
\* the shield to end.
Pause == /\ hpc \in {"send", "wait", "start", "read"} /\ ~paused
         /\ gaps < MaxGaps
         /\ gaps' = gaps + 1
         /\ paused' = TRUE
         /\ trouble' = TRUE
         /\ UNCHANGED host /\ UNCHANGED wire /\ UNCHANGED shield

Resume == /\ paused
          /\ paused' = FALSE
          /\ UNCHANGED <<gaps, trouble>>
          /\ UNCHANGED host /\ UNCHANGED wire /\ UNCHANGED shield

-----------------------------------------------------------------------------
(***************************************************************************)
(* The shield.                                                             *)
(***************************************************************************)

\* getStartCmdSeq: the message begins at the first START.
Message(b) == LET s == {i \in 1 .. Len(b) : b[i] = START}
              IN  IF s = {} THEN <<>>
                  ELSE SubSeq(b, CHOOSE i \in s : \A j \in s : i <= j, Len(b))

\* checkMsgFormat.  A message that does not begin the buffer is walked past
\* what was received, into what earlier frames left there: either outcome.
Formats(b) == IF Message(b) = <<>> \/ IsReply(Message(b)[2]) THEN {FALSE}
              ELSE IF Message(b) = b THEN {TRUE} ELSE BOOLEAN

\* The acknowledgement or the result: one parameter of one byte.
ReplyTo(c) == <<START, Reply(c), 1, 1, 1, END>>

\* call_reply_cb up to the first byte written by sendReply.
Poll == /\ sh = "busy"
        /\ TRUE \in Formats(rbuf)
        /\ LET msg == Message(rbuf) IN
             \/ /\ msg[2] \in Cmds
                /\ sh' = "reply"
                /\ rbuf' = msg
                /\ tx' = Append(tx, START)
                /\ rest' = Tail(ReplyTo(msg[2]))
                /\ ran' = IF msg[2] \in SetCmds THEN ran ELSE Append(ran, msg)
                /\ UNCHANGED rdr
             \/ /\ msg[2] \notin Cmds
                /\ UNCHANGED <<tx, rest, ran>>
                /\ Listen
        /\ UNCHANGED <<paused, gaps, last, trouble>>
        /\ UNCHANGED host

\* sendError: the error byte waits for the host with the interrupt enabled.
PollBad == /\ sh = "busy"
           /\ FALSE \in Formats(rbuf)
           /\ tx' = Append(tx, ERR)
           /\ Listen
           /\ UNCHANGED <<paused, gaps, last, trouble, rest, ran>>
           /\ UNCHANGED host

\* The callback of a SET, after its acknowledgement.
RunSet == /\ sh = "set"
          /\ ran' = Append(ran, rbuf)
          /\ UNCHANGED <<paused, gaps, last, trouble, tx, rest>>
          /\ Listen
          /\ UNCHANGED host

\* A wait of write_stream ends: spi_read's only lets the next byte be
\* written, spi_write's gives the reply up and, for a SET, its callback.
StreamTimeout ==
  /\ sh = "reply" /\ Quiet
  /\ \/ /\ rest # <<>> /\ Len(tx) < 2
        /\ tx' = Append(tx, Head(rest))
        /\ rest' = Tail(rest)
        /\ UNCHANGED <<sh, rbuf, rdr>>
     \/ /\ rest # <<>> /\ Len(tx) = 2
        /\ rest' = <<>>
        /\ UNCHANGED tx
        /\ Listen
     \/ /\ rest = <<>>
        /\ UNCHANGED <<tx, rest>>
        /\ Written
  /\ UNCHANGED <<paused, gaps, last, trouble, ran>>
  /\ UNCHANGED host

Bug_IsrTimeout == /\ sh = "isr" /\ Quiet /\ rdr = <<>>
                  /\ sh' = "listen"
                  /\ UNCHANGED <<rbuf, paused, gaps, trouble, rest, ran>>
                  /\ UNCHANGED host /\ UNCHANGED wire

\* The wait for the next byte of a frame ends: what came is dropped.  With a
\* byte still to be taken the interrupt comes again at once.
IsrTimeout == /\ sh = "isr" /\ Quiet /\ rdr = <<>>
              /\ sh' = "listen"
              /\ rbuf' = <<>>
              /\ UNCHANGED <<paused, gaps, trouble, rest, ran>>
              /\ UNCHANGED host /\ UNCHANGED wire

-----------------------------------------------------------------------------
Host == Send \/ WaitReady \/ ReadStart \/ ReadReply
Shield == Poll \/ PollBad \/ RunSet
Next == \/ \E r \in Calls : Call(r)
        \/ Host
        \/ Shield
        \/ Pause \/ Resume
        \/ StreamTimeout \/ IsrTimeout

Spec == Init /\ [][Next]_vars

\* The host goes on with its call, a pause ends, the shield's main loop and
\* its waits run; and the sketch leaves the link alone, again and again, for
\* as long as the shield waits for the next byte of a frame.
Fairness == /\ WF_vars(Host) /\ WF_vars(Resume)
            /\ WF_vars(Shield) /\ WF_vars(StreamTimeout)
            /\ SF_vars(IsrTimeout)
FairSpec == Spec /\ Fairness

-----------------------------------------------------------------------------
TypeOK == /\ hpc \in {"idle", "send", "wait", "start", "read"}
          /\ call \in Calls
          /\ hi \in Nat
          /\ got \in Seq(0 .. 255)
          /\ answer \in {"none", "ok", "lost"}
          /\ paused \in BOOLEAN /\ trouble \in BOOLEAN
          /\ gaps \in 0 .. MaxGaps
          /\ sh \in {"listen", "isr", "busy", "reply", "set"}
          /\ rbuf \in Seq(0 .. 255) /\ Len(rbuf) < BUFFERSIZE
          /\ rdr \in Seq(0 .. 255) /\ Len(rdr) <= 1
          /\ last \in 0 .. 255
          /\ tx \in Seq(0 .. 255) /\ Len(tx) <= 2
          /\ rest \in Seq(0 .. 255)
          /\ ran \in Seq(Seq(0 .. 255))

\* The requests of which no part that a pause may cut off, from any byte after
\* the first to any later one, is itself a frame with a command the shield has.
\* A request whose parameters hold another request byte for byte is not one.
Harmless(b) == Message(b) = <<>> \/ Message(b)[2] \notin Cmds
NoFrameInside ==
  \A r \in Calls : \A j \in 2 .. Len(Frame(r)) : \A i \in j .. Len(Frame(r)) :
    LET b == SubSeq(Frame(r), j, i) IN EndOfFrame(b) => Harmless(b)

\* What the shield runs is the request of the present call, byte for byte,
\* and once: no frame cut short at an END among its parameters, none put
\* together from the remains of another, none run again.  With pauses it takes
\* requests with NoFrameInside.
Genuine == ran \in {<<>>, <<Frame(call)>>}

\* The link falls out of step only over a pause, and a call that met neither a
\* pause nor a link out of step is answered, and has run, or is about to before
\* the pin lets the next call go out.
Answers ==
    /\ gaps = 0 => ~trouble
    /\ hpc = "idle" /\ answer # "none" /\ ~trouble =>
          /\ answer = "ok"
          /\ \/ ran = <<Frame(call)>>
             \/ sh = "set" /\ rbuf = Frame(call)

\* Every call returns, and if the sketch goes on calling, pauses do not leave
\* the link out of step for ever: in the end every call is answered.
Recovers ==
    /\ hpc # "idle" ~> hpc = "idle"
    /\ []<>(hpc = "send") => <>[](hpc = "idle" => answer = "ok")

\* The link, byte by byte, keeps the promise of SpiService.
Service == INSTANCE SpiService
             WITH calling <- hpc # "idle", ran <- ran # <<>>,
                  Deferred <- LAMBDA r : r.cmd \in SetCmds
KeepsPromise == Service!Spec
=============================================================================
