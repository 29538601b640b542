----------------------------- MODULE SerBridge -----------------------------
(***************************************************************************)
(* serial/serbridge.c: TCP connections from a pool of MAX_CONN are bridged *)
(* to the UART.  What the UART receives is copied to every connection      *)
(* through a buffer of its own, because a connection may only be given     *)
(* more to send when it has sent what it was given before; what a          *)
(* connection receives goes to the UART, through the telnet machine if the *)
(* client speaks telnet; a connection that begins like a programmer resets *)
(* the microcontroller.                                                    *)
(*                                                                         *)
(* The SDK's side of a connection is sdk: what it is sending, and which    *)
(* slot conn->reverse points to.  A client may come back after its         *)
(* connection has ended.                                                   *)
(***************************************************************************)
EXTENDS Uart, Telnet

CONSTANTS
    Conns,         \* the clients
    MAX_CONN,      \* slots of the pool
    MAX_TXBUFFER,  \* characters a buffer holds
    NoConn,        \* conn is NULL
    MaxPacket,     \* bound on the characters of a packet from a client
    ByteIds,       \* characters from the UART are numbered modulo ByteIds
    Loads          \* what a behaviour may be about: [clients, port, says, bytes,
                   \* programmer, others, slip, faults]: who connects to which port and says
                   \* which items, whether characters arrive at the UART,
                   \* whether a programmer takes them, whether there
                   \* are other user tasks, slip_enable; "send":
                   \* espconn_sent may fail; "alloc", "realloc": memory may
                   \* run out, at once or when more is to be buffered after a send

ASSUME SerBridgeAssumption ==
    /\ MAX_CONN \in Nat \ {0} /\ MAX_TXBUFFER \in Nat \ {0}
    /\ ByteIds \in Nat \ {0} /\ MaxPacket \in Nat \ {0}
    /\ NoConn \notin Conns
    /\ \A l \in Loads : /\ l.faults \subseteq {"send", "alloc", "realloc"}
                       /\ l.says \in [Conns -> Seq(Items)]

VARIABLES
    connData,   \* the pool
    sdk,        \* the SDK's side of each client's connection
    flashing,   \* in_mcu_flashing
    pins,       \* the reset and ISP pins of the microcontroller
    baud,       \* tn_baud and tn_baudCnt, shared by all connections
    programming,\* programmingCB is set
    load,       \* what this behaviour is about
    next,       \* number of the next character to arrive
    client      \* history, for each client: what it has yet to say, what was done
                \* of what it said, what it is owed, and whether any of that is lost

vars == <<fifo, intr, queue, running, connData, sdk, flashing, pins, baud, programming, load, next, client>>
bridgeVars == <<connData, sdk, flashing, pins, baud, programming, client>>

Free == [conn |-> NoConn, mode |-> "init", telnet |-> "normal", tx |-> <<>>, sent |-> <<>>,
         overflow |-> "no", ready |-> FALSE]
Idle == [state |-> "idle", reverse |-> 0, sending |-> <<>>]
Says(c) == FlattenSeq([i \in DOMAIN load.says[c] |-> Sent(load.says[c][i])])
Fresh(c) == [unread |-> Says(c), done |-> <<>>, owed |-> <<>>, lossy |-> FALSE]

-----------------------------------------------------------------------------
(* Sending: b is the slot s of a connection, its SDK side k and its client h *)

\* From now on nobody can say what the client is owed.
Lost(b) == [b EXCEPT !.h.owed = <<>>, !.h.lossy = TRUE]

\* Mutant: the connection is still ready.
SendStaysReady(b, ok) ==
    IF b.s.tx = <<>> \/ ~ok THEN b
    ELSE [b EXCEPT !.s.sent = b.s.tx, !.s.tx = <<>>, !.k.sending = b.s.tx]

sendtxbuffer(b, ok) ==
    CASE b.s.tx = <<>> -> b
      [] b.s.tx # <<>> /\ ok ->
            [b EXCEPT !.s.ready = FALSE, !.s.sent = b.s.tx, !.s.tx = <<>>, !.k.sending = b.s.tx]
      [] b.s.tx # <<>> /\ ~ok ->
            Lost([b EXCEPT !.s.ready = FALSE, !.s.tx = <<>>,
                           !.s.overflow = IF @ = "no" THEN "since" ELSE @])

\* Mutant: the connection is not closed.
OverflowForGood(b) ==
    Lost(CASE b.s.overflow = "no" -> [b EXCEPT !.s.overflow = "since"]
           [] OTHER               -> b)

\* Nothing has been sent for ten seconds ("stuck"): close the connection.
Overflow(b) ==
    Lost(CASE b.s.overflow = "no"    -> [b EXCEPT !.s.overflow = "since"]
           [] b.s.overflow = "since" -> b
           [] b.s.overflow = "stuck" -> [b EXCEPT !.k.state = "closing"])

Room(b) == MAX_TXBUFFER - Len(b.s.tx)
Fits(b, data) == SubSeq(data, 1, IF Len(data) < Room(b) THEN Len(data) ELSE Room(b))
Rest(b, data) == SubSeq(data, Room(b) + 1, Len(data))

\* Mutant: what does not fit is not tried again.
BufferOnce(b, data, outcome) ==
    LET f == [b EXCEPT !.s.tx = @ \o Fits(b, data)]
    IN  IF b.s.ready THEN sendtxbuffer(f, outcome # "send") ELSE f

\* Add to the buffer and send it, if the connection is ready; then try again
\* with what did not fit.
Buffered(b, data, outcome) ==
    LET f == [b EXCEPT !.s.tx = @ \o Fits(b, data)]
        g == IF b.s.ready THEN sendtxbuffer(f, outcome # "send") ELSE f
        r == Rest(b, data)
    IN  CASE r = <<>>                   -> g
          [] r # <<>> /\ g.s.tx # <<>>  -> Overflow(g)
          [] r # <<>> /\ g.s.tx = <<>> /\ outcome = "realloc" -> Lost(g)
          [] r # <<>> /\ g.s.tx = <<>> /\ outcome # "realloc" ->
                LET again == [g EXCEPT !.s.tx = Fits(g, r)]
                IN  IF Rest(g, r) = <<>> THEN again ELSE Overflow(again)

espbuffsend(b, data, outcome) ==
    LET q == IF b.h.lossy THEN b ELSE [b EXCEPT !.h.owed = @ \o data]
    IN  CASE Len(b.s.tx) >= MAX_TXBUFFER -> Overflow(b)
          [] Len(b.s.tx) < MAX_TXBUFFER /\ b.s.tx = <<>> /\ outcome = "alloc" -> Lost(b)
          [] OTHER -> Buffered(q, data, outcome)

Outcomes == {"ok"} \cup load.faults

Bundle(i) ==
    [s |-> connData[i], k |-> sdk[connData[i].conn], h |-> client[connData[i].conn]]
Open == {i \in 1..MAX_CONN : connData[i].conn # NoConn}
SlotOf(c) == sdk[c].reverse

\* The slots, and with them their clients, become what b says.
Become(b) ==
    /\ connData' = [i \in 1..MAX_CONN |-> IF i \in DOMAIN b THEN b[i].s ELSE connData[i]]
    /\ sdk' = [c \in Conns |-> IF SlotOf(c) \in DOMAIN b THEN b[SlotOf(c)].k ELSE sdk[c]]
    /\ client' = [c \in Conns |-> IF SlotOf(c) \in DOMAIN b THEN b[SlotOf(c)].h ELSE client[c]]

Becomes(i, b) == Become([j \in {i} |-> b])

-----------------------------------------------------------------------------
(* From the UART *)

Arrive ==
    /\ load.bytes
    /\ Arrives(next) /\ next' = (next + 1) % ByteIds
    /\ UNCHANGED <<bridgeVars, load>>

\* Every connection gets the characters, whatever becomes of the others.
console_process(data) ==
    \E outcome \in [Open -> Outcomes] :
        Become([i \in Open |-> espbuffsend(Bundle(i), data, outcome[i])])

\* Characters that go to the programmer or to the SLIP parser are theirs.
serbridgeUartCb(data) ==
    IF ~programming /\ (~load.slip \/ flashing > 0)
    THEN console_process(data)
    ELSE UNCHANGED <<connData, sdk, client>>

uart_recvTask ==
    /\ RecvTaskReads /\ serbridgeUartCb(Buffer)
    /\ UNCHANGED <<flashing, pins, baud, programming, load, next>>

UartOnly == UNCHANGED <<bridgeVars, load, next>>

Interrupt == uart0_rx_intr_handler /\ UartOnly
TaskBegins == usr_event_handler /\ UartOnly
TaskEnds == (RecvTaskEnds \/ OtherTask) /\ UartOnly
Disturbs == ((load.others /\ OtherPosts) \/ (programming /\ uart0_rx_poll)) /\ UartOnly

-----------------------------------------------------------------------------
(* To the UART.  A client's words reach the bridge in packets of any size. *)

Knocks == {<<"0", " ">>, <<"?", "nl">>, <<"?", "cr", "nl">>}

Dispatch(s, data) ==
    CASE s.mode = "init" /\ data \in Knocks -> "pgm"
      [] s.mode = "init" /\ Len(data) >= 2 /\ data[1] = "IAC" /\ data[2] \in {"WILL", "DO"} -> "telnet"
      [] s.mode = "init" /\ data \notin Knocks
            /\ ~(Len(data) >= 2 /\ data[1] = "IAC" /\ data[2] \in {"WILL", "DO"}) -> "transparent"
      [] s.mode = "pgmInit" -> "pgm"
      [] OTHER -> s.mode

Heard(c, n) == SubSeq(client[c].unread, 1, n)
StillToSay(b, n) == [b EXCEPT !.h.unread = SubSeq(@, n + 1, Len(@))]

\* The reset dance takes the place of what the programmer said.
StartPGM(i, n) ==
    /\ connData[i].mode \in {"init", "pgmInit"}
    /\ Dispatch(connData[i], Heard(connData[i].conn, n)) = "pgm"
    /\ flashing' = (flashing + 1) % (FlashingMax + 1) /\ pins' = [reset |-> 1, isp |-> 0]
    /\ Becomes(i, StillToSay([Bundle(i) EXCEPT !.s.mode = "pgm", !.h.done = Append(@, <<"RESET">>)], n))
    /\ UNCHANGED baud

\* The characters are written to the UART as they are.
Verbatim(i, n) ==
    LET data == Heard(connData[i].conn, n)
        mode == Dispatch(connData[i], data)
    IN  /\ mode \in {"transparent", "pgm"} /\ ~(mode = "pgm" /\ connData[i].mode # "pgm")
        /\ Becomes(i, StillToSay([Bundle(i) EXCEPT !.s.mode = mode,
                         !.h.done = @ \o [j \in DOMAIN data |-> <<data[j]>>]], n))
        /\ UNCHANGED <<flashing, pins, baud>>

\* Through the telnet machine, whose answers go back to the client.
Telneting(i, n) ==
    LET data == Heard(connData[i].conn, n)
        m == telnetUnwrap([state |-> connData[i].telnet, baud |-> baud, flashing |-> flashing, pins |-> pins,
                           out |-> client[connData[i].conn].done, responses |-> <<>>], data)
        b == StillToSay([Bundle(i) EXCEPT !.s.mode = "telnet", !.s.telnet = m.state,
                                          !.h.done = m.out], n)
    IN  /\ Dispatch(connData[i], data) = "telnet"
        /\ flashing' = m.flashing /\ pins' = m.pins /\ baud' = m.baud
        /\ \E outcome \in Outcomes :
              Becomes(i, IF m.responses = <<>> THEN b ELSE espbuffsend(b, m.responses, outcome))

serbridgeRecvCb(c) ==
    /\ running = "none" /\ sdk[c].state = "open" /\ SlotOf(c) # 0
    /\ \E n \in 1..Len(client[c].unread) : n <= MaxPacket /\
          (StartPGM(SlotOf(c), n) \/ Verbatim(SlotOf(c), n) \/ Telneting(SlotOf(c), n))
    /\ UNCHANGED <<uartVars, programming, load, next>>

-----------------------------------------------------------------------------
(* The SDK *)

\* What was given to the SDK has been sent: the buffer is freed and the next
\* one sent.
serbridgeSentCb(c) ==
    /\ running = "none" /\ sdk[c].sending # <<>> /\ SlotOf(c) # 0
    /\ LET b == [Bundle(SlotOf(c)) EXCEPT
                    !.h.owed = SubSeq(@, Len(sdk[c].sending) + 1, Len(@)), !.k.sending = <<>>,
                    !.s.sent = <<>>, !.s.ready = TRUE, !.s.overflow = "no"]
       IN  \E outcome \in Outcomes \ {"alloc", "realloc"} :
              Becomes(SlotOf(c), sendtxbuffer(b, outcome # "send"))
    /\ UNCHANGED <<uartVars, flashing, pins, baud, programming, load, next>>

\* Ten seconds have passed since the first overflow.
TenSeconds ==
    /\ \E i \in Open :
          /\ connData[i].overflow = "since"
          /\ connData' = [connData EXCEPT ![i].overflow = "stuck"]
    /\ UNCHANGED <<uartVars, sdk, client, flashing, pins, baud, programming, load, next>>

\* The pool's first free slot, if there is one; else the connection is closed.
serbridgeConnectCb(c) ==
    LET free == {i \in 1..MAX_CONN : connData[i].conn = NoConn}
        i == CHOOSE j \in free : \A k \in free : j <= k
    IN  /\ running = "none" /\ sdk[c].state = "idle" /\ c \in load.clients
        /\ client' = [client EXCEPT ![c] = Fresh(c)]
        /\ IF free = {}
           THEN /\ sdk' = [sdk EXCEPT ![c] = [Idle EXCEPT !.state = "closing"]]
                /\ UNCHANGED connData
           ELSE /\ sdk' = [sdk EXCEPT ![c] = [Idle EXCEPT !.state = "open", !.reverse = i]]
                /\ connData' = [connData EXCEPT ![i] = [Free EXCEPT !.conn = c, !.ready = TRUE,
                      !.mode = IF load.port[c] = 2 THEN "pgmInit" ELSE "init"]]
        /\ UNCHANGED <<uartVars, flashing, pins, baud, programming, load, next>>

\* The connection is closed, by either side, by the idle timer or by a reset.
\* After programming the microcontroller is reset again.
serbridgeDisconCb(c) ==
    /\ running = "none" /\ sdk[c].state # "idle"
    /\ sdk' = [sdk EXCEPT ![c] = Idle]
    /\ IF SlotOf(c) = 0 THEN UNCHANGED connData
       ELSE connData' = [connData EXCEPT ![SlotOf(c)].conn = NoConn,
                                         ![SlotOf(c)].tx = <<>>, ![SlotOf(c)].sent = <<>>]
    /\ pins' = IF SlotOf(c) # 0 /\ connData[SlotOf(c)].mode = "pgm" THEN [reset |-> 1, isp |-> 1]
               ELSE pins
    /\ client' = [client EXCEPT ![c] = [Fresh(c) EXCEPT !.unread = <<>>]]
    /\ UNCHANGED <<uartVars, flashing, baud, programming, load, next>>

\* A session of one of the programmers begins or ends.
Programmer ==
    /\ load.programmer /\ running = "none"
    /\ programming' = ~programming
    /\ UNCHANGED <<uartVars, connData, sdk, client, flashing, pins, baud, load, next>>

Init ==
    /\ UartInit
    /\ load \in Loads
    /\ connData = [i \in 1..MAX_CONN |-> Free]
    /\ sdk = [c \in Conns |-> Idle]
    /\ flashing = 0 /\ pins = [reset |-> 1, isp |-> 1] /\ baud = <<>> /\ programming = FALSE /\ next = 0
    /\ client = [c \in Conns |-> [unread |-> <<>>, done |-> <<>>, owed |-> <<>>, lossy |-> FALSE]]

Next ==
    \/ Arrive \/ uart_recvTask
    \/ Interrupt \/ TaskBegins \/ TaskEnds \/ Disturbs
    \/ TenSeconds \/ Programmer
    \/ \E c \in Conns :
          \/ serbridgeRecvCb(c) \/ serbridgeSentCb(c)
          \/ serbridgeConnectCb(c) \/ serbridgeDisconCb(c)

Spec == Init /\ [][Next]_vars

\* Characters keep arriving, not all of them with framing errors, and are
\* read faster than they arrive; time passes, and the SDK closes what it is
\* told to close; memory is not short for ever.
Close(c) == sdk[c].state = "closing" /\ serbridgeDisconCb(c)
FairSpec ==
    /\ Spec
    /\ WF_vars(Arrive) /\ SF_vars(Interrupt /\ UNCHANGED fifo)
    /\ WF_vars(TaskBegins) /\ WF_vars(uart_recvTask)
    /\ SF_vars(uart_recvTask /\ <<connData, sdk>>' # <<connData, sdk>>) /\ SF_vars(TaskEnds)
    /\ WF_vars(TenSeconds)
    /\ \A c \in Conns : SF_vars(Close(c))

-----------------------------------------------------------------------------
(* Properties *)

(* The SDK's rule that a connection is given something to send only after  *)
(* the sent callback of what it was given before, and that what it was     *)
(* given stays in its buffer until then; a slot that is ready has nothing  *)
(* to send, and a free one no buffers that the next connection would lose. *)
SendDiscipline ==
    \A i \in 1..MAX_CONN :
        LET s == connData[i] IN
        /\ s.conn = NoConn => s.tx = <<>> /\ s.sent = <<>>
        /\ s.conn # NoConn =>
              /\ sdk[s.conn].reverse = i
              /\ sdk[s.conn].sending = s.sent
              /\ s.ready => s.tx = <<>> /\ s.sent = <<>>

(* What a client is owed of the characters the UART received and of the    *)
(* answers to its own commands is exactly what is being sent to it and     *)
(* what is in its buffer, in order: unless a buffer has overflowed, a send *)
(* failed or memory run out since it connected, of all of which the bridge *)
(* takes note, nothing is lost, repeated or out of order.                  *)
NoSilentLoss ==
    \A i \in Open : LET c == connData[i].conn IN
        ~client[c].lossy => client[c].owed = connData[i].sent \o connData[i].tx

(* What telnet and plain clients say comes out as they mean it, however it *)
(* is cut into packets and whoever else is talking: every character once,  *)
(* every control line and every baud rate, and nothing else.               *)
Unwrapped ==
    \A i \in Open :
        LET c == connData[i].conn
            meant == IF connData[i].mode = "telnet"
                     THEN FlattenSeq([j \in DOMAIN load.says[c] |-> Meant(load.says[c][j])])
                     ELSE [j \in DOMAIN Says(c) |-> <<Says(c)[j]>>]
        IN  connData[i].mode \in {"telnet", "transparent"} =>
              /\ IsPrefix(client[c].done, meant)
              /\ client[c].unread = <<>> => client[c].done = meant

(* A connection that will get no sent callback, because a send failed,     *)
(* does not stay: as long as characters arrive it is closed in the end.    *)
Stuck(i) ==
    connData[i].conn # NoConn /\ ~connData[i].ready /\ sdk[connData[i].conn].sending = <<>>
Unstuck == \A i \in 1..MAX_CONN : load.bytes /\ Stuck(i) ~> ~Stuck(i)
=============================================================================
