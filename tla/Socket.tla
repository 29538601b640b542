------------------------------ MODULE Socket -------------------------------
(***************************************************************************)
(* socket/socket.c: TCP and UDP sockets for the microcontroller (MCU).     *)
(* SOCKET_Setup takes the next place of a pool, round robin; SOCKET_Send   *)
(* sends with it; everything that happens to the socket is reported to the *)
(* callback named at set-up.  A client connects for each send, and closes  *)
(* when it is done (TCP_CLIENT) or when an answer came (TCP_CLIENT_LISTEN);*)
(* a server is connected to, one peer at a time here.                      *)
(***************************************************************************)
EXTENDS Espconn, SequencesExt

CONSTANTS
    MAX_SOCKET,  \* places in the pool
    CHUNK,       \* units handed to the connection at a time, 1400 bytes in the code
    Lengths,     \* lengths of what the MCU sends, see SocketAssumption
    MaxSetups,   \* bound on the set-ups
    MaxSends,    \* bound on the sends
    MaxPeers     \* bound on the connections and on what peers send

\* What the MCU sends comes in a SLIP packet, of at most 1024 bytes, well below
\* two chunks: beyond that a part would be handed over twice.
SocketAssumption ==
    /\ MAX_SOCKET \in Nat \ {0} /\ CHUNK \in Nat \ {0} /\ Lengths \subseteq 1..2 * CHUNK
    /\ MaxSetups \in Nat /\ MaxSends \in Nat /\ MaxPeers \in Nat

VARIABLES
    socketClient,  \* the pool
    socketNum,     \* the next place
    link,          \* the connection of each place
    lookup,        \* whether a lookup for a place is under way
    told,          \* history: what the MCU has been told of each place
    sends,         \* history: the data of each send so far
    setups, peers  \* how many set-ups and peers there have been

vars == <<socketClient, socketNum, link, lookup, told, sends, setups, peers>>

Places == 0..MAX_SOCKET - 1
Modes == {"TCP_CLIENT", "TCP_CLIENT_LISTEN", "TCP_SERVER", "UDP"}
Free == [sock_mode |-> "none", byName |-> FALSE, ip |-> 0, data |-> <<>>, data_len |-> 0,
         data_sent |-> 0, resp_cb |-> 0]

\* What the MCU knows of a socket: the callback and the kind of the last
\* report, and how often data was reported sent.
Unheard == [cb |-> 0, kind |-> "none", len |-> 0, sents |-> 0]
Report(p, kind, len) ==
    told' = [told EXCEPT ![p] =
               [cb |-> socketClient[p].resp_cb, kind |-> kind, len |-> len,
                sents |-> IF kind = "SENT" THEN @.sents + 1 ELSE @.sents]]

-----------------------------------------------------------------------------
(* Commands of the MCU *)

NextPlace == (socketNum + 1) % MAX_SOCKET

\* The MCU uses at most as many sockets as there are places, as the comment on
\* the pool asks, and takes a place again only when its connection is over;
\* the second part is an assumption of the model, see PlaceIdle of Rest.
PlaceIdle == link[socketNum].st = "none" /\ ~lookup[socketNum]

\* A server listens from now on, a UDP socket can send and receive at once.
SOCKET_Setup(mode, byName) ==
    /\ setups < MaxSetups
    /\ PlaceIdle
    /\ setups' = setups + 1
    /\ socketClient' = [socketClient EXCEPT ![socketNum] =
            [Free EXCEPT !.sock_mode = mode, !.byName = byName, !.resp_cb = setups + 1]]
    /\ told' = [told EXCEPT ![socketNum] = Unheard]
    /\ link' = [link EXCEPT ![socketNum] =
            IF mode = "UDP" THEN Opened(Idle) ELSE IF mode = "TCP_SERVER" THEN [Idle EXCEPT !.st = "listening"] ELSE Idle]
    /\ socketNum' = NextPlace
    /\ UNCHANGED <<lookup, sends, peers>>

FirstPart(len) == IF len <= CHUNK THEN len ELSE CHUNK
Data(n, len) == [i \in 1..len |-> <<n, i>>]

\* The MCU sends when its last send on this socket is done and, in the client
\* modes, it has been told that the connection is gone.
Quiet(p) ==
    /\ ~lookup[p] /\ link[p].unsent = 0
    /\ socketClient[p].sock_mode \in {"TCP_CLIENT", "TCP_CLIENT_LISTEN"} => link[p].st = "none"

\* A send replaces the data of an earlier one.  A server without a peer leaves
\* it unsent, and so does a name the resolver has in its cache: its address is
\* stored (ESPCONN_OK), and once it is, one that is found is not connected to.
SOCKET_Send(p, len) ==
    LET client == socketClient[p]
        data   == Data(Len(sends) + 1, len)
        asked  == [client EXCEPT !.data = data, !.data_len = len]
        now    == [asked EXCEPT !.data_sent = FirstPart(len)]
    IN  /\ Len(sends) < MaxSends /\ client.sock_mode # "none" /\ Quiet(p)
        /\ sends' = Append(sends, [place |-> p, data |-> data])
        /\ \/ /\ client.sock_mode \in {"TCP_SERVER", "UDP"} /\ Up(link[p])
              /\ socketClient' = [socketClient EXCEPT ![p] = now]
              /\ link' = [link EXCEPT ![p] = espconn_sent(@, SubSeq(data, 1, now.data_sent))]
              /\ UNCHANGED lookup
           \/ /\ client.sock_mode = "TCP_SERVER" /\ ~Up(link[p])
              /\ socketClient' = [socketClient EXCEPT ![p] = asked]
              /\ UNCHANGED <<link, lookup>>
           \/ /\ client.sock_mode \in {"TCP_CLIENT", "TCP_CLIENT_LISTEN"}
              /\ \/ /\ ~client.byName
                    /\ socketClient' = [socketClient EXCEPT ![p] = asked]
                    /\ link' = [link EXCEPT ![p] = espconn_connect(@)]
                    /\ UNCHANGED lookup
                 \/ /\ client.byName
                    /\ socketClient' = [socketClient EXCEPT ![p] = asked]
                    /\ lookup' = [lookup EXCEPT ![p] = TRUE]
                    /\ UNCHANGED link
                 \/ /\ client.byName
                    /\ socketClient' = [socketClient EXCEPT ![p] = [asked EXCEPT !.ip = 1]]
                    /\ UNCHANGED <<link, lookup>>
    /\ UNCHANGED <<socketNum, told, setups, peers>>

-----------------------------------------------------------------------------
(* Callbacks of place p *)

socket_dns_found(p, found) ==
    /\ lookup[p]
    /\ lookup' = [lookup EXCEPT ![p] = FALSE]
    /\ \/ ~found /\ Report(p, "RECO", 0) /\ UNCHANGED link
       \/ /\ found /\ UNCHANGED told
          /\ link' = IF socketClient[p].ip = 0 THEN [link EXCEPT ![p] = espconn_connect(@)] ELSE link
    /\ UNCHANGED <<socketClient, socketNum, sends, setups, peers>>

socketclient_connect_cb(p) ==
    LET client == socketClient[p]
        n      == FirstPart(client.data_len)
    IN  /\ Report(p, "CON", 0)
        /\ IF client.sock_mode # "TCP_SERVER"
           THEN /\ Connecting(link[p])
                /\ socketClient' = [socketClient EXCEPT ![p].data_sent = n]
                /\ link' = [link EXCEPT ![p] = espconn_sent(Opened(@), SubSeq(client.data, 1, n))]
                /\ UNCHANGED peers
           ELSE /\ link[p].st = "listening" /\ peers < MaxPeers
                /\ peers' = peers + 1
                /\ link' = [link EXCEPT ![p] = Opened(@)]
                /\ UNCHANGED socketClient
        /\ UNCHANGED <<socketNum, lookup, sends, setups>>

\* Handed over in parts, the data is sent part by part: of more than CHUNK
\* units left, CHUNK are handed over twice.
Left(client) == client.data_len - client.data_sent
\* mutant: one unit too early
NextPartEarly(client) == SubSeq(client.data, client.data_sent, client.data_sent + FirstPart(Left(client)) - 1)
NextPart(client) == SubSeq(client.data, client.data_sent + 1, client.data_sent + FirstPart(Left(client)))

socketclient_sent_cb(p) ==
    LET client == socketClient[p]
        acked  == Acknowledged(link[p])
    IN  /\ Live(link[p]) /\ link[p].unsent > 0
        /\ IF client.data_sent # client.data_len
           THEN /\ link' = [link EXCEPT ![p] =
                      IF Left(client) > CHUNK
                      THEN espconn_sent(espconn_sent(acked, NextPart(client)), NextPart(client))
                      ELSE espconn_sent(acked, NextPart(client))]
                /\ socketClient' = [socketClient EXCEPT ![p].data_sent = @ + FirstPart(Left(client))]
                /\ UNCHANGED told
           ELSE /\ socketClient' = [socketClient EXCEPT ![p].data = <<>>]
                /\ link' = [link EXCEPT ![p] =
                      IF client.sock_mode = "TCP_CLIENT" THEN espconn_disconnect(acked) ELSE acked]
                /\ Report(p, "SENT", client.data_sent)
        /\ UNCHANGED <<socketNum, lookup, sends, setups, peers>>

\* In pieces of at most MAX_RECEIVE_PACKET_LENGTH; the last report is kept.
\* espconn_disconnect does nothing on a UDP socket.
socketclient_recv_cb(p) ==
    /\ Up(link[p]) /\ peers < MaxPeers
    /\ peers' = peers + 1
    /\ Report(p, "RECV", 1)
    /\ link' = [link EXCEPT ![p] =
                  IF socketClient[p].sock_mode \in {"TCP_SERVER", "UDP"} THEN @ ELSE espconn_disconnect(@)]
    /\ UNCHANGED <<socketClient, socketNum, lookup, sends, setups>>

\* Both free the data and report.
After(mode) == IF mode = "TCP_SERVER" THEN [Idle EXCEPT !.st = "listening"] ELSE Idle
Ended(p, kind) ==
    /\ socketClient[p].sock_mode # "UDP"
    /\ socketClient' = [socketClient EXCEPT ![p].data = <<>>]
    /\ link' = [link EXCEPT ![p] = After(socketClient[p].sock_mode)]
    /\ Report(p, kind, 0)
    /\ UNCHANGED <<socketNum, lookup, sends, setups, peers>>
socketclient_discon_cb(p) == Live(link[p]) /\ Ended(p, "DIS")
socketclient_recon_cb(p) == link[p].st \in {"connecting", "up", "closing"} /\ Ended(p, "RECO")

Init ==
    /\ socketClient = [p \in Places |-> Free]
    /\ socketNum = 0
    /\ link = [p \in Places |-> Idle]
    /\ lookup = [p \in Places |-> FALSE]
    /\ told = [p \in Places |-> Unheard]
    /\ sends = <<>> /\ setups = 0 /\ peers = 0

Callback(p) ==
    \/ \E found \in BOOLEAN : socket_dns_found(p, found)
    \/ socketclient_connect_cb(p) \/ socketclient_sent_cb(p) \/ socketclient_recv_cb(p)
    \/ socketclient_discon_cb(p) \/ socketclient_recon_cb(p)

Next ==
    \/ \E mode \in Modes, byName \in BOOLEAN : SOCKET_Setup(mode, byName)
    \/ \E p \in Places : (\E len \in Lengths : SOCKET_Send(p, len)) \/ Callback(p)

Spec == Init /\ [][Next]_vars
-----------------------------------------------------------------------------
(* Properties *)

\* When the MCU is told that its data was sent, the peer has all of it in
\* order, as often as it was sent, and the length it is told is that of its
\* data: sent callbacks of parts, and of connections lost since, are not
\* taken for it.
SentWhole ==
    [][\A p \in Places :
         told'[p].sents > told[p].sents =>
            LET mine == SelectLastInSeq(sends, LAMBDA s : s.place = p)
                data == sends[mine].data
            IN  /\ told'[p].cb = socketClient[p].resp_cb /\ told'[p].len = Len(data)
                /\ IsSuffix(data, link[p].out)]_vars
=============================================================================
