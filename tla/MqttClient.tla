----------------------------- MODULE MqttClient -----------------------------
(***************************************************************************)
(* The MQTT client of mqtt/mqtt.c: one TCP connection to the broker, a     *)
(* queue of outbound messages of which at most one awaits its              *)
(* acknowledgement, a one-second timer for acknowledgements, keep-alive    *)
(* and reconnection, and the callbacks of the SDK.                         *)
(*                                                                         *)
(* The SDK runs one callback at a time, so each callback is one action.    *)
(* The helpers the callbacks share are operators from a client to a        *)
(* client, so that an action composes them in the order the code calls     *)
(* them.  The socket, the wire and the broker are the environment.         *)
(***************************************************************************)
EXTENDS Integers, Sequences

CONSTANTS
    KeepAlive,       \* connect_info.keepalive, seconds, a uint8_t; 0 is none
    SendTimeout,     \* sendTimeout, seconds, a uint8_t, at least 1
    BackoffLimit,    \* where reconTimeout stops doubling, 128 in the code
    Kinds,           \* what the application sends: "q0", "q1", "q2", "sub"
    MaxMessages,     \* bound on the messages the application sends
    MaxIncoming,     \* bound on the messages the broker publishes to us
    MaxLosses,       \* bound on the connections lost or refused
    MaxRequests,     \* bound on the Wi-Fi events and reconnect requests
    Allowed          \* the unusual events that may happen: "offline", the
                     \* application publishes while not connected; "flap", an
                     \* IP address is acquired again; "fragment", TCP delivers
                     \* part of a message; "long", a message is too long;
                     \* "settings", the settings of the client change

ASSUME MqttAssumption ==
    /\ KeepAlive \in 0..255
    /\ SendTimeout \in 1..255
    /\ BackoffLimit \in {1, 2, 4, 8, 16, 32, 64, 128}
    /\ Kinds \subseteq {"q0", "q1", "q2", "sub"}
    /\ MaxMessages \in Nat /\ MaxIncoming \in Nat /\ MaxLosses \in Nat /\ MaxRequests \in Nat
    /\ Allowed \subseteq {"offline", "flap", "fragment", "long", "settings"}

VARIABLES
    client,    \* the MQTT_Client, with the state of the socket it owns
    broker,    \* the broker's end of the connection
    done,      \* the ids of the messages the client has seen acknowledged
    accepted,  \* the ids of the messages the client took and must deliver
    budget     \* how often each bounded event has happened

vars == <<client, broker, done, accepted, budget>>

-----------------------------------------------------------------------------
(* Messages *)

Types == {"NONE", "CONNECT", "CONNACK", "PUBLISH", "PUBACK", "PUBREC", "PUBREL", "PUBCOMP",
          "SUBSCRIBE", "SUBACK", "PINGREQ", "PINGRESP", "TOOLONG"}
Message == [type : Types, qos : 0..2, id : Nat]

Msg(t, i) == [type |-> t, qos |-> 0, id |-> i]
None == Msg("NONE", 0)

\* Must the client hold on to the message until it is acknowledged?
needsAck(m) ==
    \/ m.type = "PUBLISH" /\ m.qos > 0
    \/ m.type \in {"PUBREL", "PUBREC", "SUBSCRIBE"}

-----------------------------------------------------------------------------
(* The helpers of mqtt.c, from a client to a client.  Beside the fields of  *)
(* MQTT_Client there are: sock, what the espconn of pCon is doing; wire,    *)
(* what espconn_sent has taken and the broker has not read; inflight, a     *)
(* sent callback is due; armed, mqttTimer is running; and in_buffer, what   *)
(* in_buffer[0..in_buffer_filled-1] is: "part" of a message, "stale" once   *)
(* that part belongs to an earlier connection, or the head of a message too *)
(* "long" for the buffer.  Nothing but receiving ever resets it.            *)

mqtt_send_message(c) ==
    IF c.msgQueue = <<>> \/ c.sending THEN c
    ELSE LET buf == Head(c.msgQueue) IN
         [c EXCEPT !.msgQueue = Tail(@),
                   !.sending = TRUE,
                   !.wire = IF c.sock = "open" THEN Append(@, buf) ELSE @,
                   !.inflight = (c.sock = "open"),
                   !.pending_buffer = IF needsAck(buf) THEN buf ELSE None,
                   !.sending_buffer = IF needsAck(buf) THEN None ELSE buf,
                   !.timeoutTick = IF needsAck(buf) THEN (SendTimeout + 1) % 256
                                   ELSE IF buf.type = "PINGREQ" THEN @ ELSE 0,
                   !.keepAliveTick = IF KeepAlive > 0 THEN (KeepAlive + 1) % 256 ELSE 0]

Push(c, m) == [c EXCEPT !.msgQueue = Append(@, m)]

\* Mutant: the message goes to the end of the queue instead of its head.
UnshiftAtEnd(c, m) == [c EXCEPT !.msgQueue = Append(@, m)]

Unshift(c, m) == [c EXCEPT !.msgQueue = <<m>> \o @]

\* Mutant: the pending message is forgotten.
MaySendWhilePending(c) == ~c.sending

\* The send that enqueueing and receiving attempt: only when nothing is
\* being sent and nothing awaits its acknowledgement.
MaySend(c) == ~c.sending /\ c.pending_buffer = None

mqtt_enq_message(c, m) ==
    IF c.connState = "MQTT_CONNECTED" /\ MaySend(Push(c, m))
    THEN mqtt_send_message(Push(c, m))
    ELSE Push(c, m)

\* Mutant: the delay is doubled without a limit.
BackoffUnlimited(c) ==
    [c EXCEPT !.connState = "TCP_RECONNECT_REQ", !.timeoutTick = c.reconTimeout,
              !.reconTimeout = (2 * @) % 256]

\* Ask the timer for a new connection, after a delay that doubles.
Backoff(c) ==
    [c EXCEPT !.connState = "TCP_RECONNECT_REQ",
              !.timeoutTick = c.reconTimeout,
              !.reconTimeout = IF @ < BackoffLimit THEN 2 * @ ELSE @]

\* The socket is gone, and what TCP held of it.
NoSocket(c) ==
    [c EXCEPT !.sock = "none", !.wire = <<>>, !.inflight = FALSE]

mqtt_doAbort(c) == Backoff([NoSocket(c) EXCEPT !.sending_buffer = None])

\* Mutant: the flag of the send that the old connection never completed stays.
ConnectKeepsSending(c) ==
    LET t == [NoSocket(c) EXCEPT !.armed = TRUE] IN
    {t, [t EXCEPT !.sock = "connecting", !.connState = "TCP_CONNECTING", !.timeoutTick = 20]}

MQTT_Init ==
    [connState |-> "MQTT_DISCONNECTED", sending |-> FALSE, msgQueue |-> <<>>,
     pending_buffer |-> None, sending_buffer |-> None, keepAliveTick |-> 0,
     keepAliveAckTick |-> 0, timeoutTick |-> 0, reconTimeout |-> 1,
     armed |-> FALSE, sock |-> "none", wire |-> <<>>, inflight |-> FALSE,
     in_buffer |-> "empty"]

\* espconn_connect may refuse at once, and then nothing but the timer has
\* changed.
MQTT_Connect(c) ==
    LET t == [NoSocket(c) EXCEPT !.armed = TRUE] IN
    {t, [t EXCEPT !.sock = "connecting", !.connState = "TCP_CONNECTING",
                  !.timeoutTick = 20, !.sending = FALSE]}

MQTT_Disconnect(c) ==
    LET t == [c EXCEPT !.armed = FALSE] IN
    CASE c.connState = "MQTT_DISCONNECTED" -> t
      [] c.connState = "TCP_RECONNECT_REQ" -> [t EXCEPT !.connState = "MQTT_DISCONNECTED"]
      [] OTHER -> [mqtt_doAbort(t) EXCEPT !.connState = "MQTT_DISCONNECTED"]

\* The acknowledgement m completes the pending message: PktBuf_ShiftFree.
Completes(c, type, m) == c.pending_buffer.type = type /\ c.pending_buffer.id = m.id
Free(c) == [c EXCEPT !.pending_buffer = None]

\* The switch of mqtt_tcpclient_recv.
Handle(c, m) ==
    CASE m.type = "CONNACK" -> [c EXCEPT !.reconTimeout = 1]
      [] m.type = "SUBACK" /\ Completes(c, "SUBSCRIBE", m) -> Free(c)
      [] m.type = "PUBACK" /\ Completes(c, "PUBLISH", m) -> Free(c)
      [] m.type = "PUBREC" /\ Completes(c, "PUBLISH", m) ->
             mqtt_enq_message(Free(c), Msg("PUBREL", m.id))
      [] m.type = "PUBCOMP" /\ Completes(c, "PUBREL", m) -> Free(c)
      [] m.type = "PUBLISH" /\ m.qos = 1 -> mqtt_enq_message(c, Msg("PUBACK", m.id))
      [] m.type = "PUBLISH" /\ m.qos = 2 -> mqtt_enq_message(c, Msg("PUBREC", m.id))
      [] m.type = "PUBREL" /\ Completes(c, "PUBREC", m) ->
             mqtt_enq_message(Free(c), Msg("PUBCOMP", m.id))
      [] m.type = "PINGRESP" -> [c EXCEPT !.keepAliveAckTick = 0]
      [] OTHER -> c

\* mqtt_tcpclient_recv is only registered while connected; it aborts on a
\* message too long for its buffer, whose head stays in the buffer, and on
\* any message while not connected.  What it makes of a message behind a
\* stale prefix cannot be told: it swallows it, with or without getting back
\* in step, or takes it for one too long.
Receive(c, m) ==
    LET tooLong == mqtt_doAbort([c EXCEPT !.in_buffer = "long"]) IN
    IF c.sock # "open" THEN {c}
    ELSE IF m.type = "TOOLONG" \/ c.in_buffer = "long" THEN {tooLong}
    ELSE IF c.connState # "MQTT_CONNECTED" THEN {mqtt_doAbort(c)}
    ELSE IF c.in_buffer = "stale" THEN {c, [c EXCEPT !.in_buffer = "empty"], tooLong}
    ELSE {Handle([c EXCEPT !.in_buffer = "empty"], m)}

\* The end of mqtt_tcpclient_recv: send the next packet out, if possible.
SendNext(c) == IF c.sock = "open" /\ MaySend(c) THEN mqtt_send_message(c) ELSE c

\* The ids of the messages acknowledged when m is received.
Acknowledged(c, m) ==
    IF c.in_buffer \in {"empty", "part"} /\ c.sock = "open" /\
       (\/ m.type = "PUBACK" /\ Completes(c, "PUBLISH", m)
        \/ m.type = "PUBCOMP" /\ Completes(c, "PUBREL", m)
        \/ m.type = "SUBACK" /\ Completes(c, "SUBSCRIBE", m))
    THEN {m.id} ELSE {}

-----------------------------------------------------------------------------
(* The broker's end: it reads the wire in order, answers as the protocol    *)
(* asks, and closes a connection that does not begin with one CONNECT.      *)

Answer(m) ==
    CASE m.type = "CONNECT"   -> <<Msg("CONNACK", 0)>>
      [] m.type = "PUBLISH" /\ m.qos = 1 -> <<Msg("PUBACK", m.id)>>
      [] m.type = "PUBLISH" /\ m.qos = 2 -> <<Msg("PUBREC", m.id)>>
      [] m.type = "PUBREL"    -> <<Msg("PUBCOMP", m.id)>>
      [] m.type = "PUBREC"    -> <<Msg("PUBREL", m.id)>>
      [] m.type = "SUBSCRIBE" -> <<Msg("SUBACK", m.id)>>
      [] m.type = "PINGREQ"   -> <<Msg("PINGRESP", 0)>>
      [] OTHER                -> <<>>

Spend(what) == budget[what] > 0 /\ budget' = [budget EXCEPT ![what] = @ - 1]

BrokerReads ==
    /\ client.sock = "open" /\ client.wire # <<>> /\ ~broker.closing
    /\ LET m == Head(client.wire) IN
       broker' = IF broker.up = (m.type = "CONNECT")
                 THEN [broker EXCEPT !.closing = TRUE]
                 ELSE [broker EXCEPT !.up = TRUE, !.out = @ \o Answer(m)]
    /\ client' = [client EXCEPT !.wire = Tail(@)]
    /\ UNCHANGED <<done, accepted, budget>>

BrokerPublishes(m) ==
    /\ client.sock = "open" /\ broker.up /\ ~broker.closing
    /\ Spend("incoming")
    /\ broker' = [broker EXCEPT !.out = Append(@, [m EXCEPT !.id = budget.incoming])]
    /\ UNCHANGED <<client, done, accepted>>

\* A connection that goes takes the broker's session with it.
BrokerSees ==
    broker' = IF client'.sock = "open" THEN broker
              ELSE [broker EXCEPT !.up = FALSE, !.closing = FALSE, !.out = <<>>]

-----------------------------------------------------------------------------
(* What the application and the Wi-Fi events ask of the client              *)

\* The message id the client gives next.
NextId == MaxMessages + 1 - budget.messages

MQTT_Publish(q) ==
    /\ "offline" \in Allowed \/ client.connState = "MQTT_CONNECTED"
    /\ Spend("messages")
    /\ LET m == [type |-> "PUBLISH", qos |-> q, id |-> NextId]
           c == Push(client, m)
       IN  /\ client' = IF MaySend(c) THEN mqtt_send_message(c) ELSE c
           /\ accepted' = IF q > 0 THEN accepted \cup {m.id} ELSE accepted
    /\ UNCHANGED <<broker, done>>

MQTT_Subscribe ==
    /\ "offline" \in Allowed \/ client.connState = "MQTT_CONNECTED"
    /\ Spend("messages")
    /\ client' = mqtt_enq_message(client, Msg("SUBSCRIBE", NextId))
    /\ accepted' = accepted \cup {NextId}
    /\ UNCHANGED <<broker, done>>

\* Connecting succeeds, or is refused, which counts as a loss.
Connects(c) ==
    \E t \in MQTT_Connect(c) :
        /\ client' = t
        /\ IF t.sock = "none" THEN Spend("losses") ELSE UNCHANGED budget

\* wifiStateChangeCb: an IP address was acquired.
WifiGotIP ==
    /\ \/ client.connState = "MQTT_DISCONNECTED"
       \/ client.connState = "TCP_RECONNECT_REQ" /\ "flap" \in Allowed
    /\ Connects(client)
    /\ BrokerSees
    /\ UNCHANGED <<done, accepted>>

\* wifiStateChangeCb: the station was disconnected.
WifiLost ==
    /\ client.connState = "TCP_CONNECTING"
    /\ Spend("requests")
    /\ client' = MQTT_Disconnect(client)
    /\ BrokerSees
    /\ UNCHANGED <<done, accepted>>

\* Asked for when the parameters of the connection change.
MQTT_Reconnect ==
    /\ \/ client.connState = "MQTT_DISCONNECTED" /\ Connects(client)
       \/ /\ client.connState = "MQTT_CONNECTED"
          /\ Spend("requests")
          /\ client' = mqtt_doAbort(client)
    /\ BrokerSees
    /\ UNCHANGED <<done, accepted>>

\* The pages that change the settings: MQTT_Free, after which what is queued is
\* lost, mqtt_client_init and, when it is enabled and only that was asked for,
\* MQTT_Reconnect.
cgiMqttSet ==
    /\ "settings" \in Allowed
    /\ Spend("requests")
    /\ client' \in {MQTT_Init} \cup MQTT_Connect(MQTT_Init)
    /\ accepted' = accepted \cap done
    /\ BrokerSees
    /\ UNCHANGED done

-----------------------------------------------------------------------------
(* The callbacks of the socket                                              *)

mqtt_tcpclient_connect_cb ==
    /\ client.sock = "connecting"
    /\ LET c == [client EXCEPT !.sock = "open",
                               !.in_buffer = IF @ = "part" THEN "stale" ELSE @]
       IN  client' = [mqtt_send_message(Unshift(c, Msg("CONNECT", 0)))
                         EXCEPT !.connState = "MQTT_CONNECTED"]
    /\ UNCHANGED <<broker, done, accepted, budget>>

\* One segment from the broker: a message, or two, or part of one.
mqtt_tcpclient_recv ==
    /\ client.sock = "open" /\ broker.out # <<>>
    /\ \E c1 \in Receive(client, Head(broker.out)) :
          \/ /\ client' = SendNext(c1)
             /\ done' = done \cup Acknowledged(client, Head(broker.out))
             /\ broker' = [broker EXCEPT !.out = Tail(@)]
          \/ /\ Len(broker.out) > 1
             /\ \E c2 \in Receive(c1, broker.out[2]) :
                   /\ client' = SendNext(c2)
                   /\ done' = done \cup Acknowledged(client, Head(broker.out))
                                   \cup Acknowledged(c1, broker.out[2])
             /\ broker' = [broker EXCEPT !.out = Tail(Tail(@))]
    /\ UNCHANGED <<accepted, budget>>

ReceivePart ==
    /\ "fragment" \in Allowed
    /\ client.sock = "open" /\ broker.out # <<>> /\ client.in_buffer = "empty"
    /\ client' = SendNext([client EXCEPT !.in_buffer = "part"])
    /\ UNCHANGED <<broker, done, accepted, budget>>

\* Mutant: the queue is left to the next message or answer.
SentWithoutNext ==
    /\ client.sock = "open" /\ client.inflight
    /\ client' = [client EXCEPT !.inflight = FALSE, !.sending = FALSE, !.sending_buffer = None]
    /\ UNCHANGED <<broker, done, accepted, budget>>

mqtt_tcpclient_sent_cb ==
    /\ client.sock = "open" /\ client.inflight
    /\ LET c == [client EXCEPT !.inflight = FALSE, !.sending = FALSE, !.sending_buffer = None]
       IN  client' = IF c.connState = "MQTT_CONNECTED" /\ c.pending_buffer = None
                     THEN mqtt_send_message(c) ELSE c
    /\ UNCHANGED <<broker, done, accepted, budget>>

\* Mutant: only the socket is given up.
DroppedSilently(c) == NoSocket(c)

\* The connection is gone without our asking: reconnect, unless we are to
\* stay disconnected.
Dropped(c) ==
    IF c.connState = "MQTT_DISCONNECTED" THEN NoSocket(c) ELSE Backoff(NoSocket(c))

mqtt_tcpclient_discon_cb ==
    /\ client.sock = "open"
    /\ client' = Dropped(client)
    /\ IF broker.closing THEN UNCHANGED budget ELSE Spend("losses")
    /\ BrokerSees
    /\ UNCHANGED <<done, accepted>>

\* Reset by the peer, or never connected.
mqtt_tcpclient_recon_cb ==
    /\ client.sock \in {"open", "connecting"}
    /\ client' = Dropped(client)
    /\ Spend("losses")
    /\ BrokerSees
    /\ UNCHANGED <<done, accepted>>

\* The lookup fails, or the connection it allows is refused at once.
mqtt_dns_found ==
    /\ client.sock = "connecting"
    /\ client' = Backoff(NoSocket(client))
    /\ Spend("losses")
    /\ UNCHANGED <<broker, done, accepted>>

-----------------------------------------------------------------------------
(* mqtt_timer, every second while it is armed                               *)

\* Something is on its way that the client is waiting for.
InTransit ==
    \/ client.sock = "connecting" \/ client.inflight
    \/ client.wire # <<>> \/ broker.out # <<>> \/ broker.closing

\* An abort because an answer is late counts as a loss.
Aborts(c) ==
    /\ client' = c
    /\ IF InTransit THEN Spend("losses") ELSE UNCHANGED budget

AckOverdue == client.pending_buffer # None /\ client.timeoutTick = 1
PingOverdue == client.keepAliveAckTick = 1

\* The counters are uint8_t.
Count(c) ==
    [c EXCEPT !.timeoutTick = IF c.pending_buffer # None THEN (@ + 255) % 256 ELSE @,
              !.keepAliveAckTick = IF @ > 0 THEN @ - 1 ELSE 0,
              !.keepAliveTick = IF @ > 0 THEN @ - 1 ELSE 0]

Ping(c) == [mqtt_send_message(Unshift(c, Msg("PINGREQ", 0)))
               EXCEPT !.keepAliveTick = KeepAlive, !.keepAliveAckTick = SendTimeout]

ConnectedTick ==
    /\ client.connState = "MQTT_CONNECTED"
    /\ \/ AckOverdue /\ Aborts([mqtt_doAbort(client) EXCEPT !.timeoutTick = 0])
       \/ /\ ~AckOverdue /\ PingOverdue
          /\ Aborts(mqtt_doAbort([client EXCEPT !.keepAliveAckTick = 0]))
       \/ /\ ~AckOverdue /\ ~PingOverdue
          /\ client' = IF client.keepAliveTick = 1 THEN Ping(Count(client)) ELSE Count(client)
          /\ UNCHANGED budget

\* Mutants: the pending message is forgotten, or goes to the end of the queue.
RequeueForgets(c) == [c EXCEPT !.pending_buffer = None]
RequeueAtEnd(c) ==
    IF c.pending_buffer = None THEN c
    ELSE [Push(c, c.pending_buffer) EXCEPT !.pending_buffer = None]

\* The pending message goes back to the head of the queue.
Requeue(c) ==
    IF c.pending_buffer = None THEN c
    ELSE [Unshift(c, c.pending_buffer) EXCEPT !.pending_buffer = None]

ReconnectTick ==
    /\ client.connState = "TCP_RECONNECT_REQ"
    /\ \/ /\ client.timeoutTick > 1
          /\ client' = [client EXCEPT !.timeoutTick = @ - 1]
          /\ UNCHANGED budget
       \/ /\ client.timeoutTick <= 1
          /\ Connects(Requeue([client EXCEPT !.timeoutTick = 0]))

mqtt_timer ==
    /\ client.armed
    /\ ConnectedTick \/ ReconnectTick
    /\ BrokerSees
    /\ UNCHANGED <<done, accepted>>

-----------------------------------------------------------------------------
Init ==
    /\ client = MQTT_Init
    /\ broker = [up |-> FALSE, closing |-> FALSE, out |-> <<>>]
    /\ done = {}
    /\ accepted = {}
    /\ budget = [messages |-> MaxMessages, incoming |-> MaxIncoming, losses |-> MaxLosses,
                 requests |-> MaxRequests]

Incoming ==
    {[type |-> "PUBLISH", qos |-> q, id |-> 0] : q \in 0..2} \cup
    (IF "long" \in Allowed THEN {Msg("TOOLONG", 0)} ELSE {})

Next ==
    \/ \E q \in 0..2 : <<"q0", "q1", "q2">>[q + 1] \in Kinds /\ MQTT_Publish(q)
    \/ "sub" \in Kinds /\ MQTT_Subscribe
    \/ WifiGotIP \/ WifiLost \/ MQTT_Reconnect \/ cgiMqttSet
    \/ mqtt_tcpclient_connect_cb \/ mqtt_tcpclient_recv \/ ReceivePart
    \/ mqtt_tcpclient_sent_cb \/ mqtt_tcpclient_discon_cb \/ mqtt_tcpclient_recon_cb
    \/ mqtt_dns_found \/ mqtt_timer
    \/ BrokerReads \/ \E m \in Incoming : BrokerPublishes(m)

Spec == Init /\ [][Next]_vars

-----------------------------------------------------------------------------
(* Fairness: the SDK's timer fires, its callbacks are delivered, the broker *)
(* reads what reaches it, and an address is eventually acquired.            *)
Fairness ==
    /\ WF_vars(mqtt_timer) /\ WF_vars(WifiGotIP)
    /\ WF_vars(mqtt_tcpclient_connect_cb) /\ WF_vars(mqtt_tcpclient_recv)
    /\ WF_vars(mqtt_tcpclient_sent_cb) /\ WF_vars(BrokerReads)
    /\ WF_vars(broker.closing /\ mqtt_tcpclient_discon_cb)

FairSpec == Spec /\ Fairness

-----------------------------------------------------------------------------
(* Properties *)

Tick == 0..255

TypeOK ==
    /\ client \in [connState : {"MQTT_DISCONNECTED", "TCP_RECONNECT_REQ", "TCP_CONNECTING",
                                "MQTT_CONNECTED"},
                   sending : BOOLEAN, msgQueue : Seq(Message), pending_buffer : Message,
                   sending_buffer : Message, keepAliveTick : Tick, keepAliveAckTick : Tick,
                   timeoutTick : Tick, reconTimeout : Tick, armed : BOOLEAN,
                   sock : {"none", "connecting", "open"}, wire : Seq(Message),
                   inflight : BOOLEAN, in_buffer : {"empty", "part", "stale", "long"}]
    /\ broker \in [up : BOOLEAN, closing : BOOLEAN, out : Seq(Message)]
    /\ done \in SUBSET Nat
    /\ accepted \in SUBSET Nat

\* The messages the client still has, in the order it will send them.
Held == <<client.pending_buffer>> \o client.msgQueue

(* A message that must be delivered is, until it is acknowledged, in the   *)
(* queue or pending, itself or its PUBREL: mqtt.c:467, "remeber for rexmit *)
(* on disconnect/reconnect".                                               *)
Retained ==
    \A i \in accepted \ done : \E k \in 1..Len(Held) :
        Held[k].id = i /\ Held[k].type \in {"PUBLISH", "PUBREL", "SUBSCRIBE"}

(* The messages are sent, and sent again after a reconnection, in the      *)
(* order the application gave them (PktBuf_Push at the end of the queue,   *)
(* PktBuf_Unshift of the pending message at its head).                     *)
InOrder ==
    \A j, k \in 1..Len(Held) :
        /\ j < k
        /\ Held[j].type \in {"PUBLISH", "SUBSCRIBE"}
        /\ Held[k].type \in {"PUBLISH", "SUBSCRIBE"}
        => Held[j].id < Held[k].id

(* At most one message that needs an acknowledgement is on its way, and it *)
(* is the one remembered for retransmission.                               *)
StopAndWait ==
    \A k \in 1..Len(client.wire) :
        needsAck(client.wire[k]) => client.wire[k] = client.pending_buffer

(* Every connection begins with one CONNECT and carries no other: mqtt.c:400, *)
(* "send MQTT connect message to broker".  A broker closes it otherwise.   *)
ConnectFirst == ~broker.closing

(* While a connection is wanted the timer that brings it back is running,  *)
(* and a retry is due within the back-off, which never exceeds its limit,  *)
(* or within the timeout of a message sent into the void meanwhile, which  *)
(* shares timeoutTick.                                                     *)
NeverStranded ==
    /\ client.connState \in {"TCP_RECONNECT_REQ", "MQTT_CONNECTED"} => client.armed
    /\ client.connState = "TCP_RECONNECT_REQ" =>
           \/ client.timeoutTick <= client.reconTimeout
           \/ client.timeoutTick <= SendTimeout + 1
    /\ client.reconTimeout <= BackoffLimit

(* The client is connected exactly while its socket is: it receives only   *)
(* when connected (mqtt.c:137, "recv in invalid state").                   *)
SocketAgrees == (client.sock = "open") <=> (client.connState = "MQTT_CONNECTED")

(* While a message is being sent its sent callback is due, so the queue    *)
(* moves again (mqtt.h:66, "espconn_send is pending").                     *)
SendingIsPending == client.sock = "open" /\ client.sending => client.inflight

(* Whatever the application asked to be delivered is acknowledged, however *)
(* many connections are lost on the way, if they are finitely many.        *)
Delivered == \A i \in 1..MaxMessages : i \in accepted ~> i \in done
=============================================================================
