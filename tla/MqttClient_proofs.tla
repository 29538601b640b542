-------------------------- MODULE MqttClient_proofs --------------------------
(***************************************************************************)
(* Theorems about MqttClient, for every keep-alive, timeout and back-off   *)
(* limit, any number of messages, losses and requests.                     *)
(*                                                                         *)
(* The first half is about the client alone, with every unusual event      *)
(* allowed: its socket, its timer and its retries.  The second half is     *)
(* about the messages it is given: they leave in order, one at a time,     *)
(* behind the CONNECT of their connection, and none that needs an          *)
(* acknowledgement is forgotten before it has it.  Not all of that holds   *)
(* of every use of the client; each theorem names what it needs.  Online:  *)
(* the application publishes only while connected.  Steady: moreover no    *)
(* second IP address event comes while a reconnection is due, and a ping   *)
(* is not due before the acknowledgements that are.                        *)
(***************************************************************************)
EXTENDS MqttClient, TLAPS

Client ==
    [connState : {"MQTT_DISCONNECTED", "TCP_RECONNECT_REQ", "TCP_CONNECTING", "MQTT_CONNECTED"},
     sending : BOOLEAN, msgQueue : Seq(Message), pending_buffer : Message,
     sending_buffer : Message, keepAliveTick : Tick, keepAliveAckTick : Tick,
     timeoutTick : Tick, reconTimeout : Tick, armed : BOOLEAN,
     sock : {"none", "connecting", "open"}, wire : Seq(Message),
     inflight : BOOLEAN, in_buffer : {"empty", "part", "stale", "long"}]

-----------------------------------------------------------------------------
(* The invariant.  What SocketAgrees and NeverStranded say of the client   *)
(* is not inductive: a connection attempt must have left the timer running *)
(* before it fails, so the timer runs in every state but one; an attempt   *)
(* must be under way in the one state a refusal is expected in; and a      *)
(* doubled delay is within its limit only because both are powers of two.  *)

\* The socket is what connState says it is.
SocketOK(c) ==
    /\ (c.sock = "open") <=> (c.connState = "MQTT_CONNECTED")
    /\ c.sock = "connecting" => c.connState = "TCP_CONNECTING"

TimerOK(c) == c.connState # "MQTT_DISCONNECTED" => c.armed

\* A retry is due soon enough.
RetryOK(c) ==
    c.connState = "TCP_RECONNECT_REQ" =>
        \/ c.timeoutTick <= c.reconTimeout
        \/ c.timeoutTick <= SendTimeout + 1

BackoffOK(c) ==
    /\ c.reconTimeout \in {1, 2, 4, 8, 16, 32, 64, 128}
    /\ c.reconTimeout <= BackoffLimit

ClientOK(c) == c \in Client /\ SocketOK(c) /\ TimerOK(c) /\ RetryOK(c) /\ BackoffOK(c)

\* A message id is never negative.
BudgetOK ==
    budget \in [messages : 0..MaxMessages, incoming : Nat, losses : Nat, requests : Nat]

Inv == TypeOK /\ BudgetOK /\ ClientOK(client)

-----------------------------------------------------------------------------
(* The helpers of mqtt.c preserve the invariant *)

LEMMA MsgType ==
    ASSUME NEW t \in Types, NEW i \in Nat
    PROVE  Msg(t, i) \in Message
BY DEF Msg, Message

LEMMA RestType ==
    ASSUME NEW S, NEW s \in Seq(S), Len(s) > 0
    PROVE  Tail(s) \in Seq(S)
OBVIOUS

LEMMA SecondType ==
    ASSUME NEW S, NEW s \in Seq(S), Len(s) > 1
    PROVE  s[2] \in S /\ Tail(Tail(s)) \in Seq(S)
<1>1. Len(Tail(s)) > 0
  OBVIOUS
<1>2. Tail(s) \in Seq(S)
  BY RestType
<1>3. s[2] \in S
  OBVIOUS
<1>. QED
  BY <1>1, <1>2, <1>3, RestType

LEMMA SendOK ==
    ASSUME NEW c \in Client
    PROVE  /\ mqtt_send_message(c) \in Client
           /\ mqtt_send_message(c).connState = c.connState
           /\ mqtt_send_message(c).sock = c.sock
           /\ mqtt_send_message(c).armed = c.armed
           /\ mqtt_send_message(c).reconTimeout = c.reconTimeout
           /\ \/ mqtt_send_message(c).timeoutTick = c.timeoutTick
              \/ mqtt_send_message(c).timeoutTick <= SendTimeout + 1
<1>0. None \in Message
  BY DEF None, Msg, Message, Types
<1>1. CASE c.msgQueue = <<>> \/ c.sending
  BY <1>1 DEF mqtt_send_message
<1>2. CASE ~(c.msgQueue = <<>> \/ c.sending)
  <2>. DEFINE buf == Head(c.msgQueue)
              wire == IF c.sock = "open" THEN Append(c.wire, buf) ELSE c.wire
              due == c.sock = "open"
              pending == IF needsAck(buf) THEN buf ELSE None
              sent == IF needsAck(buf) THEN None ELSE buf
              tick == IF needsAck(buf) THEN (SendTimeout + 1) % 256
                      ELSE IF buf.type = "PINGREQ" THEN c.timeoutTick ELSE 0
              alive == IF KeepAlive > 0 THEN (KeepAlive + 1) % 256 ELSE 0
              d == [c EXCEPT !.msgQueue = Tail(@), !.sending = TRUE, !.wire = wire,
                             !.inflight = due]
  <2>1. buf \in Message /\ Tail(c.msgQueue) \in Seq(Message) /\ c.wire \in Seq(Message)
    BY <1>2 DEF Client
  <2>2. wire \in Seq(Message) /\ pending \in Message /\ sent \in Message
    BY <1>0, <2>1
  <2>3. alive \in Tick
    BY MqttAssumption DEF Tick
  <2>4. tick \in Tick /\ (tick = c.timeoutTick \/ tick <= SendTimeout + 1)
    BY MqttAssumption DEF Tick, Client
  <2>5. mqtt_send_message(c) =
           [d EXCEPT !.pending_buffer = pending, !.sending_buffer = sent,
                     !.timeoutTick = tick, !.keepAliveTick = alive]
    BY <1>2 DEF mqtt_send_message
  <2>. HIDE DEF buf, wire, due, pending, sent, tick, alive
  <2>6. /\ d \in Client
        /\ d.connState = c.connState /\ d.sock = c.sock /\ d.armed = c.armed
        /\ d.reconTimeout = c.reconTimeout
    <3>1. due \in BOOLEAN
      BY DEF due
    <3>. QED
      BY <2>1, <2>2, <3>1 DEF Client
  <2>. HIDE DEF d
  <2>. DEFINE e == [d EXCEPT !.pending_buffer = pending, !.sending_buffer = sent,
                             !.timeoutTick = tick, !.keepAliveTick = alive]
  <2>7. e \in Client
    BY <2>2, <2>3, <2>4, <2>6 DEF Client
  <2>8. /\ e.connState = d.connState /\ e.sock = d.sock /\ e.armed = d.armed
        /\ e.reconTimeout = d.reconTimeout /\ e.timeoutTick = tick
    BY <2>6 DEF Client
  <2>9. mqtt_send_message(c) = e
    BY <2>5
  <2>. HIDE DEF e
  <2>. QED
    BY <2>4, <2>6, <2>7, <2>8, <2>9
<1>. QED
  BY <1>1, <1>2

\* Setting fields the conditions do not speak of keeps them.
LEMMA SameOK ==
    ASSUME NEW c, ClientOK(c), NEW d \in Client,
           d.connState = c.connState, d.sock = c.sock, d.armed = c.armed,
           d.reconTimeout = c.reconTimeout,
           d.timeoutTick = c.timeoutTick \/ d.timeoutTick <= SendTimeout + 1
    PROVE  ClientOK(d)
BY DEF ClientOK, SocketOK, TimerOK, RetryOK, BackoffOK

LEMMA SendKeeps ==
    ASSUME NEW c, ClientOK(c)
    PROVE  /\ ClientOK(mqtt_send_message(c))
           /\ mqtt_send_message(c).connState = c.connState
<1>1. c \in Client
  BY DEF ClientOK
<1>. QED
  BY <1>1, SendOK, SameOK

LEMMA QueueKeeps ==
    ASSUME NEW c, ClientOK(c), NEW m \in Message
    PROVE  /\ ClientOK(Push(c, m)) /\ ClientOK(Unshift(c, m))
           /\ Push(c, m).connState = c.connState
<1>1. c \in Client
  BY DEF ClientOK
<1>2. Append(c.msgQueue, m) \in Seq(Message) /\ <<m>> \o c.msgQueue \in Seq(Message)
  BY <1>1 DEF Client
<1>3. Push(c, m) \in Client /\ Unshift(c, m) \in Client
  BY <1>1, <1>2 DEF Push, Unshift, Client
<1>4. /\ Push(c, m).connState = c.connState /\ Push(c, m).sock = c.sock
      /\ Push(c, m).armed = c.armed /\ Push(c, m).reconTimeout = c.reconTimeout
      /\ Push(c, m).timeoutTick = c.timeoutTick
  BY <1>1 DEF Push, Client
<1>5. /\ Unshift(c, m).connState = c.connState /\ Unshift(c, m).sock = c.sock
      /\ Unshift(c, m).armed = c.armed /\ Unshift(c, m).reconTimeout = c.reconTimeout
      /\ Unshift(c, m).timeoutTick = c.timeoutTick
  BY <1>1 DEF Unshift, Client
<1>. QED
  BY <1>3, <1>4, <1>5, SameOK

LEMMA EnqueueKeeps ==
    ASSUME NEW c, ClientOK(c), NEW m \in Message
    PROVE  ClientOK(mqtt_enq_message(c, m))
BY QueueKeeps, SendKeeps DEF mqtt_enq_message

\* A power of two below the limit, which is one, may be doubled.
LEMMA Doubled ==
    ASSUME NEW n \in {1, 2, 4, 8, 16, 32, 64, 128}, n < BackoffLimit
    PROVE  2 * n \in {1, 2, 4, 8, 16, 32, 64, 128} /\ 2 * n <= BackoffLimit
BY MqttAssumption

LEMMA BackoffType ==
    ASSUME NEW c \in Client, BackoffOK(c)
    PROVE  /\ Backoff(c) \in Client
           /\ BackoffOK(Backoff(c))
           /\ Backoff(c).connState = "TCP_RECONNECT_REQ"
           /\ Backoff(c).sock = c.sock
           /\ Backoff(c).armed = c.armed
           /\ Backoff(c).timeoutTick <= Backoff(c).reconTimeout
<1>. DEFINE next == IF c.reconTimeout < BackoffLimit THEN 2 * c.reconTimeout ELSE c.reconTimeout
<1>1. /\ next \in {1, 2, 4, 8, 16, 32, 64, 128} /\ next <= BackoffLimit
      /\ c.reconTimeout <= next
  BY Doubled DEF BackoffOK
<1>2. next \in Tick /\ c.reconTimeout \in Tick
  BY <1>1 DEF Tick, BackoffOK
<1>. HIDE DEF next
<1>. DEFINE d == [c EXCEPT !.connState = "TCP_RECONNECT_REQ", !.timeoutTick = c.reconTimeout,
                           !.reconTimeout = next]
<1>3. d \in Client
  BY <1>2 DEF Client
<1>4. /\ d.connState = "TCP_RECONNECT_REQ" /\ d.sock = c.sock /\ d.armed = c.armed
      /\ d.timeoutTick = c.reconTimeout /\ d.reconTimeout = next
  BY DEF Client
<1>5. Backoff(c) = d
  BY DEF Backoff, next
<1>. HIDE DEF d
<1>6. BackoffOK(d) /\ d.timeoutTick <= d.reconTimeout
  BY <1>1, <1>4 DEF BackoffOK
<1>7. /\ d.connState = "TCP_RECONNECT_REQ" /\ d.sock = c.sock /\ d.armed = c.armed
  BY <1>4
<1>. QED
  BY <1>3, <1>5, <1>6, <1>7

LEMMA NoSocketType ==
    ASSUME NEW c \in Client
    PROVE  /\ NoSocket(c) \in Client
           /\ NoSocket(c).sock = "none"
           /\ NoSocket(c).connState = c.connState
           /\ NoSocket(c).armed = c.armed
           /\ NoSocket(c).reconTimeout = c.reconTimeout
           /\ NoSocket(c).timeoutTick = c.timeoutTick
<1>1. <<>> \in Seq(Message)
  OBVIOUS
<1>2. NoSocket(c) \in Client
  BY <1>1 DEF NoSocket, Client
<1>3. NoSocket(c).sock = "none" /\ NoSocket(c).connState = c.connState
  BY DEF NoSocket, Client
<1>4. /\ NoSocket(c).armed = c.armed /\ NoSocket(c).reconTimeout = c.reconTimeout
      /\ NoSocket(c).timeoutTick = c.timeoutTick
  BY DEF NoSocket, Client
<1>. QED
  BY <1>2, <1>3, <1>4

LEMMA AbortType ==
    ASSUME NEW c \in Client, BackoffOK(c)
    PROVE  /\ mqtt_doAbort(c) \in Client
           /\ BackoffOK(mqtt_doAbort(c))
           /\ mqtt_doAbort(c).connState = "TCP_RECONNECT_REQ"
           /\ mqtt_doAbort(c).sock = "none"
           /\ mqtt_doAbort(c).armed = c.armed
           /\ mqtt_doAbort(c).timeoutTick <= mqtt_doAbort(c).reconTimeout
<1>. DEFINE n == NoSocket(c)
            d == [n EXCEPT !.sending_buffer = None]
<1>0. None \in Message
  BY DEF None, Msg, Message, Types
<1>1. n \in Client /\ n.sock = "none" /\ n.armed = c.armed /\ n.reconTimeout = c.reconTimeout
  BY NoSocketType
<1>2. mqtt_doAbort(c) = Backoff(d)
  BY DEF mqtt_doAbort
<1>. HIDE DEF n
<1>3. d \in Client
  BY <1>0, <1>1 DEF Client
<1>4. d.sock = "none" /\ d.armed = c.armed /\ d.reconTimeout = c.reconTimeout
  BY <1>1 DEF Client
<1>5. BackoffOK(d)
  BY <1>4 DEF BackoffOK
<1>. HIDE DEF d
<1>. DEFINE b == Backoff(d)
<1>6. /\ b \in Client /\ BackoffOK(b) /\ b.connState = "TCP_RECONNECT_REQ"
      /\ b.sock = d.sock /\ b.armed = d.armed /\ b.timeoutTick <= b.reconTimeout
  BY <1>3, <1>5, BackoffType
<1>. HIDE DEF b
<1>7. mqtt_doAbort(c) = b
  BY <1>2 DEF b
<1>. QED
  BY <1>4, <1>6, <1>7

\* Giving up a connection leaves a client with its timer running and a retry due.
LEMMA GivenUpOK ==
    ASSUME NEW c \in Client, BackoffOK(c), c.armed,
           c.connState = "TCP_RECONNECT_REQ", c.sock = "none", c.timeoutTick <= c.reconTimeout
    PROVE  ClientOK(c)
BY DEF ClientOK, SocketOK, TimerOK, RetryOK

LEMMA AbortKeeps ==
    ASSUME NEW c \in Client, BackoffOK(c), c.armed
    PROVE  ClientOK(mqtt_doAbort(c)) /\ mqtt_doAbort(c).sock = "none"
BY AbortType, GivenUpOK

LEMMA DroppedKeeps ==
    ASSUME NEW c, ClientOK(c)
    PROVE  ClientOK(Dropped(c)) /\ Dropped(c).sock = "none"
<1>. DEFINE d == NoSocket(c)
<1>1. /\ c \in Client /\ d \in Client /\ d.sock = "none" /\ d.connState = c.connState
      /\ d.armed = c.armed /\ d.reconTimeout = c.reconTimeout /\ BackoffOK(d)
  BY NoSocketType DEF ClientOK, BackoffOK
<1>2. CASE c.connState = "MQTT_DISCONNECTED"
  BY <1>1, <1>2 DEF Dropped, ClientOK, SocketOK, TimerOK, RetryOK
<1>3. CASE c.connState # "MQTT_DISCONNECTED"
  <2>1. d.armed
    BY <1>1, <1>3 DEF ClientOK, TimerOK
  <2>2. Dropped(c) = Backoff(d)
    BY <1>3 DEF Dropped
  <2>. HIDE DEF d
  <2>. DEFINE b == Backoff(d)
  <2>3. /\ b \in Client /\ BackoffOK(b) /\ b.connState = "TCP_RECONNECT_REQ"
        /\ b.sock = d.sock /\ b.armed = d.armed /\ b.timeoutTick <= b.reconTimeout
    BY <1>1, BackoffType
  <2>. HIDE DEF b
  <2>4. ClientOK(b)
    BY <1>1, <2>1, <2>3, GivenUpOK
  <2>5. Dropped(c) = b
    BY <2>2 DEF b
  <2>. QED
    BY <1>1, <2>3, <2>4, <2>5
<1>. QED
  BY <1>2, <1>3

\* A new attempt starts the timer whether or not it is refused at once.
LEMMA ConnectKeeps ==
    ASSUME NEW c \in Client, BackoffOK(c), RetryOK(c), c.connState # "MQTT_CONNECTED",
           NEW d \in MQTT_Connect(c)
    PROVE  ClientOK(d)
<1>. DEFINE n == NoSocket(c)
            t == [n EXCEPT !.armed = TRUE]
            s == [t EXCEPT !.sock = "connecting", !.connState = "TCP_CONNECTING",
                           !.timeoutTick = 20, !.sending = FALSE]
<1>0. /\ n \in Client /\ n.sock = "none" /\ n.connState = c.connState
      /\ n.reconTimeout = c.reconTimeout /\ n.timeoutTick = c.timeoutTick
  BY NoSocketType
<1>3. d = t \/ d = s
  BY DEF MQTT_Connect
<1>. HIDE DEF n
<1>1. t \in Client
  BY <1>0 DEF Client
<1>2. /\ t.sock = "none" /\ t.armed /\ t.connState = c.connState
      /\ t.reconTimeout = c.reconTimeout /\ t.timeoutTick = c.timeoutTick
  BY <1>0 DEF Client
<1>. HIDE DEF t
<1>4. s \in Client
  <2>1. 20 \in Tick
    BY DEF Tick
  <2>. QED
    BY <1>1, <2>1 DEF Client
<1>5. /\ s.sock = "connecting" /\ s.armed /\ s.connState = "TCP_CONNECTING"
      /\ s.reconTimeout = c.reconTimeout
  BY <1>1, <1>2 DEF Client
<1>. HIDE DEF s
<1>6. ClientOK(t)
  BY <1>1, <1>2 DEF ClientOK, SocketOK, TimerOK, RetryOK, BackoffOK
<1>7. ClientOK(s)
  BY <1>4, <1>5 DEF ClientOK, SocketOK, TimerOK, RetryOK, BackoffOK
<1>. QED
  BY <1>3, <1>6, <1>7

-----------------------------------------------------------------------------
(* Receiving *)

LEMMA FreeKeeps ==
    ASSUME NEW c, ClientOK(c)
    PROVE  ClientOK(Free(c))
<1>1. c \in Client /\ None \in Message
  BY DEF ClientOK, None, Msg, Message, Types
<1>2. Free(c) \in Client
  BY <1>1 DEF Free, Client
<1>3. /\ Free(c).connState = c.connState /\ Free(c).sock = c.sock /\ Free(c).armed = c.armed
      /\ Free(c).reconTimeout = c.reconTimeout /\ Free(c).timeoutTick = c.timeoutTick
  BY <1>1 DEF Free, Client
<1>. QED
  BY <1>2, <1>3, SameOK

LEMMA HandleKeeps ==
    ASSUME NEW c, ClientOK(c), c.connState = "MQTT_CONNECTED", NEW m \in Message
    PROVE  ClientOK(Handle(c, m))
<1>. DEFINE acked == [c EXCEPT !.reconTimeout = 1]
            alive == [c EXCEPT !.keepAliveAckTick = 0]
<1>1. c \in Client /\ 0 \in Tick /\ 1 \in Tick
  BY DEF ClientOK, Tick
<1>2. acked \in Client /\ alive \in Client
  BY <1>1 DEF Client
<1>3. ClientOK(acked)
  <2>1. /\ acked.connState = c.connState /\ acked.sock = c.sock /\ acked.armed = c.armed
        /\ acked.reconTimeout = 1
    BY <1>1 DEF Client
  <2>2. 1 <= BackoffLimit
    BY MqttAssumption
  <2>. HIDE DEF acked
  <2>. QED
    BY <1>2, <2>1, <2>2 DEF ClientOK, SocketOK, TimerOK, RetryOK, BackoffOK
<1>4. ClientOK(alive)
  <2>1. /\ alive.connState = c.connState /\ alive.sock = c.sock /\ alive.armed = c.armed
        /\ alive.reconTimeout = c.reconTimeout /\ alive.timeoutTick = c.timeoutTick
    BY <1>1 DEF Client
  <2>. HIDE DEF alive
  <2>. QED
    BY <1>2, <2>1, SameOK
<1>5. \A t \in {"PUBREL", "PUBACK", "PUBREC", "PUBCOMP"} : Msg(t, m.id) \in Message
  <2>1. m.id \in Nat
    BY DEF Message
  <2>. QED
    BY <2>1, MsgType DEF Types
<1>6. ClientOK(Free(c))
  BY FreeKeeps
<1>7. \A t \in {"PUBREL", "PUBACK", "PUBREC", "PUBCOMP"} :
         ClientOK(mqtt_enq_message(c, Msg(t, m.id))) /\ ClientOK(mqtt_enq_message(Free(c), Msg(t, m.id)))
  BY <1>5, <1>6, EnqueueKeeps
<1>. HIDE DEF acked, alive
<1>8. Handle(c, m) \in {acked, alive, c, Free(c)} \cup
         {mqtt_enq_message(c, Msg(t, m.id)) : t \in {"PUBREL", "PUBACK", "PUBREC", "PUBCOMP"}} \cup
         {mqtt_enq_message(Free(c), Msg(t, m.id)) : t \in {"PUBREL", "PUBACK", "PUBREC", "PUBCOMP"}}
  BY DEF Handle, acked, alive
<1>. QED
  BY <1>3, <1>4, <1>6, <1>7, <1>8

LEMMA ReceiveKeeps ==
    ASSUME NEW c, ClientOK(c), NEW m \in Message, NEW d \in Receive(c, m)
    PROVE  ClientOK(d)
<1>. DEFINE long == [c EXCEPT !.in_buffer = "long"]
            empty == [c EXCEPT !.in_buffer = "empty"]
<1>1. c \in Client
  BY DEF ClientOK
<1>2. ClientOK(long) /\ ClientOK(empty) /\ empty.connState = c.connState
         /\ long.connState = c.connState
  <2>1. long \in Client /\ empty \in Client
    BY <1>1 DEF Client
  <2>2. /\ long.connState = c.connState /\ long.sock = c.sock /\ long.armed = c.armed
        /\ long.reconTimeout = c.reconTimeout /\ long.timeoutTick = c.timeoutTick
    BY <1>1 DEF Client
  <2>3. /\ empty.connState = c.connState /\ empty.sock = c.sock /\ empty.armed = c.armed
        /\ empty.reconTimeout = c.reconTimeout /\ empty.timeoutTick = c.timeoutTick
    BY <1>1 DEF Client
  <2>. HIDE DEF long, empty
  <2>. QED
    BY <2>1, <2>2, <2>3, SameOK
<1>. HIDE DEF long, empty
<1>3. CASE c.sock # "open"
  BY <1>3 DEF Receive
<1>4. CASE c.sock = "open"
  <2>1. c.connState = "MQTT_CONNECTED"
    BY <1>4 DEF ClientOK, SocketOK
  <2>2. ClientOK(mqtt_doAbort(long))
    BY <1>2, <2>1, AbortKeeps DEF ClientOK, TimerOK
  <2>3. ClientOK(Handle(empty, m))
    BY <1>2, <2>1, HandleKeeps
  <2>4. d \in {mqtt_doAbort(long), c, empty, Handle(empty, m)}
    BY <1>4, <2>1 DEF Receive, long, empty
  <2>. QED
    BY <1>2, <2>2, <2>3, <2>4
<1>. QED
  BY <1>3, <1>4

LEMMA SendNextKeeps ==
    ASSUME NEW c, ClientOK(c)
    PROVE  ClientOK(SendNext(c))
BY SendKeeps DEF SendNext

-----------------------------------------------------------------------------
(* The broker and the bounds *)

BrokerOK == broker \in [up : BOOLEAN, closing : BOOLEAN, out : Seq(Message)]

LEMMA InvParts ==
    Inv <=> /\ ClientOK(client) /\ BrokerOK /\ BudgetOK
            /\ done \in SUBSET Nat /\ accepted \in SUBSET Nat
BY DEF Inv, TypeOK, ClientOK, Client, BrokerOK

LEMMA InvPartsNext ==
    ASSUME ClientOK(client'), BrokerOK', BudgetOK', done' \in SUBSET Nat, accepted' \in SUBSET Nat
    PROVE  Inv'
BY DEF Inv, TypeOK, ClientOK, Client, BrokerOK

LEMMA SpendType ==
    ASSUME BudgetOK, NEW what \in {"messages", "incoming", "losses", "requests"}, Spend(what)
    PROVE  BudgetOK'
<1>1. budget[what] - 1 \in (IF what = "messages" THEN 0..MaxMessages ELSE Nat)
  BY MqttAssumption DEF BudgetOK, Spend
<1>. QED
  BY <1>1 DEF BudgetOK, Spend

LEMMA SeesType ==
    ASSUME BrokerOK, BrokerSees
    PROVE  BrokerOK'
<1>0. <<>> \in Seq(Message)
  OBVIOUS
<1>1. [broker EXCEPT !.up = FALSE, !.closing = FALSE, !.out = <<>>] \in
         [up : BOOLEAN, closing : BOOLEAN, out : Seq(Message)]
  BY <1>0 DEF BrokerOK
<1>. QED
  BY <1>1 DEF BrokerOK, BrokerSees

LEMMA AnswerType ==
    ASSUME NEW m \in Message
    PROVE  Answer(m) \in Seq(Message)
<1>1. m.id \in Nat
  BY DEF Message
<1>2. \A t \in {"CONNACK", "PUBACK", "PUBREC", "PUBREL", "PUBCOMP", "SUBACK", "PINGRESP"} :
         \A i \in Nat : <<Msg(t, i)>> \in Seq(Message)
  BY MsgType DEF Types
<1>3. <<>> \in Seq(Message)
  OBVIOUS
<1>. QED
  BY <1>1, <1>2, <1>3 DEF Answer

LEMMA BrokerStep ==
    ASSUME Inv, BrokerReads \/ (\E m \in Incoming : BrokerPublishes(m))
    PROVE  Inv'
<1>. USE InvParts
<1>1. CASE BrokerReads
  <2>. DEFINE d == [client EXCEPT !.wire = Tail(@)]
              m == Head(client.wire)
  <2>1. /\ client \in Client /\ client.wire # <<>> /\ client.wire \in Seq(Message)
        /\ broker.out \in Seq(Message)
    BY <1>1 DEF BrokerReads, ClientOK, Client, BrokerOK
  <2>2. m \in Message /\ Tail(client.wire) \in Seq(Message)
    BY <2>1
  <2>3. d \in Client
    BY <2>1, <2>2 DEF Client
  <2>4. /\ d.connState = client.connState /\ d.sock = client.sock /\ d.armed = client.armed
        /\ d.reconTimeout = client.reconTimeout /\ d.timeoutTick = client.timeoutTick
    BY <2>1 DEF Client
  <2>5. client' = d
    BY <1>1 DEF BrokerReads
  <2>6. broker.out \o Answer(m) \in Seq(Message)
    BY <2>1, <2>2, AnswerType
  <2>. HIDE DEF d
  <2>7. ClientOK(client')
    BY <2>3, <2>4, <2>5, SameOK
  <2>8. BrokerOK'
    BY <1>1, <2>6 DEF BrokerReads, BrokerOK
  <2>. QED
    BY <1>1, <2>7, <2>8, InvPartsNext DEF BrokerReads, BudgetOK
<1>2. ASSUME NEW m \in Incoming, BrokerPublishes(m) PROVE Inv'
  <2>1. [m EXCEPT !.id = budget.incoming] \in Message
    BY DEF Incoming, Msg, Message, Types, BudgetOK
  <2>2. BrokerOK'
    <3>1. Append(broker.out, [m EXCEPT !.id = budget.incoming]) \in Seq(Message)
      BY <2>1 DEF BrokerOK
    <3>. QED
      BY <1>2, <3>1 DEF BrokerPublishes, BrokerOK
  <2>3. BudgetOK'
    BY <1>2, SpendType DEF BrokerPublishes
  <2>. QED
    BY <1>2, <2>2, <2>3, InvPartsNext DEF BrokerPublishes
<1>. QED
  BY <1>1, <1>2

-----------------------------------------------------------------------------
(* Requests *)

LEMMA NextIdType ==
    ASSUME BudgetOK, Spend("messages")
    PROVE  NextId \in Nat
BY MqttAssumption DEF BudgetOK, Spend, NextId

LEMMA PublishStep ==
    ASSUME Inv, NEW q \in 0..2, MQTT_Publish(q)
    PROVE  Inv'
<1>. DEFINE m == [type |-> "PUBLISH", qos |-> q, id |-> NextId]
<1>0. /\ ClientOK(client) /\ BrokerOK /\ BudgetOK
      /\ done \in SUBSET Nat /\ accepted \in SUBSET Nat
  BY InvParts
<1>1. NextId \in Nat /\ BudgetOK'
  BY <1>0, NextIdType, SpendType DEF MQTT_Publish
<1>2. m \in Message
  BY <1>1 DEF Message, Types
<1>3. accepted' \in SUBSET Nat
  BY <1>0, <1>1 DEF MQTT_Publish
<1>4. ClientOK(client')
  <2>1. client' = IF MaySend(Push(client, m)) THEN mqtt_send_message(Push(client, m))
                  ELSE Push(client, m)
    BY DEF MQTT_Publish
  <2>. HIDE DEF m
  <2>. QED
    BY <1>0, <1>2, <2>1, QueueKeeps, SendKeeps
<1>. QED
  BY <1>0, <1>1, <1>3, <1>4, InvPartsNext DEF MQTT_Publish, BrokerOK

LEMMA SubscribeStep ==
    ASSUME Inv, MQTT_Subscribe
    PROVE  Inv'
<1>0. /\ ClientOK(client) /\ BrokerOK /\ BudgetOK
      /\ done \in SUBSET Nat /\ accepted \in SUBSET Nat
  BY InvParts
<1>1. NextId \in Nat /\ BudgetOK'
  BY <1>0, NextIdType, SpendType DEF MQTT_Subscribe
<1>2. Msg("SUBSCRIBE", NextId) \in Message
  BY <1>1, MsgType DEF Types
<1>3. ClientOK(client')
  BY <1>0, <1>2, EnqueueKeeps DEF MQTT_Subscribe
<1>. QED
  BY <1>0, <1>1, <1>3, InvPartsNext DEF MQTT_Subscribe, BrokerOK

LEMMA ConnectsKeeps ==
    ASSUME BudgetOK, NEW c \in Client, BackoffOK(c), RetryOK(c),
           c.connState # "MQTT_CONNECTED", Connects(c)
    PROVE  ClientOK(client') /\ BudgetOK'
<1>1. ClientOK(client')
  BY ConnectKeeps DEF Connects
<1>2. BudgetOK'
  <2>1. Spend("losses") \/ UNCHANGED budget
    BY DEF Connects
  <2>. QED
    BY <2>1, SpendType DEF BudgetOK
<1>. QED
  BY <1>1, <1>2

LEMMA WifiStep ==
    ASSUME Inv, WifiGotIP \/ WifiLost \/ MQTT_Reconnect
    PROVE  Inv'
<1>0. /\ ClientOK(client) /\ BrokerOK /\ BudgetOK
      /\ done \in SUBSET Nat /\ accepted \in SUBSET Nat
      /\ client \in Client /\ BackoffOK(client) /\ RetryOK(client)
  BY InvParts DEF ClientOK
<1>1. BrokerOK'
  BY <1>0, SeesType DEF WifiGotIP, WifiLost, MQTT_Reconnect
<1>2. CASE WifiGotIP
  BY <1>0, <1>1, <1>2, ConnectsKeeps, InvPartsNext DEF WifiGotIP
<1>3. CASE WifiLost
  <2>. DEFINE t == [client EXCEPT !.armed = FALSE]
              d == [mqtt_doAbort(t) EXCEPT !.connState = "MQTT_DISCONNECTED"]
  <2>1. t \in Client /\ t.reconTimeout = client.reconTimeout
    BY <1>0 DEF Client
  <2>2. BackoffOK(t)
    BY <1>0, <2>1 DEF BackoffOK
  <2>3. client' = d
    BY <1>3 DEF WifiLost, MQTT_Disconnect
  <2>. HIDE DEF t
  <2>4. /\ mqtt_doAbort(t) \in Client /\ mqtt_doAbort(t).sock = "none"
        /\ BackoffOK(mqtt_doAbort(t))
    BY <2>1, <2>2, AbortType
  <2>5. /\ d \in Client /\ d.sock = "none" /\ d.connState = "MQTT_DISCONNECTED"
        /\ d.reconTimeout = mqtt_doAbort(t).reconTimeout
    BY <2>4 DEF Client
  <2>. HIDE DEF d
  <2>6. ClientOK(d)
    BY <2>4, <2>5 DEF ClientOK, SocketOK, TimerOK, RetryOK, BackoffOK
  <2>7. BudgetOK'
    BY <1>0, <1>3, SpendType DEF WifiLost
  <2>. QED
    BY <1>0, <1>1, <1>3, <2>3, <2>6, <2>7, InvPartsNext DEF WifiLost
<1>4. CASE MQTT_Reconnect
  <2>1. CASE client.connState = "MQTT_DISCONNECTED" /\ Connects(client)
    BY <1>0, <1>1, <1>4, <2>1, ConnectsKeeps, InvPartsNext DEF MQTT_Reconnect
  <2>2. CASE /\ client.connState = "MQTT_CONNECTED" /\ Spend("requests")
             /\ client' = mqtt_doAbort(client)
    <3>1. client.armed
      BY <1>0, <2>2 DEF ClientOK, TimerOK
    <3>2. ClientOK(client')
      BY <1>0, <2>2, <3>1, AbortKeeps
    <3>3. BudgetOK'
      BY <1>0, <2>2, SpendType
    <3>. QED
      BY <1>0, <1>1, <1>4, <3>2, <3>3, InvPartsNext DEF MQTT_Reconnect
  <2>. QED
    BY <1>4, <2>1, <2>2 DEF MQTT_Reconnect
<1>. QED
  BY <1>2, <1>3, <1>4

\* A client that was just initialised is as the invariant wants it.
LEMMA FreshOK == ClientOK(MQTT_Init)
<1>1. None \in Message
  BY DEF None, Msg, Message, Types
<1>2. MQTT_Init \in Client
  <2>1. <<>> \in Seq(Message) /\ 0 \in Tick /\ 1 \in Tick
    BY DEF Tick
  <2>. QED
    BY <1>1, <2>1 DEF MQTT_Init, Client
<1>. QED
  BY <1>2, MqttAssumption DEF MQTT_Init, ClientOK, SocketOK, TimerOK, RetryOK, BackoffOK

LEMMA SettingsStep ==
    ASSUME Inv, cgiMqttSet
    PROVE  Inv'
<1>0. BrokerOK /\ BudgetOK /\ done \in SUBSET Nat /\ accepted \in SUBSET Nat
  BY InvParts
<1>1. /\ MQTT_Init \in Client /\ BackoffOK(MQTT_Init) /\ RetryOK(MQTT_Init)
      /\ MQTT_Init.connState # "MQTT_CONNECTED"
  BY FreshOK DEF ClientOK, MQTT_Init
<1>2. ClientOK(client')
  BY <1>1, FreshOK, ConnectKeeps DEF cgiMqttSet
<1>3. BrokerOK' /\ BudgetOK'
  BY <1>0, SeesType, SpendType DEF cgiMqttSet
<1>4. done' \in SUBSET Nat /\ accepted' \in SUBSET Nat
  BY <1>0 DEF cgiMqttSet
<1>. QED
  BY <1>2, <1>3, <1>4, InvPartsNext

-----------------------------------------------------------------------------
(* Callbacks of the socket *)

LEMMA ConnectedStep ==
    ASSUME Inv, mqtt_tcpclient_connect_cb
    PROVE  Inv'
<1>. DEFINE b == IF client.in_buffer = "part" THEN "stale" ELSE client.in_buffer
            c == [client EXCEPT !.sock = "open", !.in_buffer = b]
            u == Unshift(c, Msg("CONNECT", 0))
            s == mqtt_send_message(u)
            d == [s EXCEPT !.connState = "MQTT_CONNECTED"]
<1>0. /\ ClientOK(client) /\ BrokerOK /\ BudgetOK
      /\ done \in SUBSET Nat /\ accepted \in SUBSET Nat
      /\ client \in Client
  BY InvParts DEF ClientOK
<1>1. client' = d
  BY DEF mqtt_tcpclient_connect_cb
<1>2. client.connState = "TCP_CONNECTING" /\ client.armed
  BY <1>0 DEF mqtt_tcpclient_connect_cb, ClientOK, SocketOK, TimerOK
<1>3. b \in {"empty", "part", "stale", "long"}
  BY <1>0 DEF Client
<1>. HIDE DEF b
<1>4. /\ c \in Client /\ c.sock = "open" /\ c.armed = client.armed
      /\ c.reconTimeout = client.reconTimeout
  BY <1>0, <1>3 DEF Client
<1>. HIDE DEF c
<1>5. Msg("CONNECT", 0) \in Message
  BY MsgType DEF Types
<1>6. u \in Client
  <2>1. <<Msg("CONNECT", 0)>> \o c.msgQueue \in Seq(Message)
    BY <1>4, <1>5 DEF Client
  <2>. QED
    BY <1>4, <2>1 DEF Unshift, Client
<1>7. u.sock = c.sock /\ u.armed = c.armed /\ u.reconTimeout = c.reconTimeout
  BY <1>4 DEF Unshift, Client
<1>. HIDE DEF u
<1>8. s \in Client /\ s.sock = u.sock /\ s.armed = u.armed /\ s.reconTimeout = u.reconTimeout
  BY <1>6, SendOK
<1>. HIDE DEF s
<1>9. /\ d \in Client /\ d.sock = s.sock /\ d.armed = s.armed
      /\ d.reconTimeout = s.reconTimeout /\ d.connState = "MQTT_CONNECTED"
  BY <1>8 DEF Client
<1>. HIDE DEF d
<1>10. ClientOK(d)
  BY <1>0, <1>2, <1>4, <1>7, <1>8, <1>9 DEF ClientOK, SocketOK, TimerOK, RetryOK, BackoffOK
<1>. QED
  BY <1>0, <1>1, <1>10, InvPartsNext DEF mqtt_tcpclient_connect_cb, BrokerOK, BudgetOK

LEMMA ReceivedStep ==
    ASSUME Inv, mqtt_tcpclient_recv
    PROVE  Inv'
<1>0. /\ ClientOK(client) /\ BrokerOK /\ BudgetOK
      /\ done \in SUBSET Nat /\ accepted \in SUBSET Nat
  BY InvParts
<1>1. BudgetOK' /\ accepted' \in SUBSET Nat
  BY <1>0 DEF mqtt_tcpclient_recv, BudgetOK
<1>2. broker.out \in Seq(Message) /\ broker.out # <<>>
  BY <1>0 DEF BrokerOK, mqtt_tcpclient_recv
<1>3. /\ Head(broker.out) \in Message /\ Tail(broker.out) \in Seq(Message)
      /\ Len(broker.out) > 1 => broker.out[2] \in Message
                                /\ Tail(Tail(broker.out)) \in Seq(Message)
  BY <1>2, SecondType
<1>4. \A c : \A m \in Message : Acknowledged(c, m) \in SUBSET Nat
  BY DEF Acknowledged, Message
<1>5. PICK c1 \in Receive(client, Head(broker.out)) :
         \/ /\ client' = SendNext(c1)
            /\ done' = done \cup Acknowledged(client, Head(broker.out))
            /\ broker' = [broker EXCEPT !.out = Tail(@)]
         \/ /\ Len(broker.out) > 1
            /\ \E c2 \in Receive(c1, broker.out[2]) :
                  /\ client' = SendNext(c2)
                  /\ done' = done \cup Acknowledged(client, Head(broker.out))
                                  \cup Acknowledged(c1, broker.out[2])
            /\ broker' = [broker EXCEPT !.out = Tail(Tail(@))]
  BY DEF mqtt_tcpclient_recv
<1>6. ClientOK(c1)
  BY <1>0, <1>3, ReceiveKeeps
<1>7. CASE /\ client' = SendNext(c1)
           /\ done' = done \cup Acknowledged(client, Head(broker.out))
           /\ broker' = [broker EXCEPT !.out = Tail(@)]
  <2>1. ClientOK(client')
    BY <1>6, <1>7, SendNextKeeps
  <2>2. done' \in SUBSET Nat
    BY <1>0, <1>3, <1>4, <1>7
  <2>3. BrokerOK'
    BY <1>0, <1>3, <1>7 DEF BrokerOK
  <2>. QED
    BY <1>1, <2>1, <2>2, <2>3, InvPartsNext
<1>8. ASSUME Len(broker.out) > 1,
             NEW c2 \in Receive(c1, broker.out[2]),
             client' = SendNext(c2),
             done' = done \cup Acknowledged(client, Head(broker.out))
                          \cup Acknowledged(c1, broker.out[2]),
             broker' = [broker EXCEPT !.out = Tail(Tail(@))]
      PROVE  Inv'
  <2>1. ClientOK(client')
    BY <1>3, <1>6, <1>8, ReceiveKeeps, SendNextKeeps
  <2>2. done' \in SUBSET Nat
    BY <1>0, <1>3, <1>4, <1>8
  <2>3. BrokerOK'
    BY <1>0, <1>3, <1>8 DEF BrokerOK
  <2>. QED
    BY <1>1, <2>1, <2>2, <2>3, InvPartsNext
<1>. QED
  BY <1>5, <1>7, <1>8

LEMMA PartStep ==
    ASSUME Inv, ReceivePart
    PROVE  Inv'
<1>. DEFINE d == [client EXCEPT !.in_buffer = "part"]
<1>0. /\ ClientOK(client) /\ BrokerOK /\ BudgetOK
      /\ done \in SUBSET Nat /\ accepted \in SUBSET Nat
      /\ client \in Client
  BY InvParts DEF ClientOK
<1>1. /\ d \in Client /\ d.connState = client.connState /\ d.sock = client.sock
      /\ d.armed = client.armed /\ d.reconTimeout = client.reconTimeout
      /\ d.timeoutTick = client.timeoutTick
  BY <1>0 DEF Client
<1>2. client' = SendNext(d)
  BY DEF ReceivePart
<1>. HIDE DEF d
<1>3. ClientOK(client')
  BY <1>0, <1>1, <1>2, SameOK, SendNextKeeps
<1>. QED
  BY <1>0, <1>3, InvPartsNext DEF ReceivePart, BrokerOK, BudgetOK

LEMMA SentStep ==
    ASSUME Inv, mqtt_tcpclient_sent_cb
    PROVE  Inv'
<1>. DEFINE d == [client EXCEPT !.inflight = FALSE, !.sending = FALSE, !.sending_buffer = None]
<1>0. /\ ClientOK(client) /\ BrokerOK /\ BudgetOK
      /\ done \in SUBSET Nat /\ accepted \in SUBSET Nat
      /\ client \in Client /\ None \in Message
  BY InvParts DEF ClientOK, None, Msg, Message, Types
<1>1. d \in Client
  BY <1>0 DEF Client
<1>2. /\ d.connState = client.connState /\ d.sock = client.sock /\ d.armed = client.armed
      /\ d.reconTimeout = client.reconTimeout /\ d.timeoutTick = client.timeoutTick
  BY <1>0 DEF Client
<1>3. client' = IF d.connState = "MQTT_CONNECTED" /\ d.pending_buffer = None
                THEN mqtt_send_message(d) ELSE d
  BY DEF mqtt_tcpclient_sent_cb
<1>. HIDE DEF d
<1>4. ClientOK(client')
  BY <1>0, <1>1, <1>2, <1>3, SameOK, SendKeeps
<1>. QED
  BY <1>0, <1>4, InvPartsNext DEF mqtt_tcpclient_sent_cb, BrokerOK, BudgetOK

LEMMA DroppedStep ==
    ASSUME Inv, mqtt_tcpclient_discon_cb \/ mqtt_tcpclient_recon_cb
    PROVE  Inv'
<1>0. /\ ClientOK(client) /\ BrokerOK /\ BudgetOK
      /\ done \in SUBSET Nat /\ accepted \in SUBSET Nat
  BY InvParts
<1>1. ClientOK(client')
  BY <1>0, DroppedKeeps DEF mqtt_tcpclient_discon_cb, mqtt_tcpclient_recon_cb
<1>2. BrokerOK'
  BY <1>0, SeesType DEF mqtt_tcpclient_discon_cb, mqtt_tcpclient_recon_cb
<1>3. BudgetOK'
  <2>1. Spend("losses") \/ UNCHANGED budget
    BY DEF mqtt_tcpclient_discon_cb, mqtt_tcpclient_recon_cb
  <2>. QED
    BY <1>0, <2>1, SpendType DEF BudgetOK
<1>. QED
  BY <1>0, <1>1, <1>2, <1>3, InvPartsNext DEF mqtt_tcpclient_discon_cb, mqtt_tcpclient_recon_cb

LEMMA LookupStep ==
    ASSUME Inv, mqtt_dns_found
    PROVE  Inv'
<1>. DEFINE d == NoSocket(client)
<1>0. /\ ClientOK(client) /\ BrokerOK /\ BudgetOK
      /\ done \in SUBSET Nat /\ accepted \in SUBSET Nat
      /\ client \in Client
  BY InvParts DEF ClientOK
<1>1. client.armed
  BY <1>0 DEF mqtt_dns_found, ClientOK, SocketOK, TimerOK
<1>2. /\ d \in Client /\ d.sock = "none" /\ d.armed /\ d.reconTimeout = client.reconTimeout
  BY <1>0, <1>1, NoSocketType
<1>3. BackoffOK(d)
  BY <1>0, <1>2 DEF ClientOK, BackoffOK
<1>4. client' = Backoff(d)
  BY DEF mqtt_dns_found
<1>. HIDE DEF d
<1>5. ClientOK(client')
  BY <1>2, <1>3, <1>4, BackoffType, GivenUpOK
<1>6. BudgetOK'
  BY <1>0, SpendType DEF mqtt_dns_found
<1>. QED
  BY <1>0, <1>5, <1>6, InvPartsNext DEF mqtt_dns_found, BrokerOK

-----------------------------------------------------------------------------
(* The timer *)

LEMMA AbortsType ==
    ASSUME BudgetOK, NEW c, Aborts(c)
    PROVE  client' = c /\ BudgetOK'
<1>1. Spend("losses") \/ UNCHANGED budget
  BY DEF Aborts
<1>. QED
  BY <1>1, SpendType DEF Aborts, BudgetOK

LEMMA CountKeeps ==
    ASSUME NEW c, ClientOK(c), c.connState = "MQTT_CONNECTED"
    PROVE  ClientOK(Count(c)) /\ Count(c).connState = c.connState
<1>. DEFINE a == IF c.pending_buffer # None THEN (c.timeoutTick + 255) % 256 ELSE c.timeoutTick
            k == IF c.keepAliveAckTick > 0 THEN c.keepAliveAckTick - 1 ELSE 0
            l == IF c.keepAliveTick > 0 THEN c.keepAliveTick - 1 ELSE 0
            d == [c EXCEPT !.timeoutTick = a, !.keepAliveAckTick = k, !.keepAliveTick = l]
<1>0. c \in Client
  BY DEF ClientOK
<1>1. a \in Tick /\ k \in Tick /\ l \in Tick
  <2>1. c.timeoutTick \in Tick /\ c.keepAliveAckTick \in Tick /\ c.keepAliveTick \in Tick
    BY <1>0 DEF Client
  <2>2. \A n \in Tick : (n + 255) % 256 \in Tick /\ (n > 0 => n - 1 \in Tick) /\ 0 \in Tick
    BY DEF Tick
  <2>. QED
    BY <2>1, <2>2
<1>2. Count(c) = d
  BY DEF Count
<1>. HIDE DEF a, k, l
<1>3. d \in Client
  BY <1>0, <1>1 DEF Client
<1>4. /\ d.connState = c.connState /\ d.sock = c.sock
      /\ d.armed = c.armed /\ d.reconTimeout = c.reconTimeout
  BY <1>0 DEF Client
<1>. HIDE DEF d
<1>5. ClientOK(d)
  BY <1>3, <1>4 DEF ClientOK, SocketOK, TimerOK, RetryOK, BackoffOK
<1>. QED
  BY <1>2, <1>4, <1>5

LEMMA PingKeeps ==
    ASSUME NEW c, ClientOK(c)
    PROVE  ClientOK(Ping(c))
<1>. DEFINE s == mqtt_send_message(Unshift(c, Msg("PINGREQ", 0)))
            d == [s EXCEPT !.keepAliveTick = KeepAlive, !.keepAliveAckTick = SendTimeout]
<1>1. Msg("PINGREQ", 0) \in Message
  BY MsgType DEF Types
<1>2. ClientOK(s)
  BY <1>1, QueueKeeps, SendKeeps
<1>3. s \in Client /\ KeepAlive \in Tick /\ SendTimeout \in Tick
  BY <1>2, MqttAssumption DEF ClientOK, Tick
<1>4. Ping(c) = d
  BY DEF Ping
<1>. HIDE DEF s
<1>5. d \in Client
  BY <1>3 DEF Client
<1>6. /\ d.connState = s.connState /\ d.sock = s.sock /\ d.armed = s.armed
      /\ d.reconTimeout = s.reconTimeout /\ d.timeoutTick = s.timeoutTick
  BY <1>3 DEF Client
<1>. HIDE DEF d
<1>. QED
  BY <1>2, <1>4, <1>5, <1>6, SameOK

LEMMA ConnectedTickKeeps ==
    ASSUME ClientOK(client), BudgetOK, ConnectedTick
    PROVE  ClientOK(client') /\ BudgetOK'
<1>0. /\ client \in Client /\ BackoffOK(client) /\ client.armed
      /\ client.connState = "MQTT_CONNECTED" /\ 0 \in Tick
  BY DEF ConnectedTick, ClientOK, TimerOK, Tick
<1>1. CASE AckOverdue /\ Aborts([mqtt_doAbort(client) EXCEPT !.timeoutTick = 0])
  <2>. DEFINE a == mqtt_doAbort(client)
              d == [a EXCEPT !.timeoutTick = 0]
  <2>1. /\ a \in Client /\ BackoffOK(a) /\ a.connState = "TCP_RECONNECT_REQ"
        /\ a.sock = "none" /\ a.armed = client.armed
    BY <1>0, AbortType
  <2>2. client' = d /\ BudgetOK'
    BY <1>1, AbortsType
  <2>. HIDE DEF a
  <2>3. d \in Client
    BY <1>0, <2>1 DEF Client
  <2>4. /\ d.connState = a.connState /\ d.sock = a.sock /\ d.armed = a.armed
        /\ d.reconTimeout = a.reconTimeout /\ d.timeoutTick = 0
    BY <2>1 DEF Client
  <2>. HIDE DEF d
  <2>5. BackoffOK(d) /\ d.timeoutTick <= d.reconTimeout
    BY <2>1, <2>4 DEF BackoffOK
  <2>. QED
    BY <1>0, <2>1, <2>2, <2>3, <2>4, <2>5, GivenUpOK
<1>2. CASE Aborts(mqtt_doAbort([client EXCEPT !.keepAliveAckTick = 0]))
  <2>. DEFINE d == [client EXCEPT !.keepAliveAckTick = 0]
  <2>1. /\ d \in Client /\ d.armed = client.armed /\ d.reconTimeout = client.reconTimeout
    BY <1>0 DEF Client
  <2>2. client' = mqtt_doAbort(d) /\ BudgetOK'
    BY <1>2, AbortsType
  <2>. HIDE DEF d
  <2>3. BackoffOK(d)
    BY <1>0, <2>1 DEF BackoffOK
  <2>. QED
    BY <1>0, <2>1, <2>2, <2>3, AbortKeeps
<1>3. CASE /\ client' = IF client.keepAliveTick = 1 THEN Ping(Count(client)) ELSE Count(client)
           /\ UNCHANGED budget
  BY <1>0, <1>3, CountKeeps, PingKeeps DEF BudgetOK
<1>. QED
  BY <1>1, <1>2, <1>3 DEF ConnectedTick

LEMMA ReconnectTickKeeps ==
    ASSUME ClientOK(client), BudgetOK, ReconnectTick
    PROVE  ClientOK(client') /\ BudgetOK'
<1>0. /\ client \in Client /\ client.connState = "TCP_RECONNECT_REQ" /\ 0 \in Tick
      /\ client.timeoutTick \in Tick /\ client.reconTimeout \in Tick
  BY DEF ReconnectTick, ClientOK, Client, Tick
<1>1. CASE /\ client.timeoutTick > 1
           /\ client' = [client EXCEPT !.timeoutTick = @ - 1]
           /\ UNCHANGED budget
  <2>. DEFINE n == client.timeoutTick - 1
              d == [client EXCEPT !.timeoutTick = n]
  <2>1. n \in Tick /\ n <= client.timeoutTick
    BY <1>0, <1>1 DEF Tick
  <2>2. n <= client.reconTimeout \/ n <= SendTimeout + 1
    <3>1. client.timeoutTick <= client.reconTimeout \/ client.timeoutTick <= SendTimeout + 1
      BY <1>0 DEF ClientOK, RetryOK
    <3>2. client.timeoutTick \in Int /\ client.reconTimeout \in Int /\ SendTimeout + 1 \in Int
      BY <1>0, MqttAssumption DEF Tick
    <3>. HIDE DEF n
    <3>3. n \in Int
      BY <2>1 DEF Tick
    <3>. QED
      BY <2>1, <3>1, <3>2, <3>3
  <2>. HIDE DEF n
  <2>3. d \in Client
    BY <1>0, <2>1 DEF Client
  <2>4. /\ d.connState = client.connState /\ d.sock = client.sock /\ d.armed = client.armed
        /\ d.reconTimeout = client.reconTimeout /\ d.timeoutTick = n
    BY <1>0 DEF Client
  <2>5. client' = d
    BY <1>1 DEF n
  <2>. HIDE DEF d
  <2>6. ClientOK(d)
    BY <2>2, <2>3, <2>4 DEF ClientOK, SocketOK, TimerOK, RetryOK, BackoffOK
  <2>. QED
    BY <1>1, <2>5, <2>6 DEF BudgetOK
<1>2. CASE Connects(Requeue([client EXCEPT !.timeoutTick = 0]))
  <2>. DEFINE d == [client EXCEPT !.timeoutTick = 0]
              m == d.pending_buffer
              u == Unshift(d, m)
              e == [u EXCEPT !.pending_buffer = None]
  <2>0. None \in Message
    BY DEF None, Msg, Message, Types
  <2>1. d \in Client
    BY <1>0 DEF Client
  <2>2. /\ d.connState = client.connState /\ d.sock = client.sock /\ d.armed = client.armed
        /\ d.reconTimeout = client.reconTimeout /\ d.timeoutTick = 0
    BY <1>0 DEF Client
  <2>. HIDE DEF d
  <2>3. m \in Message
    BY <2>1 DEF Client
  <2>4. ClientOK(d)
    BY <2>1, <2>2, MqttAssumption, SameOK
  <2>5. ClientOK(u) /\ u.connState = d.connState
    <3>1. u.connState = d.connState
      BY <2>1 DEF Unshift, Client
    <3>. QED
      BY <2>3, <2>4, <3>1, QueueKeeps
  <2>6. u \in Client
    BY <2>5 DEF ClientOK
  <2>. HIDE DEF u
  <2>7. e \in Client
    BY <2>0, <2>6 DEF Client
  <2>8. /\ e.connState = u.connState /\ e.sock = u.sock /\ e.armed = u.armed
        /\ e.reconTimeout = u.reconTimeout /\ e.timeoutTick = u.timeoutTick
    BY <2>6 DEF Client
  <2>. HIDE DEF e
  <2>9. ClientOK(e) /\ e.connState = client.connState
    BY <2>2, <2>5, <2>7, <2>8, SameOK
  <2>10. Connects(d) \/ Connects(e)
    BY <1>2 DEF Requeue, d, m, u, e
  <2>. QED
    BY <1>0, <2>2, <2>4, <2>9, <2>10, ConnectsKeeps DEF ClientOK
<1>. QED
  BY <1>1, <1>2 DEF ReconnectTick

LEMMA TimerStep ==
    ASSUME Inv, mqtt_timer
    PROVE  Inv'
<1>0. /\ ClientOK(client) /\ BrokerOK /\ BudgetOK
      /\ done \in SUBSET Nat /\ accepted \in SUBSET Nat
  BY InvParts
<1>1. ClientOK(client') /\ BudgetOK'
  BY <1>0, ConnectedTickKeeps, ReconnectTickKeeps DEF mqtt_timer
<1>2. BrokerOK'
  BY <1>0, SeesType DEF mqtt_timer
<1>. QED
  BY <1>0, <1>1, <1>2, InvPartsNext DEF mqtt_timer

-----------------------------------------------------------------------------
(* The invariant holds *)

LEMMA InitOK ==
    ASSUME Init
    PROVE  Inv
<1>1. ClientOK(client)
  BY FreshOK DEF Init
<1>2. BrokerOK
  BY DEF Init, BrokerOK
<1>3. BudgetOK
  BY MqttAssumption DEF Init, BudgetOK
<1>. QED
  BY <1>1, <1>2, <1>3, InvParts DEF Init

LEMMA StepOK ==
    ASSUME Inv, [Next]_vars
    PROVE  Inv'
<1>1. ASSUME NEW q \in 0..2, MQTT_Publish(q) PROVE Inv'
  BY <1>1, PublishStep
<1>2. CASE MQTT_Subscribe
  BY <1>2, SubscribeStep
<1>3. CASE WifiGotIP \/ WifiLost \/ MQTT_Reconnect
  BY <1>3, WifiStep
<1>4. CASE mqtt_tcpclient_connect_cb
  BY <1>4, ConnectedStep
<1>5. CASE mqtt_tcpclient_recv
  BY <1>5, ReceivedStep
<1>6. CASE ReceivePart
  BY <1>6, PartStep
<1>7. CASE mqtt_tcpclient_sent_cb
  BY <1>7, SentStep
<1>8. CASE mqtt_tcpclient_discon_cb \/ mqtt_tcpclient_recon_cb
  BY <1>8, DroppedStep
<1>9. CASE mqtt_dns_found
  BY <1>9, LookupStep
<1>10. CASE mqtt_timer
  BY <1>10, TimerStep
<1>11. CASE BrokerReads \/ (\E m \in Incoming : BrokerPublishes(m))
  BY <1>11, BrokerStep
<1>12. CASE cgiMqttSet
  BY <1>12, SettingsStep
<1>13. CASE UNCHANGED vars
  BY <1>13, InvParts, InvPartsNext DEF vars, BrokerOK, BudgetOK
<1>. QED
  BY <1>1, <1>2, <1>3, <1>4, <1>5, <1>6, <1>7, <1>8, <1>9, <1>10, <1>11, <1>12, <1>13 DEF Next

LEMMA InvHolds == Spec => []Inv
<1>1. Init => Inv
  BY InitOK
<1>2. Inv /\ [Next]_vars => Inv'
  BY StepOK
<1>. QED
  BY <1>1, <1>2, PTL DEF Spec

(* Type correctness: the counters stay within a byte, wrap as they may,    *)
(* and what is queued, sent or received is a message.                      *)
THEOREM TypeCorrect == Spec => []TypeOK
<1>1. Inv => TypeOK
  BY DEF Inv
<1>. QED
  BY <1>1, InvHolds, PTL

(* Whatever is lost and whenever the application publishes, the client is  *)
(* connected exactly while its socket is: no callback finds it in a state  *)
(* in which mqtt_tcpclient_recv would abort.                               *)
THEOREM SocketAgreesHolds == Spec => []SocketAgrees
<1>1. Inv => SocketAgrees
  BY DEF Inv, ClientOK, SocketOK, SocketAgrees
<1>. QED
  BY <1>1, InvHolds, PTL

(* The client is never stranded: in every state in which it wants a        *)
(* connection the timer runs, the retry is due within the back-off or the  *)
(* send timeout, and the back-off has not passed its limit.                *)
THEOREM NeverStrandedHolds == Spec => []NeverStranded
<1>1. Inv => NeverStranded
  BY DEF Inv, ClientOK, TimerOK, RetryOK, BackoffOK, NeverStranded
<1>. QED
  BY <1>1, InvHolds, PTL

-----------------------------------------------------------------------------
(* The messages *)

Online == "offline" \notin Allowed
Steady == Online /\ "flap" \notin Allowed /\ (KeepAlive = 0 \/ SendTimeout <= KeepAlive)

-----------------------------------------------------------------------------
(* The invariants about them *)

\* The messages an application gave have ascending ids.
Numbered(m) == m.type \in {"PUBLISH", "SUBSCRIBE"}
Precedes(m, o) == Numbered(m) /\ Numbered(o) => m.id < o.id
OrderOK(c, n) ==
    /\ Numbered(c.pending_buffer) => c.pending_buffer.id < n
    /\ \A k \in 1..Len(c.msgQueue) :
          /\ Numbered(c.msgQueue[k]) => c.msgQueue[k].id < n
          /\ Precedes(c.pending_buffer, c.msgQueue[k])
          /\ \A j \in 1 .. k - 1 : Precedes(c.msgQueue[j], c.msgQueue[k])

\* A send that is under way has its callback, and none is when a connection begins.
SentOK(c) ==
    /\ c.sock = "connecting" => ~c.sending
    /\ c.sock = "open" /\ c.sending => c.inflight

\* CONNECT is the first message of a connection, and there is no other.
NoConnect(s) == \A k \in 1..Len(s) : s[k].type # "CONNECT"
Opens(s) == s # <<>> /\ s[1].type = "CONNECT" /\ NoConnect(Tail(s))
CarriesOK(c, up) ==
    /\ NoConnect(c.msgQueue) /\ c.pending_buffer.type # "CONNECT"
    /\ c.sock # "open" => c.wire = <<>>
    /\ c.sock = "open" => IF up THEN NoConnect(c.wire) ELSE Opens(c.wire)
OnlineOK(c, up) == SentOK(c) /\ CarriesOK(c, up)

\* The broker knows of no connection that is only being made.
SessionOK(c, b) ==
    /\ ~b.closing
    /\ c.sock = "connecting" => ~b.up /\ b.out = <<>>

\* The pending message is one to hold on to; none is pending when a connection
\* begins; and no ping is due before its acknowledgement.
PendingOK(c) ==
    /\ c.pending_buffer = None \/ needsAck(c.pending_buffer)
    /\ c.connState \in {"TCP_CONNECTING", "MQTT_DISCONNECTED"} => c.pending_buffer = None
    /\ c.connState = "MQTT_CONNECTED" /\ c.pending_buffer # None =>
          c.keepAliveTick = 0 \/ (1 <= c.timeoutTick /\ c.timeoutTick <= c.keepAliveTick)

\* A message that must be delivered is in the queue or pending.
Kept(m, i) == m.id = i /\ m.type \in {"PUBLISH", "PUBREL", "SUBSCRIBE"} /\ needsAck(m)
Holds(c, i) == Kept(c.pending_buffer, i) \/ \E k \in 1..Len(c.msgQueue) : Kept(c.msgQueue[k], i)
Keeps(d, c) == \A i : Holds(c, i) => Holds(d, i)
RetainedOK == \A i \in accepted \ done : Holds(client, i)

\* At most one message that needs an acknowledgement, or one such
\* acknowledgement, is on its way, and it is that of the pending message.
IsAck(m) == m.type \in {"SUBACK", "PUBACK", "PUBREC", "PUBCOMP", "PUBREL"}
NoneAwaits(s) == \A k \in 1..Len(s) : ~needsAck(s[k])
NoneAcks(s) == \A k \in 1..Len(s) : ~IsAck(s[k])
Asking(c, out) ==
    \A k \in 1..Len(c.wire) : needsAck(c.wire[k]) =>
        /\ c.wire[k] = c.pending_buffer
        /\ \A j \in 1..Len(c.wire) : needsAck(c.wire[j]) => j = k
        /\ NoneAcks(out)
Answering(c, out) ==
    \A k \in 1..Len(out) : IsAck(out[k]) =>
        /\ needsAck(c.pending_buffer) /\ Answer(c.pending_buffer) = <<out[k]>>
        /\ \A j \in 1..Len(out) : IsAck(out[j]) => j = k
ExchangeOK(c, out) == c.sock = "open" => Asking(c, out) /\ Answering(c, out)

OrderInv == Inv /\ OrderOK(client, NextId)
OnlineInv == Inv /\ OnlineOK(client, broker.up) /\ SessionOK(client, broker)
SteadyInv == OnlineInv /\ PendingOK(client) /\ RetainedOK /\ ExchangeOK(client, broker.out)

-----------------------------------------------------------------------------
(* The fields of a client after each helper *)

LEMMA ClientFields ==
    ASSUME NEW c \in Client
    PROVE  /\ c.msgQueue \in Seq(Message) /\ c.wire \in Seq(Message)
           /\ c.pending_buffer \in Message
           /\ c.keepAliveTick \in 0..255 /\ c.timeoutTick \in 0..255
           /\ c.sending \in BOOLEAN /\ c.inflight \in BOOLEAN
BY DEF Client, Tick

LEMMA SendFields ==
    ASSUME NEW c \in Client, c.msgQueue # <<>>, ~c.sending,
           NEW d, d = mqtt_send_message(c)
    PROVE  /\ d.msgQueue = Tail(c.msgQueue)
           /\ d.sending
           /\ d.wire = IF c.sock = "open" THEN Append(c.wire, Head(c.msgQueue)) ELSE c.wire
           /\ d.inflight = (c.sock = "open")
           /\ d.pending_buffer = IF needsAck(Head(c.msgQueue)) THEN Head(c.msgQueue) ELSE None
           /\ needsAck(Head(c.msgQueue)) => d.timeoutTick = (SendTimeout + 1) % 256
           /\ d.keepAliveTick = IF KeepAlive > 0 THEN (KeepAlive + 1) % 256 ELSE 0
           /\ d.sock = c.sock /\ d.connState = c.connState
BY DEF mqtt_send_message, Client

LEMMA SendSkips ==
    ASSUME NEW c, c.msgQueue = <<>> \/ c.sending
    PROVE  mqtt_send_message(c) = c
BY DEF mqtt_send_message

LEMMA PushFields ==
    ASSUME NEW c \in Client, NEW m, NEW d, d = Push(c, m)
    PROVE  /\ d.msgQueue = Append(c.msgQueue, m)
           /\ d.wire = c.wire /\ d.pending_buffer = c.pending_buffer
           /\ d.sending = c.sending /\ d.inflight = c.inflight
           /\ d.keepAliveTick = c.keepAliveTick /\ d.timeoutTick = c.timeoutTick
           /\ d.sock = c.sock /\ d.connState = c.connState
BY DEF Push, Client

LEMMA UnshiftFields ==
    ASSUME NEW c \in Client, NEW m, NEW d, d = Unshift(c, m)
    PROVE  /\ d.msgQueue = <<m>> \o c.msgQueue
           /\ d.wire = c.wire /\ d.pending_buffer = c.pending_buffer
           /\ d.sending = c.sending /\ d.inflight = c.inflight
           /\ d.keepAliveTick = c.keepAliveTick /\ d.timeoutTick = c.timeoutTick
           /\ d.sock = c.sock /\ d.connState = c.connState
BY DEF Unshift, Client

LEMMA BackoffFields ==
    ASSUME NEW c \in Client, NEW d, d = Backoff(c)
    PROVE  /\ d.msgQueue = c.msgQueue /\ d.pending_buffer = c.pending_buffer
           /\ d.wire = c.wire /\ d.sending = c.sending
           /\ d.sock = c.sock /\ d.connState = "TCP_RECONNECT_REQ"
BY DEF Backoff, Client

LEMMA NoSocketFields ==
    ASSUME NEW c \in Client, NEW d, d = NoSocket(c)
    PROVE  /\ d.msgQueue = c.msgQueue /\ d.pending_buffer = c.pending_buffer
           /\ d.wire = <<>> /\ d.sock = "none" /\ d.connState = c.connState
BY DEF NoSocket, Client

LEMMA AbortFields ==
    ASSUME NEW c \in Client, NEW d, d = mqtt_doAbort(c)
    PROVE  /\ d.msgQueue = c.msgQueue /\ d.pending_buffer = c.pending_buffer
           /\ d.wire = <<>> /\ d.sock = "none" /\ d.connState = "TCP_RECONNECT_REQ"
<1>. DEFINE n == NoSocket(c)
            s == [n EXCEPT !.sending_buffer = None]
<1>1. n \in Client
  BY NoSocketType
<1>2. /\ n.msgQueue = c.msgQueue /\ n.pending_buffer = c.pending_buffer
      /\ n.wire = <<>> /\ n.sock = "none"
  BY NoSocketFields
<1>3. d = Backoff(s)
  BY DEF mqtt_doAbort
<1>. HIDE DEF n
<1>4. None \in Message
  BY DEF None, Msg, Message, Types
<1>5. s \in Client
  BY <1>1, <1>4 DEF Client
<1>6. /\ s.msgQueue = n.msgQueue /\ s.pending_buffer = n.pending_buffer
      /\ s.wire = n.wire /\ s.sock = n.sock
  BY <1>1 DEF Client
<1>. HIDE DEF s
<1>. QED
  BY <1>2, <1>3, <1>5, <1>6, BackoffFields

LEMMA ConnectFields ==
    ASSUME NEW c \in Client, NEW d \in MQTT_Connect(c)
    PROVE  /\ d.msgQueue = c.msgQueue /\ d.pending_buffer = c.pending_buffer
           /\ d.wire = <<>>
           /\ \/ d.sock = "none" /\ d.connState = c.connState
              \/ d.sock = "connecting" /\ d.connState = "TCP_CONNECTING" /\ ~d.sending
<1>. DEFINE n == NoSocket(c)
            t == [n EXCEPT !.armed = TRUE]
            s == [t EXCEPT !.sock = "connecting", !.connState = "TCP_CONNECTING",
                           !.timeoutTick = 20, !.sending = FALSE]
<1>1. n \in Client
  BY NoSocketType
<1>2. /\ n.msgQueue = c.msgQueue /\ n.pending_buffer = c.pending_buffer
      /\ n.wire = <<>> /\ n.sock = "none" /\ n.connState = c.connState
  BY NoSocketFields
<1>3. d = t \/ d = s
  BY DEF MQTT_Connect
<1>. HIDE DEF n
<1>4. /\ t \in Client /\ t.msgQueue = n.msgQueue /\ t.pending_buffer = n.pending_buffer
      /\ t.wire = n.wire /\ t.sock = n.sock /\ t.connState = n.connState
  BY <1>1 DEF Client
<1>. HIDE DEF t
<1>5. /\ s.msgQueue = t.msgQueue /\ s.pending_buffer = t.pending_buffer /\ s.wire = t.wire
      /\ s.sock = "connecting" /\ s.connState = "TCP_CONNECTING" /\ ~s.sending
  BY <1>4 DEF Client
<1>. HIDE DEF s
<1>. QED
  BY <1>2, <1>3, <1>4, <1>5

LEMMA FreeFields ==
    ASSUME NEW c \in Client, NEW d, d = Free(c)
    PROVE  /\ d \in Client
           /\ d.msgQueue = c.msgQueue /\ d.pending_buffer = None
           /\ d.wire = c.wire /\ d.sending = c.sending /\ d.inflight = c.inflight
           /\ d.keepAliveTick = c.keepAliveTick /\ d.timeoutTick = c.timeoutTick
           /\ d.sock = c.sock /\ d.connState = c.connState
<1>1. None \in Message
  BY DEF None, Msg, Message, Types
<1>. QED
  BY <1>1 DEF Free, Client

\* A client that differs in none of the fields the invariants speak of.
Alike(d, c) ==
    /\ d.msgQueue = c.msgQueue /\ d.pending_buffer = c.pending_buffer
    /\ d.wire = c.wire /\ d.sending = c.sending /\ d.inflight = c.inflight
    /\ d.keepAliveTick = c.keepAliveTick /\ d.timeoutTick = c.timeoutTick
    /\ d.sock = c.sock /\ d.connState = c.connState

LEMMA OtherFields ==
    ASSUME NEW c \in Client, NEW b \in {"empty", "part", "stale", "long"}, NEW n \in Tick
    PROVE  /\ [c EXCEPT !.in_buffer = b] \in Client /\ Alike([c EXCEPT !.in_buffer = b], c)
           /\ [c EXCEPT !.reconTimeout = n] \in Client /\ Alike([c EXCEPT !.reconTimeout = n], c)
           /\ [c EXCEPT !.keepAliveAckTick = n] \in Client /\ Alike([c EXCEPT !.keepAliveAckTick = n], c)
BY DEF Client, Alike

-----------------------------------------------------------------------------
(* Order *)

LEMMA NoneIsNothing ==
    /\ None \in Message /\ ~needsAck(None) /\ ~Numbered(None)
    /\ None.type # "CONNECT" /\ \A i : ~Kept(None, i)
BY DEF None, Msg, Message, Types, needsAck, Numbered, Kept

LEMMA OrderAlike ==
    ASSUME NEW c, NEW d, NEW n, OrderOK(c, n),
           d.msgQueue = c.msgQueue,
           d.pending_buffer = c.pending_buffer \/ ~Numbered(d.pending_buffer)
    PROVE  OrderOK(d, n)
BY DEF OrderOK, Precedes

LEMMA OrderSend ==
    ASSUME NEW c \in Client, NEW n, OrderOK(c, n)
    PROVE  OrderOK(mqtt_send_message(c), n)
<1>1. CASE c.msgQueue = <<>> \/ c.sending
  BY <1>1, SendSkips
<1>2. CASE c.msgQueue # <<>> /\ ~c.sending
  <2>. DEFINE d == mqtt_send_message(c)
  <2>1. /\ d.msgQueue = Tail(c.msgQueue)
        /\ d.pending_buffer = Head(c.msgQueue) \/ d.pending_buffer = None
    BY <1>2, SendFields
  <2>2. c.msgQueue \in Seq(Message)
    BY ClientFields
  <2>3. /\ Len(Tail(c.msgQueue)) = Len(c.msgQueue) - 1
        /\ \A k \in 1..Len(Tail(c.msgQueue)) : Tail(c.msgQueue)[k] = c.msgQueue[k + 1]
        /\ Head(c.msgQueue) = c.msgQueue[1] /\ 1 \in 1..Len(c.msgQueue)
    BY <1>2, <2>2
  <2>. HIDE DEF d
  <2>4. Numbered(d.pending_buffer) => d.pending_buffer = c.msgQueue[1]
    BY <2>1, <2>3, NoneIsNothing
  <2>5. ASSUME NEW k \in 1..Len(d.msgQueue)
        PROVE  /\ Numbered(d.msgQueue[k]) => d.msgQueue[k].id < n
               /\ Precedes(d.pending_buffer, d.msgQueue[k])
               /\ \A j \in 1 .. k - 1 : Precedes(d.msgQueue[j], d.msgQueue[k])
    <3>1. d.msgQueue[k] = c.msgQueue[k + 1] /\ k + 1 \in 1..Len(c.msgQueue)
      BY <2>1, <2>2, <2>3
    <3>2. Precedes(c.msgQueue[1], c.msgQueue[k + 1])
      BY <3>1 DEF OrderOK
    <3>3. \A j \in 1 .. k - 1 : d.msgQueue[j] = c.msgQueue[j + 1] /\ j + 1 \in 1..(k + 1) - 1
      BY <2>1, <2>2, <2>3
    <3>4. Precedes(d.pending_buffer, d.msgQueue[k])
      BY <2>4, <3>1, <3>2 DEF Precedes
    <3>5. Numbered(d.msgQueue[k]) => d.msgQueue[k].id < n
      BY <3>1 DEF OrderOK
    <3>6. \A j \in 1 .. k - 1 : Precedes(d.msgQueue[j], d.msgQueue[k])
      BY <3>1, <3>3 DEF OrderOK
    <3>. QED
      BY <3>4, <3>5, <3>6
  <2>6. Numbered(d.pending_buffer) => d.pending_buffer.id < n
    BY <2>3, <2>4 DEF OrderOK
  <2>. QED
    BY <2>5, <2>6 DEF OrderOK, d
<1>. QED
  BY <1>1, <1>2

LEMMA OrderPush ==
    ASSUME NEW c \in Client, NEW n \in Int, NEW n2 \in Int, OrderOK(c, n), n <= n2, NEW m \in Message,
           Numbered(m) => n <= m.id /\ m.id < n2
    PROVE  OrderOK(Push(c, m), n2)
<1>. DEFINE d == Push(c, m)
            q == c.msgQueue
<1>1. d.msgQueue = Append(q, m) /\ d.pending_buffer = c.pending_buffer
  BY PushFields
<1>2. q \in Seq(Message) /\ c.pending_buffer \in Message
  BY ClientFields
<1>3. \A o \in Message : o.id \in Int
  BY DEF Message
<1>. HIDE DEF d
<1>4. Numbered(d.pending_buffer) => d.pending_buffer.id < n2
  BY <1>1, <1>2, <1>3 DEF OrderOK
<1>5. ASSUME NEW k \in 1..Len(d.msgQueue)
      PROVE  /\ Numbered(d.msgQueue[k]) => d.msgQueue[k].id < n2
             /\ Precedes(d.pending_buffer, d.msgQueue[k])
             /\ \A j \in 1 .. k - 1 : Precedes(d.msgQueue[j], d.msgQueue[k])
  <2>1. \A j \in 1..Len(q) : d.msgQueue[j] = q[j] /\ q[j] \in Message
    BY <1>1, <1>2
  <2>2. CASE k \in 1..Len(q)
    <3>1. /\ Numbered(q[k]) => q[k].id < n
          /\ Precedes(c.pending_buffer, q[k])
          /\ \A j \in 1 .. k - 1 : Precedes(q[j], q[k])
      BY <2>2 DEF OrderOK
    <3>2. d.msgQueue[k] = q[k] /\ \A j \in 1 .. k - 1 : d.msgQueue[j] = q[j]
      BY <1>2, <2>1, <2>2
    <3>3. q[k].id \in Int
      BY <1>3, <2>1, <2>2
    <3>. QED
      BY <1>1, <3>1, <3>2, <3>3
  <2>3. CASE k = Len(q) + 1
    <3>1. d.msgQueue[k] = m
      BY <1>1, <1>2, <2>3
    <3>2. \A j \in 1..Len(q) : Numbered(q[j]) => q[j].id < n
      BY DEF OrderOK
    <3>3. Numbered(m) => \A j \in 1..Len(q) : Numbered(q[j]) => q[j].id < m.id
      BY <1>3, <2>1, <3>2
    <3>4. \A j \in 1 .. k - 1 : Precedes(d.msgQueue[j], m)
      BY <1>2, <2>1, <2>3, <3>3 DEF Precedes
    <3>5. Precedes(c.pending_buffer, m)
      BY <1>2, <1>3 DEF OrderOK, Precedes
    <3>. QED
      BY <1>1, <3>1, <3>4, <3>5
  <2>4. k \in 1..Len(q) \/ k = Len(q) + 1
    BY <1>1, <1>2
  <2>. QED
    BY <2>2, <2>3, <2>4
<1>. QED
  BY <1>4, <1>5 DEF OrderOK, d

\* The head of the queue is the place of a message without a number, and of
\* the pending message.
LEMMA OrderUnshift ==
    ASSUME NEW c \in Client, NEW n, OrderOK(c, n), NEW m \in Message,
           ~Numbered(m) \/ m = c.pending_buffer,
           NEW d, d.msgQueue = <<m>> \o c.msgQueue,
           d.pending_buffer = None \/ (d.pending_buffer = c.pending_buffer /\ ~Numbered(m))
    PROVE  OrderOK(d, n)
<1>. DEFINE q == c.msgQueue
<1>1. q \in Seq(Message)
  BY ClientFields
<1>2. /\ Len(d.msgQueue) = Len(q) + 1 /\ d.msgQueue[1] = m
      /\ \A k \in 2..Len(d.msgQueue) : d.msgQueue[k] = q[k - 1] /\ k - 1 \in 1..Len(q)
  BY <1>1
<1>3. Numbered(d.pending_buffer) => d.pending_buffer = c.pending_buffer /\ ~Numbered(m)
  BY NoneIsNothing
<1>4. ASSUME NEW k \in 1..Len(d.msgQueue)
      PROVE  /\ Numbered(d.msgQueue[k]) => d.msgQueue[k].id < n
             /\ Precedes(d.pending_buffer, d.msgQueue[k])
             /\ \A j \in 1 .. k - 1 : Precedes(d.msgQueue[j], d.msgQueue[k])
  <2>1. CASE k = 1
    BY <1>2, <1>3, <2>1 DEF OrderOK, Precedes
  <2>2. CASE k \in 2..Len(d.msgQueue)
    <3>1. d.msgQueue[k] = q[k - 1] /\ k - 1 \in 1..Len(q)
      BY <1>2, <2>2
    <3>2. /\ Numbered(q[k - 1]) => q[k - 1].id < n
          /\ Precedes(c.pending_buffer, q[k - 1])
          /\ \A j \in 1 .. (k - 1) - 1 : Precedes(q[j], q[k - 1])
      BY <3>1 DEF OrderOK
    <3>3. Precedes(d.pending_buffer, d.msgQueue[k])
      BY <1>3, <3>1, <3>2 DEF Precedes
    <3>4. ASSUME NEW j \in 1 .. k - 1 PROVE Precedes(d.msgQueue[j], d.msgQueue[k])
      <4>1. CASE j = 1
        BY <1>2, <3>1, <3>2, <4>1 DEF Precedes
      <4>2. CASE j # 1
        <5>1. j \in 2..Len(d.msgQueue) /\ j - 1 \in 1 .. (k - 1) - 1
          BY <2>2, <4>2, <1>1, <1>2
        <5>. QED
          BY <1>2, <3>1, <3>2, <5>1
      <4>. QED
        BY <4>1, <4>2
    <3>. QED
      BY <3>1, <3>2, <3>3, <3>4
  <2>. QED
    BY <1>1, <1>2, <2>1, <2>2
<1>. QED
  BY <1>3, <1>4 DEF OrderOK

LEMMA QueueType ==
    ASSUME NEW c \in Client, NEW m \in Message
    PROVE  Push(c, m) \in Client /\ Unshift(c, m) \in Client
<1>1. Append(c.msgQueue, m) \in Seq(Message) /\ <<m>> \o c.msgQueue \in Seq(Message)
  BY ClientFields
<1>. QED
  BY <1>1 DEF Push, Unshift, Client

\* What receiving can make of a client, in terms of the helpers.
Replies == {"PUBREL", "PUBACK", "PUBREC", "PUBCOMP"}

LEMMA ReplyType ==
    ASSUME NEW m \in Message, NEW t \in Replies
    PROVE  Msg(t, m.id) \in Message /\ ~Numbered(Msg(t, m.id)) /\ Msg(t, m.id).type = t
BY DEF Replies, Message, Msg, Types, Numbered

\* m acknowledges the pending message.
Completing(c, m) ==
    \/ m.type = "SUBACK" /\ Completes(c, "SUBSCRIBE", m)
    \/ m.type \in {"PUBACK", "PUBREC"} /\ Completes(c, "PUBLISH", m)
    \/ m.type = "PUBCOMP" /\ Completes(c, "PUBREL", m)
    \/ m.type = "PUBREL" /\ Completes(c, "PUBREC", m)

LEMMA HandleCases ==
    ASSUME NEW c \in Client, NEW m \in Message
    PROVE  \/ Handle(c, m) \in Client /\ Alike(Handle(c, m), c) /\ ~Completing(c, m)
           \/ /\ Handle(c, m) = Free(c)
              /\ \/ m.type = "SUBACK" /\ Completes(c, "SUBSCRIBE", m)
                 \/ m.type = "PUBACK" /\ Completes(c, "PUBLISH", m)
                 \/ m.type = "PUBCOMP" /\ Completes(c, "PUBREL", m)
           \/ /\ Handle(c, m) = mqtt_enq_message(Free(c), Msg("PUBREL", m.id))
              /\ m.type = "PUBREC" /\ Completes(c, "PUBLISH", m)
           \/ /\ Handle(c, m) = mqtt_enq_message(Free(c), Msg("PUBCOMP", m.id))
              /\ m.type = "PUBREL" /\ Completes(c, "PUBREC", m)
           \/ /\ m.type = "PUBLISH"
              /\ \E t \in {"PUBACK", "PUBREC"} : Handle(c, m) = mqtt_enq_message(c, Msg(t, m.id))
<1>1. 0 \in Tick /\ 1 \in Tick
  BY DEF Tick
<1>2. /\ [c EXCEPT !.reconTimeout = 1] \in Client /\ Alike([c EXCEPT !.reconTimeout = 1], c)
      /\ [c EXCEPT !.keepAliveAckTick = 0] \in Client /\ Alike([c EXCEPT !.keepAliveAckTick = 0], c)
  BY <1>1, OtherFields
<1>3. Alike(c, c)
  BY DEF Alike
<1>. QED
  BY <1>2, <1>3 DEF Handle, Completing

LEMMA ReceiveCases ==
    ASSUME NEW c \in Client, SocketOK(c), NEW m \in Message, NEW d \in Receive(c, m)
    PROVE  \/ d \in Client /\ Alike(d, c) /\ Acknowledged(c, m) = {}
           \/ \E e \in Client : Alike(e, c) /\ d = mqtt_doAbort(e) /\ Acknowledged(c, m) = {}
           \/ /\ c.sock = "open" /\ c.in_buffer \in {"empty", "part"}
              /\ \E e \in Client : Alike(e, c) /\ d = Handle(e, m)
<1>. DEFINE long == [c EXCEPT !.in_buffer = "long"]
            empty == [c EXCEPT !.in_buffer = "empty"]
<1>0. 0 \in Tick
  BY DEF Tick
<1>1. /\ long \in Client /\ empty \in Client /\ Alike(long, c) /\ Alike(empty, c)
  BY <1>0, OtherFields
<1>2. Alike(c, c)
  BY DEF Alike
<1>3. c.sock = "open" => c.connState = "MQTT_CONNECTED"
  BY DEF SocketOK
<1>4. Receive(c, m) = IF c.sock # "open" THEN {c}
                      ELSE IF m.type = "TOOLONG" \/ c.in_buffer = "long" THEN {mqtt_doAbort(long)}
                      ELSE IF c.in_buffer = "stale" THEN {c, empty, mqtt_doAbort(long)}
                      ELSE {Handle(empty, m)}
  BY <1>3 DEF Receive
<1>. HIDE DEF long, empty
<1>5. CASE c.sock # "open"
  BY <1>2, <1>4, <1>5 DEF Acknowledged
<1>6. CASE c.sock = "open" /\ (m.type = "TOOLONG" \/ c.in_buffer = "long")
  <2>1. d = mqtt_doAbort(long) /\ Acknowledged(c, m) = {}
    BY <1>4, <1>6 DEF Acknowledged
  <2>. QED
    BY <1>1, <2>1
<1>7. CASE c.sock = "open" /\ m.type # "TOOLONG" /\ c.in_buffer = "stale"
  <2>1. d \in {c, empty, mqtt_doAbort(long)} /\ Acknowledged(c, m) = {}
    BY <1>4, <1>7 DEF Acknowledged
  <2>. QED
    BY <1>1, <1>2, <2>1
<1>8. CASE c.sock = "open" /\ ~(m.type = "TOOLONG" \/ c.in_buffer = "long") /\ c.in_buffer # "stale"
  <2>1. d = Handle(empty, m) /\ c.in_buffer \in {"empty", "part"}
    BY <1>4, <1>8 DEF Client
  <2>. QED
    BY <1>1, <1>8, <2>1
<1>. QED
  BY <1>5, <1>6, <1>7, <1>8

LEMMA EnqueueSock ==
    ASSUME NEW c \in Client, NEW m \in Message
    PROVE  /\ mqtt_enq_message(c, m) \in Client
           /\ mqtt_enq_message(c, m).sock = c.sock
           /\ mqtt_enq_message(c, m).connState = c.connState
<1>. DEFINE p == Push(c, m)
<1>1. p \in Client /\ p.sock = c.sock /\ p.connState = c.connState
  BY QueueType, PushFields
<1>2. mqtt_enq_message(c, m) \in {mqtt_send_message(p), p}
  BY DEF mqtt_enq_message
<1>. HIDE DEF p
<1>. QED
  BY <1>1, <1>2, SendOK

LEMMA OrderEnqueue ==
    ASSUME NEW c \in Client, NEW n \in Int, OrderOK(c, n), NEW m \in Message, ~Numbered(m)
    PROVE  OrderOK(mqtt_enq_message(c, m), n)
BY QueueType, OrderPush, OrderSend DEF mqtt_enq_message

LEMMA OrderReceive ==
    ASSUME NEW c \in Client, SocketOK(c), NEW n \in Int, OrderOK(c, n), NEW m \in Message,
           NEW d \in Receive(c, m)
    PROVE  OrderOK(d, n)
<1>1. ASSUME NEW e \in Client, Alike(e, c) PROVE OrderOK(e, n)
  BY <1>1, OrderAlike DEF Alike
<1>2. ASSUME NEW e \in Client, OrderOK(e, n)
      PROVE  OrderOK(mqtt_doAbort(e), n) /\ OrderOK(Free(e), n)
  BY <1>2, AbortFields, FreeFields, NoneIsNothing, OrderAlike
<1>3. ASSUME NEW e \in Client, OrderOK(e, n)
      PROVE  OrderOK(Handle(e, m), n)
  <2>1. OrderOK(Free(e), n) /\ Free(e) \in Client
    BY <1>2, <1>3, FreeFields
  <2>2. \A t \in Replies : /\ OrderOK(mqtt_enq_message(e, Msg(t, m.id)), n)
                           /\ OrderOK(mqtt_enq_message(Free(e), Msg(t, m.id)), n)
    BY <1>3, <2>1, ReplyType, OrderEnqueue
  <2>3. Alike(Handle(e, m), e) => OrderOK(Handle(e, m), n)
    BY <1>3, OrderAlike DEF Alike
  <2>. QED
    BY <2>1, <2>2, <2>3, HandleCases DEF Replies
<1>. QED
  BY <1>1, <1>2, <1>3, ReceiveCases

LEMMA SpendBudget ==
    ASSUME BudgetOK, NEW what \in {"messages", "incoming", "losses", "requests"}, Spend(what)
    PROVE  NextId \in Int /\ NextId' = IF what = "messages" THEN NextId + 1 ELSE NextId
BY MqttAssumption DEF BudgetOK, Spend, NextId

-----------------------------------------------------------------------------
(* The fields of the client after each action *)

LEMMA InvGives ==
    ASSUME Inv
    PROVE  /\ client \in Client /\ SocketOK(client) /\ BrokerOK /\ BudgetOK
           /\ NextId \in Nat
BY MqttAssumption, InvParts DEF ClientOK, BudgetOK, NextId

\* The connection is given up, or was never one.
GivenUp(d, c) ==
    /\ d.msgQueue = c.msgQueue /\ d.pending_buffer = c.pending_buffer
    /\ d.wire = <<>> /\ d.sock = "none"
    /\ d.connState \in {"TCP_RECONNECT_REQ", "MQTT_DISCONNECTED"}
    /\ d.connState = "MQTT_DISCONNECTED" =>
          c.connState \in {"MQTT_DISCONNECTED", "TCP_CONNECTING"}

LEMMA LostMoves ==
    ASSUME Inv, \/ WifiLost \/ mqtt_tcpclient_discon_cb \/ mqtt_tcpclient_recon_cb \/ mqtt_dns_found
                \/ client.connState = "MQTT_CONNECTED" /\ client' = mqtt_doAbort(client)
                \/ ConnectedTick /\ (AckOverdue \/ PingOverdue)
    PROVE  GivenUp(client', client)
<1>0. client \in Client
  BY InvGives
<1>1. CASE WifiLost
  <2>. DEFINE t == [client EXCEPT !.armed = FALSE]
              a == mqtt_doAbort(t)
              d == [a EXCEPT !.connState = "MQTT_DISCONNECTED"]
  <2>1. t \in Client /\ t.msgQueue = client.msgQueue /\ t.pending_buffer = client.pending_buffer
    BY <1>0 DEF Client
  <2>2. client' = d /\ client.connState = "TCP_CONNECTING"
    BY <1>1 DEF WifiLost, MQTT_Disconnect
  <2>3. BackoffOK(t)
    BY <1>0, InvParts DEF ClientOK, BackoffOK, Client
  <2>. HIDE DEF t
  <2>4. a \in Client /\ a.msgQueue = t.msgQueue /\ a.pending_buffer = t.pending_buffer
        /\ a.wire = <<>> /\ a.sock = "none"
    BY <2>1, <2>3, AbortType, AbortFields
  <2>. HIDE DEF a
  <2>5. d.msgQueue = a.msgQueue /\ d.pending_buffer = a.pending_buffer
        /\ d.wire = a.wire /\ d.sock = a.sock /\ d.connState = "MQTT_DISCONNECTED"
    BY <2>4 DEF Client
  <2>. HIDE DEF d
  <2>. QED
    BY <2>1, <2>2, <2>4, <2>5 DEF GivenUp
<1>2. CASE mqtt_tcpclient_discon_cb \/ mqtt_tcpclient_recon_cb
  <2>. DEFINE n == NoSocket(client)
  <2>1. client' = Dropped(client)
    BY <1>2 DEF mqtt_tcpclient_discon_cb, mqtt_tcpclient_recon_cb
  <2>2. n \in Client /\ n.msgQueue = client.msgQueue /\ n.pending_buffer = client.pending_buffer
        /\ n.wire = <<>> /\ n.sock = "none" /\ n.connState = client.connState
    BY <1>0, NoSocketType, NoSocketFields
  <2>3. client' = IF client.connState = "MQTT_DISCONNECTED" THEN n ELSE Backoff(n)
    BY <2>1 DEF Dropped
  <2>. HIDE DEF n
  <2>. QED
    BY <2>2, <2>3, BackoffFields DEF GivenUp
<1>3. CASE mqtt_dns_found
  <2>. DEFINE n == NoSocket(client)
  <2>1. n \in Client /\ n.msgQueue = client.msgQueue /\ n.pending_buffer = client.pending_buffer
        /\ n.wire = <<>> /\ n.sock = "none"
    BY <1>0, NoSocketType, NoSocketFields
  <2>2. client' = Backoff(n)
    BY <1>3 DEF mqtt_dns_found
  <2>. HIDE DEF n
  <2>. QED
    BY <2>1, <2>2, BackoffFields DEF GivenUp
<1>4. CASE client.connState = "MQTT_CONNECTED" /\ client' = mqtt_doAbort(client)
  BY <1>0, <1>4, AbortFields DEF GivenUp
<1>5. CASE ConnectedTick /\ AckOverdue
  <2>. DEFINE a == mqtt_doAbort(client)
              d == [a EXCEPT !.timeoutTick = 0]
  <2>1. client' = d
    BY <1>5 DEF ConnectedTick, Aborts
  <2>2. a \in Client /\ a.msgQueue = client.msgQueue /\ a.pending_buffer = client.pending_buffer
        /\ a.wire = <<>> /\ a.sock = "none" /\ a.connState = "TCP_RECONNECT_REQ"
    BY <1>0, AbortType, AbortFields, InvParts DEF ClientOK
  <2>. HIDE DEF a
  <2>3. d.msgQueue = a.msgQueue /\ d.pending_buffer = a.pending_buffer
        /\ d.wire = a.wire /\ d.sock = a.sock /\ d.connState = a.connState
    BY <2>2 DEF Client
  <2>. HIDE DEF d
  <2>. QED
    BY <2>1, <2>2, <2>3 DEF GivenUp
<1>6. CASE ConnectedTick /\ ~AckOverdue /\ PingOverdue
  <2>. DEFINE d == [client EXCEPT !.keepAliveAckTick = 0]
  <2>1. client' = mqtt_doAbort(d)
    BY <1>6 DEF ConnectedTick, Aborts
  <2>2. d \in Client /\ Alike(d, client)
    <3>1. 0 \in Tick
      BY DEF Tick
    <3>. QED
      BY <1>0, <3>1, OtherFields
  <2>. HIDE DEF d
  <2>. QED
    BY <2>1, <2>2, AbortFields DEF GivenUp, Alike
<1>. QED
  BY <1>1, <1>2, <1>3, <1>4, <1>5, <1>6

\* An attempt to connect, made or refused.
Attempted(d, c) ==
    /\ d.msgQueue = c.msgQueue /\ d.pending_buffer = c.pending_buffer /\ d.wire = <<>>
    /\ \/ d.sock = "none" /\ d.connState = c.connState
       \/ d.sock = "connecting" /\ d.connState = "TCP_CONNECTING" /\ ~d.sending

LEMMA AttemptMoves ==
    ASSUME NEW c \in Client, Connects(c)
    PROVE  Attempted(client', c)
BY ConnectFields DEF Connects, Attempted

LEMMA SettingsMoves ==
    ASSUME cgiMqttSet
    PROVE  /\ client'.msgQueue = <<>> /\ client'.pending_buffer = None /\ client'.wire = <<>>
           /\ client'.sock # "open" /\ client'.connState # "MQTT_CONNECTED"
           /\ client'.sock = "connecting" => ~client'.sending
<1>1. MQTT_Init \in Client
  BY FreshOK DEF ClientOK
<1>2. client' = MQTT_Init \/ client' \in MQTT_Connect(MQTT_Init)
  BY DEF cgiMqttSet
<1>3. /\ MQTT_Init.msgQueue = <<>> /\ MQTT_Init.pending_buffer = None /\ MQTT_Init.wire = <<>>
      /\ MQTT_Init.sock = "none" /\ MQTT_Init.connState = "MQTT_DISCONNECTED"
  BY DEF MQTT_Init
<1>. QED
  BY <1>1, <1>2, <1>3, ConnectFields

\* The connection begins: CONNECT goes to the head of the queue and is sent.
\* u is the client that sends it.
Begun(d, u, c) ==
    /\ u.msgQueue = <<Msg("CONNECT", 0)>> \o c.msgQueue
    /\ u.pending_buffer = c.pending_buffer /\ u.wire = c.wire
    /\ u.sending = c.sending /\ u.inflight = c.inflight /\ u.sock = "open"
    /\ LET s == mqtt_send_message(u) IN
       /\ d.msgQueue = s.msgQueue /\ d.pending_buffer = s.pending_buffer /\ d.wire = s.wire
       /\ d.sending = s.sending /\ d.inflight = s.inflight /\ d.sock = s.sock
    /\ d.connState = "MQTT_CONNECTED"

LEMMA BeginMoves ==
    ASSUME Inv, mqtt_tcpclient_connect_cb
    PROVE  \E u \in Client : Begun(client', u, client)
<1>. DEFINE b == IF client.in_buffer = "part" THEN "stale" ELSE client.in_buffer
            c == [client EXCEPT !.sock = "open", !.in_buffer = b]
            u == Unshift(c, Msg("CONNECT", 0))
            s == mqtt_send_message(u)
            d == [s EXCEPT !.connState = "MQTT_CONNECTED"]
<1>0. client \in Client
  BY InvGives
<1>1. client' = d
  BY DEF mqtt_tcpclient_connect_cb
<1>2. b \in {"empty", "part", "stale", "long"}
  BY <1>0 DEF Client
<1>. HIDE DEF b
<1>3. /\ c \in Client /\ c.sock = "open" /\ c.msgQueue = client.msgQueue
      /\ c.pending_buffer = client.pending_buffer /\ c.wire = client.wire
      /\ c.sending = client.sending /\ c.inflight = client.inflight
  BY <1>0, <1>2 DEF Client
<1>. HIDE DEF c
<1>4. Msg("CONNECT", 0) \in Message
  BY MsgType DEF Types
<1>5. /\ u \in Client /\ u.msgQueue = <<Msg("CONNECT", 0)>> \o c.msgQueue
      /\ u.pending_buffer = c.pending_buffer /\ u.wire = c.wire
      /\ u.sending = c.sending /\ u.inflight = c.inflight /\ u.sock = c.sock
  BY <1>3, <1>4, QueueType, UnshiftFields
<1>. HIDE DEF u
<1>6. s \in Client
  BY <1>5, SendOK
<1>7. /\ d.msgQueue = s.msgQueue /\ d.pending_buffer = s.pending_buffer /\ d.wire = s.wire
      /\ d.sending = s.sending /\ d.inflight = s.inflight /\ d.sock = s.sock
      /\ d.connState = "MQTT_CONNECTED"
  <2>. HIDE DEF s
  <2>. QED BY <1>6 DEF Client
<1>8. Begun(d, u, client)
  <2>. HIDE DEF d
  <2>. QED BY <1>3, <1>5, <1>7 DEF Begun
<1>. QED
  BY <1>1, <1>5, <1>8

\* What was sent has left; the next message goes if nothing is pending.
LEMMA SentMoves ==
    ASSUME Inv, mqtt_tcpclient_sent_cb
    PROVE  \E c \in Client :
              /\ c.msgQueue = client.msgQueue /\ c.pending_buffer = client.pending_buffer
              /\ c.wire = client.wire /\ ~c.sending /\ c.sock = "open"
              /\ c.keepAliveTick = client.keepAliveTick /\ c.timeoutTick = client.timeoutTick
              /\ c.connState = client.connState
              /\ client' = IF c.pending_buffer = None THEN mqtt_send_message(c) ELSE c
<1>. DEFINE c == [client EXCEPT !.inflight = FALSE, !.sending = FALSE, !.sending_buffer = None]
<1>0. client \in Client /\ client.sock = "open" /\ client.connState = "MQTT_CONNECTED"
  BY InvGives DEF mqtt_tcpclient_sent_cb, SocketOK
<1>1. /\ c \in Client /\ c.msgQueue = client.msgQueue /\ c.pending_buffer = client.pending_buffer
      /\ c.wire = client.wire /\ ~c.sending /\ c.sock = client.sock
      /\ c.keepAliveTick = client.keepAliveTick /\ c.timeoutTick = client.timeoutTick
      /\ c.connState = client.connState
  BY <1>0, NoneIsNothing DEF Client
<1>2. client' = IF c.connState = "MQTT_CONNECTED" /\ c.pending_buffer = None
                THEN mqtt_send_message(c) ELSE c
  BY DEF mqtt_tcpclient_sent_cb
<1>. HIDE DEF c
<1>. QED
  BY <1>0, <1>1, <1>2

\* Counting the seconds of a connection.
Counted(d, c) ==
    /\ d.msgQueue = c.msgQueue /\ d.pending_buffer = c.pending_buffer
    /\ d.wire = c.wire /\ d.sending = c.sending /\ d.inflight = c.inflight
    /\ d.sock = c.sock /\ d.connState = c.connState
    /\ d.timeoutTick = IF c.pending_buffer # None THEN (c.timeoutTick + 255) % 256 ELSE c.timeoutTick
    /\ d.keepAliveTick = IF c.keepAliveTick > 0 THEN c.keepAliveTick - 1 ELSE 0

LEMMA CountFields ==
    ASSUME NEW c \in Client
    PROVE  Count(c) \in Client /\ Counted(Count(c), c)
<1>. DEFINE a == IF c.pending_buffer # None THEN (c.timeoutTick + 255) % 256 ELSE c.timeoutTick
            k == IF c.keepAliveAckTick > 0 THEN c.keepAliveAckTick - 1 ELSE 0
            l == IF c.keepAliveTick > 0 THEN c.keepAliveTick - 1 ELSE 0
            d == [c EXCEPT !.timeoutTick = a, !.keepAliveAckTick = k, !.keepAliveTick = l]
<1>1. a \in Tick /\ k \in Tick /\ l \in Tick
  <2>1. c.timeoutTick \in 0..255 /\ c.keepAliveAckTick \in 0..255 /\ c.keepAliveTick \in 0..255
    BY DEF Client, Tick
  <2>2. \A n \in 0..255 : (n + 255) % 256 \in 0..255 /\ (n > 0 => n - 1 \in 0..255)
    OBVIOUS
  <2>. QED
    BY <2>1, <2>2 DEF Tick
<1>2. Count(c) = d
  BY DEF Count
<1>3. Counted(d, c)
  <2>1. /\ d.timeoutTick = a /\ d.keepAliveTick = l
        /\ d.msgQueue = c.msgQueue /\ d.pending_buffer = c.pending_buffer
        /\ d.wire = c.wire /\ d.sending = c.sending /\ d.inflight = c.inflight
        /\ d.sock = c.sock /\ d.connState = c.connState
    <3>. HIDE DEF a, k, l
    <3>. QED BY DEF Client
  <2>. HIDE DEF d
  <2>. QED BY <2>1 DEF Counted
<1>. HIDE DEF a, k, l
<1>4. d \in Client
  BY <1>1 DEF Client
<1>. QED
  BY <1>2, <1>3, <1>4

\* A ping goes to the head of the queue and is sent, u being the client that sends it.
Pinged(d, u, c) ==
    /\ u.msgQueue = <<Msg("PINGREQ", 0)>> \o c.msgQueue
    /\ u.pending_buffer = c.pending_buffer /\ u.wire = c.wire
    /\ u.sending = c.sending /\ u.inflight = c.inflight /\ u.sock = c.sock
    /\ u.connState = c.connState /\ u.timeoutTick = c.timeoutTick
    /\ LET s == mqtt_send_message(u) IN
       /\ d.msgQueue = s.msgQueue /\ d.pending_buffer = s.pending_buffer /\ d.wire = s.wire
       /\ d.sending = s.sending /\ d.inflight = s.inflight /\ d.sock = s.sock
       /\ d.connState = s.connState

LEMMA PingFields ==
    ASSUME NEW c \in Client
    PROVE  \E u \in Client : Pinged(Ping(c), u, c)
<1>. DEFINE u == Unshift(c, Msg("PINGREQ", 0))
            s == mqtt_send_message(u)
            d == [s EXCEPT !.keepAliveTick = KeepAlive, !.keepAliveAckTick = SendTimeout]
<1>1. Msg("PINGREQ", 0) \in Message
  BY MsgType DEF Types
<1>2. /\ u \in Client /\ u.msgQueue = <<Msg("PINGREQ", 0)>> \o c.msgQueue
      /\ u.pending_buffer = c.pending_buffer /\ u.wire = c.wire
      /\ u.sending = c.sending /\ u.inflight = c.inflight /\ u.sock = c.sock
      /\ u.connState = c.connState /\ u.timeoutTick = c.timeoutTick
  BY <1>1, QueueType, UnshiftFields
<1>3. Ping(c) = d
  BY DEF Ping
<1>. HIDE DEF u
<1>4. s \in Client
  BY <1>2, SendOK
<1>5. /\ d.msgQueue = s.msgQueue /\ d.pending_buffer = s.pending_buffer /\ d.wire = s.wire
      /\ d.sending = s.sending /\ d.inflight = s.inflight /\ d.sock = s.sock
      /\ d.connState = s.connState
  <2>. HIDE DEF s
  <2>. QED BY <1>4 DEF Client
<1>. HIDE DEF d
<1>6. Pinged(d, u, c)
  BY <1>2, <1>5 DEF Pinged
<1>. QED
  BY <1>2, <1>3, <1>6

\* The pending message returns to the head of the queue.
Requeued(d, c) ==
    /\ d.pending_buffer = None
    /\ d.msgQueue = IF c.pending_buffer = None THEN c.msgQueue
                    ELSE <<c.pending_buffer>> \o c.msgQueue
    /\ d.connState = c.connState

LEMMA RequeueFields ==
    ASSUME NEW c \in Client
    PROVE  Requeue(c) \in Client /\ Requeued(Requeue(c), c)
<1>. DEFINE u == Unshift(c, c.pending_buffer)
            e == [u EXCEPT !.pending_buffer = None]
<1>1. CASE c.pending_buffer = None
  BY <1>1 DEF Requeue, Requeued
<1>2. CASE c.pending_buffer # None
  <2>0. c.pending_buffer \in Message
    BY ClientFields
  <2>1. /\ u \in Client /\ u.msgQueue = <<c.pending_buffer>> \o c.msgQueue
        /\ u.connState = c.connState
    BY <2>0, QueueType, UnshiftFields
  <2>2. Requeue(c) = e
    BY <1>2 DEF Requeue
  <2>. HIDE DEF u
  <2>3. /\ e \in Client /\ e.pending_buffer = None
        /\ e.msgQueue = u.msgQueue /\ e.connState = u.connState
    BY <2>1, NoneIsNothing DEF Client
  <2>. HIDE DEF e
  <2>. QED BY <1>2, <2>1, <2>2, <2>3 DEF Requeued
<1>. QED
  BY <1>1, <1>2

\* The timer in TCP_RECONNECT_REQ: it counts, or puts the pending message back
\* and connects.
LEMMA ReconnectMoves ==
    ASSUME Inv, ReconnectTick
    PROVE  \/ /\ client'.msgQueue = client.msgQueue /\ client'.wire = client.wire
              /\ client'.pending_buffer = client.pending_buffer
              /\ client'.sending = client.sending /\ client'.inflight = client.inflight
              /\ client'.sock = client.sock /\ client'.connState = client.connState
           \/ \E c \in Client : Requeued(c, client) /\ Attempted(client', c)
<1>. DEFINE t == [client EXCEPT !.timeoutTick = 0]
            d == [client EXCEPT !.timeoutTick = client.timeoutTick - 1]
<1>0. client \in Client
  BY InvGives
<1>1. CASE client' = d
  <2>1. /\ d.msgQueue = client.msgQueue /\ d.wire = client.wire
        /\ d.pending_buffer = client.pending_buffer
        /\ d.sending = client.sending /\ d.inflight = client.inflight
        /\ d.sock = client.sock /\ d.connState = client.connState
    BY <1>0 DEF Client
  <2>. QED BY <1>1, <2>1
<1>2. CASE Connects(Requeue(t))
  <2>1. 0 \in Tick
    BY DEF Tick
  <2>2. /\ t \in Client /\ t.msgQueue = client.msgQueue
        /\ t.pending_buffer = client.pending_buffer /\ t.connState = client.connState
    BY <1>0, <2>1 DEF Client
  <2>. HIDE DEF t
  <2>3. Requeue(t) \in Client /\ Requeued(Requeue(t), t) /\ Attempted(client', Requeue(t))
    BY <1>2, <2>2, RequeueFields, AttemptMoves
  <2>. QED BY <2>2, <2>3 DEF Requeued
<1>. QED
  BY <1>1, <1>2 DEF ReconnectTick

LEMMA ReadMoves ==
    ASSUME Inv, BrokerReads
    PROVE  /\ client'.msgQueue = client.msgQueue /\ client'.wire = Tail(client.wire)
           /\ client'.pending_buffer = client.pending_buffer
           /\ client'.sending = client.sending /\ client'.inflight = client.inflight
           /\ client'.keepAliveTick = client.keepAliveTick
           /\ client'.timeoutTick = client.timeoutTick
           /\ client'.sock = client.sock /\ client'.connState = client.connState
<1>1. client \in Client /\ client' = [client EXCEPT !.wire = Tail(@)]
  BY InvGives DEF BrokerReads
<1>. QED
  BY <1>1 DEF Client

-----------------------------------------------------------------------------
(* The order is kept *)

LEMMA OrderReceived ==
    ASSUME OrderInv, mqtt_tcpclient_recv
    PROVE  OrderOK(client', NextId)
<1>0. client \in Client /\ SocketOK(client) /\ ClientOK(client) /\ NextId \in Int
      /\ OrderOK(client, NextId) /\ broker.out \in Seq(Message) /\ broker.out # <<>>
  BY InvGives, InvParts DEF OrderInv, BrokerOK, mqtt_tcpclient_recv
<1>1. Head(broker.out) \in Message /\ (Len(broker.out) > 1 => broker.out[2] \in Message)
  BY <1>0
<1>2. ASSUME NEW c, ClientOK(c), OrderOK(c, NextId)
      PROVE  OrderOK(SendNext(c), NextId)
  BY <1>2, OrderSend DEF SendNext, ClientOK
<1>3. ASSUME NEW c, ClientOK(c), OrderOK(c, NextId), NEW m \in Message, NEW d \in Receive(c, m)
      PROVE  ClientOK(d) /\ OrderOK(d, NextId)
  BY <1>0, <1>3, ReceiveKeeps, OrderReceive DEF ClientOK
<1>4. PICK c1 \in Receive(client, Head(broker.out)) :
         \/ client' = SendNext(c1)
         \/ Len(broker.out) > 1 /\ \E c2 \in Receive(c1, broker.out[2]) : client' = SendNext(c2)
  BY DEF mqtt_tcpclient_recv
<1>. QED
  BY <1>0, <1>1, <1>2, <1>3, <1>4

LEMMA OrderTimer ==
    ASSUME OrderInv, mqtt_timer
    PROVE  OrderOK(client', NextId)
<1>0. Inv /\ client \in Client /\ OrderOK(client, NextId)
  BY InvGives DEF OrderInv
<1>1. CASE ConnectedTick /\ (AckOverdue \/ PingOverdue)
  BY <1>0, <1>1, LostMoves, OrderAlike DEF GivenUp
<1>2. CASE ConnectedTick /\ ~(AckOverdue \/ PingOverdue)
  <2>1. client' = IF client.keepAliveTick = 1 THEN Ping(Count(client)) ELSE Count(client)
    BY <1>2 DEF ConnectedTick
  <2>2. Count(client) \in Client /\ OrderOK(Count(client), NextId)
    BY <1>0, CountFields, OrderAlike DEF Counted
  <2>3. OrderOK(Ping(Count(client)), NextId)
    <3>1. PICK u \in Client : Pinged(Ping(Count(client)), u, Count(client))
      BY <2>2, PingFields
    <3>2. Msg("PINGREQ", 0) \in Message /\ ~Numbered(Msg("PINGREQ", 0))
      BY MsgType DEF Types, Msg, Numbered
    <3>3. OrderOK(u, NextId)
      BY <2>2, <3>1, <3>2, OrderUnshift DEF Pinged
    <3>4. OrderOK(mqtt_send_message(u), NextId)
      BY <3>3, OrderSend
    <3>. QED
      BY <3>1, <3>4, OrderAlike DEF Pinged
  <2>. QED
    BY <2>1, <2>2, <2>3
<1>3. CASE ReconnectTick
  <2>1. CASE client'.msgQueue = client.msgQueue /\ client'.pending_buffer = client.pending_buffer
    BY <1>0, <2>1, OrderAlike
  <2>2. ASSUME NEW c \in Client, Requeued(c, client), Attempted(client', c)
        PROVE  OrderOK(client', NextId)
    <3>1. client.pending_buffer \in Message
      BY <1>0, ClientFields
    <3>2. OrderOK(c, NextId)
      <4>1. CASE client.pending_buffer = None
        BY <1>0, <2>2, <4>1, OrderAlike DEF Requeued
      <4>2. CASE client.pending_buffer # None
        BY <1>0, <2>2, <3>1, <4>2, OrderUnshift DEF Requeued
      <4>. QED BY <4>1, <4>2
    <3>. QED
      BY <2>2, <3>2, OrderAlike DEF Attempted
  <2>. QED
    BY <1>0, <1>3, <2>1, <2>2, ReconnectMoves
<1>. QED
  BY <1>1, <1>2, <1>3 DEF mqtt_timer

LEMMA OrderStep ==
    ASSUME OrderInv, [Next]_vars
    PROVE  OrderInv'
<1>0. /\ Inv /\ client \in Client /\ NextId \in Int /\ BudgetOK /\ OrderOK(client, NextId)
      /\ client.connState = "MQTT_CONNECTED" => client.sock = "open"
  BY InvGives DEF OrderInv, SocketOK
<1>i. Inv'
  BY <1>0, StepOK
<1>. SUFFICES OrderOK(client', NextId')
  BY <1>i DEF OrderInv
<1>n. ASSUME Spend("losses") \/ Spend("requests") \/ Spend("incoming") \/ UNCHANGED budget
      PROVE  NextId' = NextId
  BY <1>0, <1>n, SpendBudget DEF NextId
<1>1. ASSUME NEW q \in 0..2, MQTT_Publish(q) PROVE OrderOK(client', NextId')
  <2>. DEFINE m == [type |-> "PUBLISH", qos |-> q, id |-> NextId]
  <2>1. NextId' = NextId + 1 /\ m \in Message /\ m.id = NextId
    BY <1>0, <1>1, SpendBudget, NextIdType DEF MQTT_Publish, Message, Types
  <2>2. client' = IF MaySend(Push(client, m)) THEN mqtt_send_message(Push(client, m))
                  ELSE Push(client, m)
    BY <1>1 DEF MQTT_Publish
  <2>. HIDE DEF m
  <2>3. Push(client, m) \in Client /\ OrderOK(Push(client, m), NextId + 1)
    BY <1>0, <2>1, QueueType, OrderPush
  <2>. QED
    BY <2>1, <2>2, <2>3, OrderSend
<1>2. CASE MQTT_Subscribe
  <2>. DEFINE m == Msg("SUBSCRIBE", NextId)
  <2>1. NextId' = NextId + 1 /\ m \in Message /\ m.id = NextId
    BY <1>0, <1>2, SpendBudget, NextIdType, MsgType DEF MQTT_Subscribe, Types, Msg
  <2>2. client' = mqtt_enq_message(client, m)
    BY <1>2 DEF MQTT_Subscribe
  <2>. HIDE DEF m
  <2>3. Push(client, m) \in Client /\ OrderOK(Push(client, m), NextId + 1)
    BY <1>0, <2>1, QueueType, OrderPush
  <2>. QED
    BY <2>1, <2>2, <2>3, OrderSend DEF mqtt_enq_message
<1>3. ASSUME Connects(client) PROVE OrderOK(client', NextId')
  <2>1. NextId' = NextId
    BY <1>3, <1>n DEF Connects
  <2>. QED
    BY <1>0, <1>3, <2>1, AttemptMoves, OrderAlike DEF Attempted
<1>4. CASE WifiLost \/ mqtt_tcpclient_discon_cb \/ mqtt_tcpclient_recon_cb \/ mqtt_dns_found
  <2>1. NextId' = NextId
    BY <1>4, <1>n DEF WifiLost, mqtt_tcpclient_discon_cb, mqtt_tcpclient_recon_cb, mqtt_dns_found
  <2>. QED
    BY <1>0, <1>4, <2>1, LostMoves, OrderAlike DEF GivenUp
<1>5. CASE MQTT_Reconnect
  <2>1. CASE /\ client.connState = "MQTT_CONNECTED" /\ client' = mqtt_doAbort(client)
             /\ Spend("requests")
    <3>1. NextId' = NextId
      BY <2>1, <1>n
    <3>. QED
      BY <1>0, <2>1, <3>1, LostMoves, OrderAlike DEF GivenUp
  <2>. QED
    BY <1>3, <1>5, <2>1 DEF MQTT_Reconnect
<1>6. CASE cgiMqttSet
  BY <1>6, SettingsMoves, NoneIsNothing DEF OrderOK
<1>7. CASE mqtt_tcpclient_connect_cb
  <2>1. NextId' = NextId
    BY <1>7, <1>n DEF mqtt_tcpclient_connect_cb
  <2>2. PICK u \in Client : Begun(client', u, client)
    BY <1>0, <1>7, BeginMoves
  <2>3. Msg("CONNECT", 0) \in Message /\ ~Numbered(Msg("CONNECT", 0))
    BY MsgType DEF Types, Msg, Numbered
  <2>4. OrderOK(u, NextId)
    BY <1>0, <2>2, <2>3, OrderUnshift DEF Begun
  <2>5. OrderOK(mqtt_send_message(u), NextId)
    BY <2>4, OrderSend
  <2>. QED
    BY <2>1, <2>2, <2>5, OrderAlike DEF Begun
<1>8. CASE mqtt_tcpclient_recv
  BY <1>8, <1>n, OrderReceived DEF mqtt_tcpclient_recv
<1>9. CASE ReceivePart
  <2>. DEFINE c == [client EXCEPT !.in_buffer = "part"]
  <2>1. NextId' = NextId /\ client' = SendNext(c)
    BY <1>9, <1>n DEF ReceivePart
  <2>2. c \in Client /\ c.msgQueue = client.msgQueue /\ c.pending_buffer = client.pending_buffer
    BY <1>0 DEF Client
  <2>. HIDE DEF c
  <2>. QED
    BY <1>0, <2>1, <2>2, OrderAlike, OrderSend DEF SendNext
<1>10. CASE mqtt_tcpclient_sent_cb
  <2>1. NextId' = NextId
    BY <1>10, <1>n DEF mqtt_tcpclient_sent_cb
  <2>. QED
    BY <1>0, <1>10, <2>1, SentMoves, OrderAlike, OrderSend
<1>11. CASE mqtt_timer
  <2>1. NextId' = NextId
    BY <1>11, <1>n DEF mqtt_timer, ConnectedTick, ReconnectTick, Aborts, Connects
  <2>. QED
    BY <1>11, <2>1, OrderTimer
<1>12. CASE BrokerReads
  BY <1>0, <1>12, <1>n, ReadMoves, OrderAlike DEF BrokerReads
<1>13. ASSUME NEW m \in Incoming, BrokerPublishes(m) PROVE OrderOK(client', NextId')
  BY <1>0, <1>13, <1>n DEF BrokerPublishes
<1>14. CASE UNCHANGED vars
  BY <1>0, <1>14, <1>n DEF vars
<1>. QED
  BY <1>1, <1>2, <1>3, <1>4, <1>5, <1>6, <1>7, <1>8, <1>9, <1>10, <1>11, <1>12, <1>13, <1>14
     DEF Next, WifiGotIP

\* OrderOK without the pending message at the head of the queue.
LEMMA OrderMeans ==
    ASSUME Inv, OrderOK(client, NextId)
    PROVE  InOrder
<1>. DEFINE q == client.msgQueue
            p == client.pending_buffer
<1>1. q \in Seq(Message)
  BY InvGives, ClientFields
<1>2. /\ Len(Held) = Len(q) + 1 /\ Held[1] = p
      /\ \A k \in 2..Len(Held) : Held[k] = q[k - 1] /\ k - 1 \in 1..Len(q)
  BY <1>1 DEF Held
<1>. SUFFICES ASSUME NEW j \in 1..Len(Held), NEW k \in 1..Len(Held), j < k
              PROVE  Precedes(Held[j], Held[k])
  BY DEF InOrder, Precedes, Numbered
<1>3. k \in 2..Len(Held)
  BY <1>1, <1>2
<1>4. CASE j = 1
  BY <1>2, <1>3, <1>4 DEF OrderOK
<1>5. CASE j # 1
  <2>1. j \in 2..Len(Held) /\ j - 1 \in 1 .. (k - 1) - 1
    BY <1>1, <1>2, <1>3, <1>5
  <2>. QED
    BY <1>2, <1>3, <2>1 DEF OrderOK
<1>. QED
  BY <1>4, <1>5

(* Whatever is lost, whenever the application publishes and however often  *)
(* a message is sent again, what the client still has to send is in the    *)
(* order in which it was given: PktBuf_Push, PktBuf_Shift and              *)
(* PktBuf_Unshift of the pending message, in mqtt.c.                       *)
THEOREM InOrderHolds == Spec => []InOrder
<1>1. Init => OrderInv
  <2>. SUFFICES ASSUME Init PROVE OrderInv
    OBVIOUS
  <2>1. Inv
    BY InitOK
  <2>2. client.msgQueue = <<>> /\ client.pending_buffer = None
    BY DEF Init, MQTT_Init
  <2>. QED
    BY <2>1, <2>2, NoneIsNothing DEF OrderInv, OrderOK
<1>2. OrderInv /\ [Next]_vars => OrderInv'
  BY OrderStep
<1>3. OrderInv => InOrder
  BY OrderMeans DEF OrderInv
<1>. QED
  BY <1>1, <1>2, <1>3, PTL DEF Spec

-----------------------------------------------------------------------------
(* Beginning a connection, and sending on it *)

LEMMA ConnectNowhere ==
    ASSUME NEW s \in Seq(Message), NoConnect(s), NEW m \in Message, m.type # "CONNECT"
    PROVE  /\ NoConnect(Append(s, m)) /\ NoConnect(<<m>> \o s)
           /\ s # <<>> => NoConnect(Tail(s)) /\ Head(s).type # "CONNECT"
<1>1. NoConnect(Append(s, m))
  BY DEF NoConnect
<1>2. NoConnect(<<m>> \o s)
  BY DEF NoConnect
<1>3. s # <<>> => NoConnect(Tail(s)) /\ Head(s).type # "CONNECT"
  BY DEF NoConnect
<1>. QED
  BY <1>1, <1>2, <1>3

LEMMA OpensMore ==
    ASSUME NEW s \in Seq(Message), Opens(s), NEW m \in Message, m.type # "CONNECT"
    PROVE  Opens(Append(s, m))
<1>1. /\ Append(s, m) # <<>> /\ Append(s, m)[1] = s[1]
      /\ Tail(Append(s, m)) = Append(Tail(s), m) /\ Tail(s) \in Seq(Message)
  BY DEF Opens
<1>. QED
  BY <1>1, ConnectNowhere DEF Opens

LEMMA OnlineSend ==
    ASSUME NEW c \in Client, NEW up \in BOOLEAN, OnlineOK(c, up), c.sock # "connecting"
    PROVE  OnlineOK(mqtt_send_message(c), up)
<1>1. CASE c.msgQueue = <<>> \/ c.sending
  BY <1>1, SendSkips
<1>2. CASE c.msgQueue # <<>> /\ ~c.sending
  <2>. DEFINE d == mqtt_send_message(c)
              h == Head(c.msgQueue)
  <2>1. /\ d.msgQueue = Tail(c.msgQueue) /\ d.sock = c.sock
        /\ d.wire = IF c.sock = "open" THEN Append(c.wire, h) ELSE c.wire
        /\ d.inflight = (c.sock = "open")
        /\ d.pending_buffer = h \/ d.pending_buffer = None
    BY <1>2, SendFields
  <2>2. c.msgQueue \in Seq(Message) /\ c.wire \in Seq(Message)
    BY ClientFields
  <2>3. h \in Message
    BY <1>2, <2>2
  <2>4. NoConnect(c.msgQueue)
    BY DEF OnlineOK, CarriesOK
  <2>5. NoConnect(Tail(c.msgQueue)) /\ h.type # "CONNECT"
    <3>1. \E m \in Message : m.type # "CONNECT"
      BY NoneIsNothing
    <3>. QED BY <1>2, <2>2, <2>4, <3>1, ConnectNowhere
  <2>. HIDE DEF d, h
  <2>6. SentOK(d)
    BY <2>1 DEF OnlineOK, SentOK
  <2>7. c.sock = "open" => IF up THEN NoConnect(d.wire) ELSE Opens(d.wire)
    BY <2>1, <2>2, <2>3, <2>5, ConnectNowhere, OpensMore DEF OnlineOK, CarriesOK
  <2>8. c.sock # "open" => d.wire = <<>>
    BY <2>1 DEF OnlineOK, CarriesOK
  <2>9. d.pending_buffer.type # "CONNECT"
    BY <2>1, <2>5, NoneIsNothing
  <2>. QED
    BY <2>1, <2>5, <2>6, <2>7, <2>8, <2>9 DEF OnlineOK, CarriesOK, d
<1>. QED
  BY <1>1, <1>2

\* A client whose queue and pending message are as before, or shorter.
LEMMA OnlineAlike ==
    ASSUME NEW c, NEW d, NEW up, OnlineOK(c, up),
           d.msgQueue = c.msgQueue, d.wire = c.wire, d.sock = c.sock,
           d.pending_buffer = c.pending_buffer \/ d.pending_buffer = None,
           d.sending = c.sending, d.inflight = c.inflight
    PROVE  OnlineOK(d, up)
BY NoneIsNothing DEF OnlineOK, SentOK, CarriesOK

LEMMA OnlinePush ==
    ASSUME NEW c \in Client, NEW up, OnlineOK(c, up), NEW m \in Message, m.type # "CONNECT"
    PROVE  OnlineOK(Push(c, m), up)
<1>1. c.msgQueue \in Seq(Message) /\ NoConnect(c.msgQueue)
  BY ClientFields DEF OnlineOK, CarriesOK
<1>2. NoConnect(Append(c.msgQueue, m))
  BY <1>1, ConnectNowhere
<1>. DEFINE d == Push(c, m)
<1>3. /\ d.msgQueue = Append(c.msgQueue, m)
      /\ d.wire = c.wire /\ d.pending_buffer = c.pending_buffer
      /\ d.sending = c.sending /\ d.inflight = c.inflight /\ d.sock = c.sock
  BY PushFields
<1>. HIDE DEF d
<1>4. OnlineOK(d, up)
  BY <1>2, <1>3 DEF OnlineOK, SentOK, CarriesOK
<1>. QED
  BY <1>4 DEF d

LEMMA OnlineEnqueue ==
    ASSUME NEW c \in Client, NEW up \in BOOLEAN, OnlineOK(c, up), c.sock = "open",
           NEW m \in Message, m.type # "CONNECT"
    PROVE  OnlineOK(mqtt_enq_message(c, m), up)
<1>1. Push(c, m) \in Client /\ OnlineOK(Push(c, m), up) /\ Push(c, m).sock = "open"
  BY QueueType, OnlinePush, PushFields
<1>. QED
  BY <1>1, OnlineSend DEF mqtt_enq_message

\* Given up, or begun anew, nothing is on the wire.
LEMMA OnlineGone ==
    ASSUME NEW c, NEW d, NEW up, NEW up2, OnlineOK(c, up), GivenUp(d, c) \/ Attempted(d, c)
    PROVE  OnlineOK(d, up2)
BY DEF OnlineOK, SentOK, CarriesOK, GivenUp, Attempted

LEMMA OnlineReceive ==
    ASSUME NEW c \in Client, SocketOK(c), NEW up \in BOOLEAN, OnlineOK(c, up),
           NEW m \in Message, NEW d \in Receive(c, m)
    PROVE  OnlineOK(d, up) /\ (d.sock = c.sock \/ d.sock = "none")
<1>1. ASSUME NEW e, Alike(e, c) PROVE OnlineOK(e, up) /\ e.sock = c.sock
  BY <1>1, OnlineAlike DEF Alike
<1>2. ASSUME NEW e \in Client, OnlineOK(e, up)
      PROVE  OnlineOK(mqtt_doAbort(e), up) /\ mqtt_doAbort(e).sock = "none"
  <2>1. GivenUp(mqtt_doAbort(e), e) /\ mqtt_doAbort(e).sock = "none"
    BY AbortFields DEF GivenUp
  <2>. QED BY <1>2, <2>1, OnlineGone
<1>3. ASSUME NEW e \in Client, Alike(e, c), c.sock = "open"
      PROVE  OnlineOK(Handle(e, m), up) /\ Handle(e, m).sock = c.sock
  <2>1. OnlineOK(e, up) /\ e.sock = "open"
    BY <1>1, <1>3
  <2>2. OnlineOK(Free(e), up) /\ Free(e) \in Client /\ Free(e).sock = "open"
    BY <2>1, FreeFields, OnlineAlike
  <2>3. \A t \in Replies : /\ OnlineOK(mqtt_enq_message(e, Msg(t, m.id)), up)
                           /\ OnlineOK(mqtt_enq_message(Free(e), Msg(t, m.id)), up)
    <3>1. \A t \in Replies : Msg(t, m.id) \in Message /\ Msg(t, m.id).type # "CONNECT"
      BY ReplyType DEF Replies
    <3>. QED BY <2>1, <2>2, <3>1, OnlineEnqueue
  <2>4. \A t \in Replies : /\ mqtt_enq_message(e, Msg(t, m.id)).sock = "open"
                           /\ mqtt_enq_message(Free(e), Msg(t, m.id)).sock = "open"
    BY <2>1, <2>2, ReplyType, EnqueueSock
  <2>5. Alike(Handle(e, m), e) => OnlineOK(Handle(e, m), up) /\ Handle(e, m).sock = "open"
    BY <2>1, OnlineAlike DEF Alike
  <2>. QED
    BY <1>3, <2>2, <2>3, <2>4, <2>5, HandleCases DEF Replies
<1>. QED
  BY <1>1, <1>2, <1>3, ReceiveCases

LEMMA OnlineGives ==
    ASSUME OnlineInv
    PROVE  /\ Inv /\ OnlineOK(client, broker.up) /\ SessionOK(client, broker)
           /\ client \in Client /\ broker.up \in BOOLEAN
           /\ broker \in [up : BOOLEAN, closing : BOOLEAN, out : Seq(Message)]
           /\ client.sock = "open" <=> client.connState = "MQTT_CONNECTED"
BY InvGives DEF OnlineInv, BrokerOK, SocketOK

\* A step after which the broker looks whether the connection is still there.
LEMMA SeesSession ==
    ASSUME OnlineInv, BrokerSees,
           OnlineOK(client', broker.up) \/ (client'.sock # "open" /\ OnlineOK(client', FALSE))
    PROVE  OnlineOK(client', broker'.up) /\ SessionOK(client', broker')
<1>0. broker \in [up : BOOLEAN, closing : BOOLEAN, out : Seq(Message)] /\ ~broker.closing
  BY OnlineGives DEF SessionOK
<1>1. CASE client'.sock = "open"
  BY <1>0, <1>1 DEF BrokerSees, SessionOK
<1>2. CASE client'.sock # "open"
  <2>1. ~broker'.up /\ ~broker'.closing /\ broker'.out = <<>>
    BY <1>0, <1>2 DEF BrokerSees
  <2>. QED
    BY <1>2, <2>1 DEF SessionOK, OnlineOK, CarriesOK
<1>. QED
  BY <1>1, <1>2

LEMMA OnlineReceived ==
    ASSUME OnlineInv, mqtt_tcpclient_recv
    PROVE  OnlineOK(client', broker'.up) /\ SessionOK(client', broker')
<1>0. /\ client \in Client /\ ClientOK(client) /\ broker.out \in Seq(Message) /\ broker.out # <<>>
      /\ OnlineOK(client, broker.up) /\ broker.up \in BOOLEAN /\ ~broker.closing
      /\ client.sock = "open"
  BY OnlineGives, InvParts DEF BrokerOK, mqtt_tcpclient_recv, SessionOK
<1>1. Head(broker.out) \in Message /\ (Len(broker.out) > 1 => broker.out[2] \in Message)
  BY <1>0
<1>. DEFINE Good(c) == ClientOK(c) /\ OnlineOK(c, broker.up) /\ c.sock \in {"open", "none"}
<1>2. ASSUME NEW c, Good(c)
      PROVE  OnlineOK(SendNext(c), broker.up) /\ SendNext(c).sock # "connecting"
  BY <1>0, <1>2, OnlineSend, SendOK DEF SendNext, ClientOK
<1>3. ASSUME NEW c, Good(c), NEW m \in Message, NEW d \in Receive(c, m)
      PROVE  Good(d)
  BY <1>0, <1>3, ReceiveKeeps, OnlineReceive DEF ClientOK
<1>4. PICK c1 \in Receive(client, Head(broker.out)) :
         \/ client' = SendNext(c1)
         \/ Len(broker.out) > 1 /\ \E c2 \in Receive(c1, broker.out[2]) : client' = SendNext(c2)
  BY DEF mqtt_tcpclient_recv
<1>5. OnlineOK(client', broker.up) /\ client'.sock # "connecting"
  <2>1. Good(client) /\ Good(c1)
    BY <1>0, <1>1, <1>3
  <2>. HIDE DEF Good
  <2>. QED BY <1>1, <1>2, <1>3, <1>4, <2>1
<1>6. broker'.up = broker.up /\ broker'.closing = broker.closing
  BY OnlineGives DEF mqtt_tcpclient_recv
<1>. QED
  BY <1>0, <1>5, <1>6 DEF SessionOK

LEMMA OnlineTimer ==
    ASSUME OnlineInv, mqtt_timer
    PROVE  OnlineOK(client', broker'.up) /\ SessionOK(client', broker')
<1>0. Inv /\ client \in Client /\ OnlineOK(client, broker.up) /\ broker.up \in BOOLEAN
  BY OnlineGives
<1>. SUFFICES OnlineOK(client', broker.up)
  BY SeesSession DEF mqtt_timer
<1>1. CASE ConnectedTick /\ (AckOverdue \/ PingOverdue)
  BY <1>0, <1>1, LostMoves, OnlineGone
<1>2. CASE ConnectedTick /\ ~(AckOverdue \/ PingOverdue)
  <2>1. client' = IF client.keepAliveTick = 1 THEN Ping(Count(client)) ELSE Count(client)
    BY <1>2 DEF ConnectedTick
  <2>2. /\ Count(client) \in Client /\ OnlineOK(Count(client), broker.up)
        /\ Count(client).sock = "open"
    BY <1>0, <1>2, OnlineGives, CountFields, OnlineAlike DEF Counted, ConnectedTick
  <2>3. OnlineOK(Ping(Count(client)), broker.up)
    <3>. DEFINE c == Count(client)
                m == Msg("PINGREQ", 0)
    <3>1. PICK u \in Client : Pinged(Ping(c), u, c)
      BY <2>2, PingFields
    <3>2. m \in Message /\ m.type # "CONNECT"
      BY MsgType DEF Types, Msg
    <3>3. c.msgQueue \in Seq(Message) /\ NoConnect(c.msgQueue)
      BY <2>2, ClientFields DEF OnlineOK, CarriesOK
    <3>4. NoConnect(<<m>> \o c.msgQueue)
      BY <3>2, <3>3, ConnectNowhere
    <3>. HIDE DEF c
    <3>5. OnlineOK(u, broker.up) /\ u.sock = "open"
      BY <2>2, <3>1, <3>4 DEF c, Pinged, OnlineOK, SentOK, CarriesOK
    <3>6. OnlineOK(mqtt_send_message(u), broker.up)
      BY <1>0, <3>5, OnlineSend
    <3>7. OnlineOK(Ping(c), broker.up)
      BY <3>1, <3>6, OnlineAlike DEF Pinged
    <3>. QED
      BY <3>7 DEF c
  <2>. QED
    BY <2>1, <2>2, <2>3
<1>3. CASE ReconnectTick
  <2>1. CASE /\ client'.msgQueue = client.msgQueue /\ client'.wire = client.wire
             /\ client'.pending_buffer = client.pending_buffer
             /\ client'.sending = client.sending /\ client'.inflight = client.inflight
             /\ client'.sock = client.sock
    BY <1>0, <2>1, OnlineAlike
  <2>2. ASSUME NEW c \in Client, Requeued(c, client), Attempted(client', c)
        PROVE  OnlineOK(client', broker.up)
    <3>1. /\ client.pending_buffer \in Message /\ client.msgQueue \in Seq(Message)
          /\ NoConnect(client.msgQueue) /\ client.pending_buffer.type # "CONNECT"
      BY <1>0, ClientFields DEF OnlineOK, CarriesOK
    <3>2. NoConnect(c.msgQueue) /\ c.pending_buffer.type # "CONNECT"
      BY <2>2, <3>1, ConnectNowhere, NoneIsNothing DEF Requeued
    <3>. QED
      BY <2>2, <3>2 DEF Attempted, OnlineOK, SentOK, CarriesOK
  <2>. QED
    BY <1>0, <1>3, <2>1, <2>2, ReconnectMoves
<1>. QED
  BY <1>1, <1>2, <1>3 DEF mqtt_timer

LEMMA OnlineStep ==
    ASSUME Online, OnlineInv, [Next]_vars
    PROVE  OnlineInv'
<1>0. /\ Inv /\ client \in Client /\ OnlineOK(client, broker.up) /\ SessionOK(client, broker)
      /\ broker.up \in BOOLEAN
      /\ broker \in [up : BOOLEAN, closing : BOOLEAN, out : Seq(Message)]
      /\ client.sock = "open" <=> client.connState = "MQTT_CONNECTED"
  BY OnlineGives
<1>i. Inv'
  BY <1>0, StepOK
<1>. SUFFICES OnlineOK(client', broker'.up) /\ SessionOK(client', broker')
  BY <1>i DEF OnlineInv
<1>s. ASSUME OnlineOK(client', broker.up), client'.sock = client.sock, UNCHANGED broker
      PROVE  OnlineOK(client', broker'.up) /\ SessionOK(client', broker')
  BY <1>0, <1>s DEF SessionOK
<1>1. ASSUME NEW q \in 0..2, MQTT_Publish(q)
      PROVE  OnlineOK(client', broker'.up) /\ SessionOK(client', broker')
  <2>. DEFINE m == [type |-> "PUBLISH", qos |-> q, id |-> NextId]
              c == Push(client, m)
  <2>1. m \in Message /\ m.type # "CONNECT" /\ client.sock = "open" /\ UNCHANGED broker
    BY <1>0, <1>1, InvGives, NextIdType DEF MQTT_Publish, Message, Types, Online
  <2>2. client' = IF MaySend(c) THEN mqtt_send_message(c) ELSE c
    BY <1>1 DEF MQTT_Publish
  <2>. HIDE DEF m
  <2>3. c \in Client /\ OnlineOK(c, broker.up) /\ c.sock = "open"
    BY <1>0, <2>1, QueueType, OnlinePush, PushFields
  <2>. HIDE DEF c
  <2>4. OnlineOK(client', broker.up) /\ client'.sock = "open"
    BY <1>0, <2>2, <2>3, OnlineSend, SendOK
  <2>. QED
    BY <1>s, <2>1, <2>4
<1>2. CASE MQTT_Subscribe
  <2>. DEFINE m == Msg("SUBSCRIBE", NextId)
  <2>1. m \in Message /\ m.type # "CONNECT" /\ client.sock = "open" /\ UNCHANGED broker
    BY <1>0, <1>2, InvGives, NextIdType, MsgType DEF MQTT_Subscribe, Types, Msg, Online
  <2>2. client' = mqtt_enq_message(client, m)
    BY <1>2 DEF MQTT_Subscribe
  <2>. HIDE DEF m
  <2>3. OnlineOK(client', broker.up) /\ client'.sock = "open"
    BY <1>0, <2>1, <2>2, OnlineEnqueue, EnqueueSock
  <2>. QED
    BY <1>s, <2>1, <2>3
<1>3. ASSUME Connects(client), BrokerSees
      PROVE  OnlineOK(client', broker'.up) /\ SessionOK(client', broker')
  BY <1>0, <1>3, AttemptMoves, OnlineGone, SeesSession
<1>4. CASE WifiLost \/ mqtt_tcpclient_discon_cb \/ mqtt_tcpclient_recon_cb
  <2>1. OnlineOK(client', broker.up)
    BY <1>0, <1>4, LostMoves, OnlineGone
  <2>. QED
    BY <1>4, <2>1, SeesSession DEF WifiLost, mqtt_tcpclient_discon_cb, mqtt_tcpclient_recon_cb
<1>5. CASE mqtt_dns_found
  <2>1. OnlineOK(client', broker.up) /\ client'.sock = "none" /\ UNCHANGED broker
    BY <1>0, <1>5, LostMoves, OnlineGone DEF mqtt_dns_found, GivenUp
  <2>. QED
    BY <1>0, <2>1 DEF SessionOK
<1>6. CASE MQTT_Reconnect
  <2>1. CASE /\ client.connState = "MQTT_CONNECTED" /\ client' = mqtt_doAbort(client)
    <3>1. OnlineOK(client', broker.up)
      BY <1>0, <2>1, LostMoves, OnlineGone
    <3>. QED
      BY <1>6, <3>1, SeesSession DEF MQTT_Reconnect
  <2>. QED
    BY <1>3, <1>6, <2>1 DEF MQTT_Reconnect
<1>7. CASE cgiMqttSet
  <2>1. client'.sock # "open" /\ OnlineOK(client', FALSE)
    BY <1>7, SettingsMoves, NoneIsNothing DEF OnlineOK, SentOK, CarriesOK, NoConnect
  <2>. QED
    BY <1>7, <2>1, SeesSession DEF cgiMqttSet
<1>8. CASE mqtt_tcpclient_connect_cb
  <2>. DEFINE m == Msg("CONNECT", 0)
  <2>1. PICK u \in Client : Begun(client', u, client)
    BY <1>0, <1>8, BeginMoves
  <2>2. /\ client.sock = "connecting" /\ UNCHANGED broker
        /\ client.wire = <<>> /\ ~client.sending /\ ~broker.up /\ ~broker.closing
        /\ NoConnect(client.msgQueue) /\ client.msgQueue \in Seq(Message)
    BY <1>0, <1>8, ClientFields
       DEF mqtt_tcpclient_connect_cb, OnlineOK, SentOK, CarriesOK, SessionOK
  <2>3. m \in Message /\ m.type = "CONNECT" /\ ~needsAck(m)
    BY MsgType DEF Types, Msg, needsAck
  <2>4. /\ u.msgQueue # <<>> /\ Head(u.msgQueue) = m /\ Tail(u.msgQueue) = client.msgQueue
        /\ ~u.sending /\ u.sock = "open" /\ u.wire = <<>>
    <3>1. u.msgQueue = <<m>> \o client.msgQueue /\ u.sending = client.sending
          /\ u.sock = "open" /\ u.wire = client.wire
      BY <2>1 DEF Begun
    <3>. QED BY <2>2, <2>3, <3>1
  <2>. DEFINE s == mqtt_send_message(u)
  <2>5. /\ s.msgQueue = client.msgQueue /\ s.inflight = TRUE /\ s.wire = Append(<<>>, m)
        /\ s.pending_buffer = None /\ s.sock = "open"
    <3>1. /\ s.msgQueue = Tail(u.msgQueue)
          /\ s.wire = IF u.sock = "open" THEN Append(u.wire, Head(u.msgQueue)) ELSE u.wire
          /\ s.inflight = (u.sock = "open")
          /\ s.pending_buffer = IF needsAck(Head(u.msgQueue)) THEN Head(u.msgQueue) ELSE None
          /\ s.sock = u.sock
      BY <2>4, SendFields
    <3>. HIDE DEF s, m
    <3>. QED BY <2>3, <2>4, <3>1
  <2>. HIDE DEF s
  <2>6. /\ client'.msgQueue = s.msgQueue /\ client'.inflight = s.inflight
        /\ client'.wire = s.wire /\ client'.sock = s.sock
        /\ client'.pending_buffer = s.pending_buffer
    BY <2>1 DEF Begun, s
  <2>7. Opens(Append(<<>>, m))
    BY <2>3 DEF Opens, NoConnect
  <2>8. OnlineOK(client', FALSE)
    BY <2>2, <2>5, <2>6, <2>7, NoneIsNothing DEF OnlineOK, SentOK, CarriesOK
  <2>9. broker'.up = FALSE
    BY <1>0, <2>2
  <2>. QED
    BY <2>2, <2>5, <2>6, <2>8, <2>9 DEF SessionOK
<1>9. CASE mqtt_tcpclient_recv
  BY <1>9, OnlineReceived
<1>10. CASE ReceivePart
  <2>. DEFINE c == [client EXCEPT !.in_buffer = "part"]
  <2>1. client' = SendNext(c) /\ client.sock = "open" /\ UNCHANGED broker
    BY <1>10 DEF ReceivePart
  <2>2. /\ c \in Client /\ c.msgQueue = client.msgQueue /\ c.wire = client.wire
        /\ c.pending_buffer = client.pending_buffer /\ c.sock = client.sock
        /\ c.sending = client.sending /\ c.inflight = client.inflight
    BY <1>0 DEF Client
  <2>. HIDE DEF c
  <2>3. OnlineOK(c, broker.up)
    BY <1>0, <2>2, OnlineAlike
  <2>4. OnlineOK(client', broker.up) /\ client'.sock = "open"
    BY <1>0, <2>1, <2>2, <2>3, OnlineSend, SendOK DEF SendNext
  <2>. QED
    BY <1>s, <2>1, <2>4
<1>11. CASE mqtt_tcpclient_sent_cb
  <2>1. PICK c \in Client :
           /\ c.msgQueue = client.msgQueue /\ c.pending_buffer = client.pending_buffer
           /\ c.wire = client.wire /\ ~c.sending /\ c.sock = "open"
           /\ client' = IF c.pending_buffer = None THEN mqtt_send_message(c) ELSE c
    BY <1>0, <1>11, SentMoves
  <2>2. client.sock = "open" /\ UNCHANGED broker
    BY <1>11 DEF mqtt_tcpclient_sent_cb
  <2>3. OnlineOK(c, broker.up)
    BY <1>0, <2>1, <2>2 DEF OnlineOK, SentOK, CarriesOK
  <2>4. OnlineOK(client', broker.up) /\ client'.sock = "open"
    BY <1>0, <2>1, <2>3, OnlineSend, SendOK
  <2>. QED
    BY <1>s, <2>2, <2>4
<1>12. CASE mqtt_timer
  BY <1>12, OnlineTimer
<1>13. CASE BrokerReads
  <2>. DEFINE m == Head(client.wire)
  <2>1. /\ client.sock = "open" /\ client.wire # <<>> /\ client.wire \in Seq(Message)
        /\ ~broker.closing
        /\ IF broker.up THEN NoConnect(client.wire) ELSE Opens(client.wire)
    BY <1>0, <1>13, ClientFields DEF BrokerReads, OnlineOK, CarriesOK
  <2>2. broker.up # (m.type = "CONNECT") /\ NoConnect(Tail(client.wire))
    <3>1. CASE broker.up = TRUE
      <4>1. m.type # "CONNECT" /\ NoConnect(Tail(client.wire))
        BY <2>1, <3>1 DEF NoConnect
      <4>. QED BY <3>1, <4>1
    <3>2. CASE broker.up = FALSE
      <4>1. m.type = "CONNECT" /\ NoConnect(Tail(client.wire))
        BY <2>1, <3>2 DEF Opens
      <4>. QED BY <3>2, <4>1
    <3>. QED BY <1>0, <3>1, <3>2
  <2>3. broker' = [broker EXCEPT !.up = TRUE, !.out = @ \o Answer(m)]
    BY <1>13, <2>2 DEF BrokerReads
  <2>4. broker'.up /\ ~broker'.closing
    BY <1>0, <2>1, <2>3
  <2>5. /\ client'.msgQueue = client.msgQueue /\ client'.wire = Tail(client.wire)
        /\ client'.pending_buffer = client.pending_buffer
        /\ client'.sending = client.sending /\ client'.inflight = client.inflight
        /\ client'.sock = client.sock
    BY <1>0, <1>13, ReadMoves
  <2>6. OnlineOK(client', TRUE)
    BY <1>0, <2>1, <2>2, <2>5 DEF OnlineOK, SentOK, CarriesOK
  <2>. QED
    BY <2>1, <2>4, <2>5, <2>6 DEF SessionOK, OnlineOK, CarriesOK
<1>14. ASSUME NEW m \in Incoming, BrokerPublishes(m)
       PROVE  OnlineOK(client', broker'.up) /\ SessionOK(client', broker')
  <2>1. /\ client' = client /\ client.sock = "open"
        /\ broker'.up = broker.up /\ broker'.closing = broker.closing
    BY <1>0, <1>14 DEF BrokerPublishes
  <2>. QED BY <1>0, <2>1 DEF SessionOK
<1>15. CASE UNCHANGED vars
  BY <1>0, <1>15 DEF vars
<1>. QED
  BY <1>1, <1>2, <1>3, <1>4, <1>5, <1>6, <1>7, <1>8, <1>9, <1>10, <1>11, <1>12, <1>13, <1>14, <1>15
     DEF Next, WifiGotIP

LEMMA OnlineHolds ==
    ASSUME Online
    PROVE  Spec => []OnlineInv
<1>1. Init => OnlineInv
  <2>. SUFFICES ASSUME Init PROVE OnlineInv
    OBVIOUS
  <2>1. Inv
    BY InitOK
  <2>2. /\ client.msgQueue = <<>> /\ client.pending_buffer = None /\ client.wire = <<>>
        /\ client.sock = "none" /\ ~broker.closing
    BY DEF Init, MQTT_Init
  <2>. QED
    BY <2>1, <2>2, NoneIsNothing
       DEF OnlineInv, OnlineOK, SentOK, CarriesOK, NoConnect, SessionOK
<1>2. OnlineInv /\ [Next]_vars => OnlineInv'
  BY OnlineStep
<1>. QED
  BY <1>1, <1>2, PTL DEF Spec

(* If the application publishes only while connected, every connection     *)
(* begins with one CONNECT and carries no other, whatever was queued or    *)
(* pending when the last one was lost: mqtt_tcpclient_connect_cb and the   *)
(* sending flag that MQTT_Connect clears.                                  *)
THEOREM ConnectFirstHolds == Online => (Spec => []ConnectFirst)
<1>. SUFFICES ASSUME Online PROVE Spec => []ConnectFirst
  OBVIOUS
<1>1. OnlineInv => ConnectFirst
  BY DEF OnlineInv, SessionOK, ConnectFirst
<1>. QED
  BY <1>1, OnlineHolds, PTL

(* Under the same condition a sent callback is due whenever sending is     *)
(* set, so that the queue is never left waiting for one that was lost with *)
(* an earlier connection.                                                  *)
THEOREM SendingIsPendingHolds == Online => (Spec => []SendingIsPending)
<1>. SUFFICES ASSUME Online PROVE Spec => []SendingIsPending
  OBVIOUS
<1>1. OnlineInv => SendingIsPending
  BY DEF OnlineInv, OnlineOK, SentOK, SendingIsPending
<1>. QED
  BY <1>1, OnlineHolds, PTL

-----------------------------------------------------------------------------
(* Holding on to what is not acknowledged *)

LEMMA AlikeKeeps ==
    ASSUME NEW c, NEW d, d.msgQueue = c.msgQueue, d.pending_buffer = c.pending_buffer
    PROVE  Keeps(d, c)
BY DEF Keeps, Holds

LEMMA SendHolds ==
    ASSUME NEW c \in Client, c.pending_buffer = None
    PROVE  Keeps(mqtt_send_message(c), c)
<1>. SUFFICES ASSUME NEW i, Holds(c, i) PROVE Holds(mqtt_send_message(c), i)
  BY DEF Keeps
<1>1. CASE c.msgQueue = <<>> \/ c.sending
  BY <1>1, SendSkips
<1>2. CASE c.msgQueue # <<>> /\ ~c.sending
  <2>. DEFINE d == mqtt_send_message(c)
              q == c.msgQueue
  <2>1. /\ d.msgQueue = Tail(q)
        /\ d.pending_buffer = IF needsAck(Head(q)) THEN Head(q) ELSE None
    BY <1>2, SendFields
  <2>2. q \in Seq(Message)
    BY ClientFields
  <2>3. PICK k \in 1..Len(q) : Kept(q[k], i)
    BY NoneIsNothing DEF Holds
  <2>. HIDE DEF d
  <2>4. CASE k = 1
    <3>1. needsAck(Head(q)) /\ Head(q) = q[k]
      BY <1>2, <2>2, <2>3, <2>4 DEF Kept
    <3>. QED BY <2>1, <2>3, <3>1 DEF Holds, d
  <2>5. CASE k # 1
    <3>1. k - 1 \in 1..Len(Tail(q)) /\ Tail(q)[k - 1] = q[k]
      BY <2>2, <2>3, <2>5
    <3>. QED BY <2>1, <2>3, <3>1 DEF Holds, d
  <2>. QED BY <2>4, <2>5
<1>. QED
  BY <1>1, <1>2

LEMMA PushHolds ==
    ASSUME NEW c \in Client, NEW m \in Message
    PROVE  Keeps(Push(c, m), c) /\ \A i : Kept(m, i) => Holds(Push(c, m), i)
<1>. DEFINE d == Push(c, m)
            q == c.msgQueue
<1>1. d.msgQueue = Append(q, m) /\ d.pending_buffer = c.pending_buffer
  BY PushFields
<1>2. q \in Seq(Message)
  BY ClientFields
<1>3. /\ \A k \in 1..Len(q) : k \in 1..Len(Append(q, m)) /\ Append(q, m)[k] = q[k]
      /\ Len(q) + 1 \in 1..Len(Append(q, m)) /\ Append(q, m)[Len(q) + 1] = m
  BY <1>2
<1>. HIDE DEF d
<1>4. Keeps(d, c)
  BY <1>1, <1>3 DEF Keeps, Holds
<1>5. \A i : Kept(m, i) => Holds(d, i)
  BY <1>1, <1>3 DEF Holds
<1>. QED
  BY <1>4, <1>5 DEF d

\* The queue gets a message at its head; the pending one may be that.
LEMMA UnshiftHolds ==
    ASSUME NEW c \in Client, NEW m \in Message, NEW d, d.msgQueue = <<m>> \o c.msgQueue,
           d.pending_buffer = c.pending_buffer \/ m = c.pending_buffer
    PROVE  Keeps(d, c)
<1>. DEFINE q == c.msgQueue
<1>1. q \in Seq(Message)
  BY ClientFields
<1>2. /\ \A k \in 1..Len(q) : k + 1 \in 1..Len(<<m>> \o q) /\ (<<m>> \o q)[k + 1] = q[k]
      /\ 1 \in 1..Len(<<m>> \o q) /\ (<<m>> \o q)[1] = m
  BY <1>1
<1>3. SUFFICES ASSUME NEW i, Holds(c, i) PROVE Holds(d, i)
  BY DEF Keeps
<1>4. CASE Kept(c.pending_buffer, i)
  BY <1>2, <1>4 DEF Holds
<1>5. CASE \E k \in 1..Len(q) : Kept(q[k], i)
  BY <1>2, <1>5 DEF Holds
<1>. QED
  BY <1>3, <1>4, <1>5 DEF Holds

\* Without a pending message nothing that asks or answers is on its way.
LEMMA NothingPending ==
    ASSUME NEW c, NEW out, c.sock = "open", ExchangeOK(c, out), c.pending_buffer = None
    PROVE  NoneAwaits(c.wire) /\ NoneAcks(out)
BY NoneIsNothing DEF ExchangeOK, Asking, Answering, NoneAwaits, NoneAcks

LEMMA QuietExchange ==
    ASSUME NEW c, NEW out, NoneAwaits(c.wire), NoneAcks(out)
    PROVE  ExchangeOK(c, out)
BY DEF ExchangeOK, Asking, Answering, NoneAwaits, NoneAcks

LEMMA ExchangeSend ==
    ASSUME NEW c \in Client, NEW out, ExchangeOK(c, out), c.pending_buffer = None
    PROVE  ExchangeOK(mqtt_send_message(c), out)
<1>1. CASE c.msgQueue = <<>> \/ c.sending
  BY <1>1, SendSkips
<1>2. CASE c.msgQueue # <<>> /\ ~c.sending
  <2>. DEFINE d == mqtt_send_message(c)
              h == Head(c.msgQueue)
              w == c.wire
  <2>1. /\ d.wire = IF c.sock = "open" THEN Append(w, h) ELSE w
        /\ d.pending_buffer = IF needsAck(h) THEN h ELSE None
        /\ d.sock = c.sock
    BY <1>2, SendFields
  <2>2. w \in Seq(Message)
    BY ClientFields
  <2>. HIDE DEF d, h
  <2>. SUFFICES ASSUME c.sock = "open" PROVE ExchangeOK(d, out)
    BY <2>1 DEF ExchangeOK, d
  <2>3. NoneAwaits(w) /\ NoneAcks(out)
    BY NothingPending
  <2>4. d.wire = Append(w, h) /\ Len(Append(w, h)) = Len(w) + 1
    BY <2>1, <2>2
  <2>5. \A k \in 1..Len(d.wire) :
           \/ k \in 1..Len(w) /\ ~needsAck(d.wire[k])
           \/ k = Len(w) + 1 /\ d.wire[k] = h
    BY <2>2, <2>3, <2>4 DEF NoneAwaits
  <2>6. Asking(d, out)
    BY <2>1, <2>3, <2>5 DEF Asking
  <2>7. Answering(d, out)
    BY <2>3 DEF Answering, NoneAcks
  <2>. QED BY <2>6, <2>7 DEF ExchangeOK
<1>. QED
  BY <1>1, <1>2

LEMMA ExchangeTail ==
    ASSUME NEW c, NEW out \in Seq(Message), out # <<>>, ExchangeOK(c, out)
    PROVE  /\ ExchangeOK(c, Tail(out))
           /\ IsAck(Head(out)) /\ c.sock = "open" => NoneAwaits(c.wire) /\ NoneAcks(Tail(out))
<1>1. /\ \A k \in 1..Len(Tail(out)) : k + 1 \in 1..Len(out) /\ Tail(out)[k] = out[k + 1]
      /\ 1 \in 1..Len(out) /\ Head(out) = out[1]
  OBVIOUS
<1>2. NoneAcks(out) => NoneAcks(Tail(out))
  BY <1>1 DEF NoneAcks
<1>3. Asking(c, out) => Asking(c, Tail(out))
  BY <1>2 DEF Asking
<1>4. Answering(c, out) => Answering(c, Tail(out))
  <2>. SUFFICES ASSUME Answering(c, out), NEW k \in 1..Len(Tail(out)), IsAck(Tail(out)[k])
                PROVE  /\ needsAck(c.pending_buffer) /\ Answer(c.pending_buffer) = <<Tail(out)[k]>>
                       /\ \A j \in 1..Len(Tail(out)) : IsAck(Tail(out)[j]) => j = k
    BY DEF Answering
  <2>1. /\ needsAck(c.pending_buffer) /\ Answer(c.pending_buffer) = <<out[k + 1]>>
        /\ \A j \in 1..Len(out) : IsAck(out[j]) => j = k + 1
    BY <1>1 DEF Answering
  <2>2. ASSUME NEW j \in 1..Len(Tail(out)), IsAck(Tail(out)[j]) PROVE j = k
    <3>1. j + 1 = k + 1
      BY <1>1, <2>1, <2>2
    <3>. QED BY <3>1
  <2>. QED BY <1>1, <2>1, <2>2
<1>5. ASSUME IsAck(Head(out)), Asking(c, out), Answering(c, out)
      PROVE  NoneAwaits(c.wire) /\ NoneAcks(Tail(out))
  <2>1. \A j \in 1..Len(out) : IsAck(out[j]) => j = 1
    BY <1>1, <1>5 DEF Answering
  <2>2. NoneAcks(Tail(out))
    BY <1>1, <2>1 DEF NoneAcks
  <2>3. NoneAwaits(c.wire)
    BY <1>1, <1>5 DEF Asking, NoneAcks, NoneAwaits
  <2>. QED BY <2>2, <2>3
<1>. QED
  BY <1>3, <1>4, <1>5 DEF ExchangeOK

LEMMA PendingAlike ==
    ASSUME NEW c, NEW d, PendingOK(c), d.pending_buffer = c.pending_buffer,
           d.connState = c.connState, d.keepAliveTick = c.keepAliveTick,
           d.timeoutTick = c.timeoutTick
    PROVE  PendingOK(d)
BY DEF PendingOK

LEMMA PendingSend ==
    ASSUME Steady, NEW c \in Client, c.pending_buffer = None, c.connState = "MQTT_CONNECTED"
    PROVE  PendingOK(mqtt_send_message(c))
<1>1. CASE c.msgQueue = <<>> \/ c.sending
  BY <1>1, SendSkips DEF PendingOK
<1>2. CASE c.msgQueue # <<>> /\ ~c.sending
  <2>. DEFINE d == mqtt_send_message(c)
              h == Head(c.msgQueue)
  <2>1. /\ d.pending_buffer = IF needsAck(h) THEN h ELSE None
        /\ needsAck(h) => d.timeoutTick = (SendTimeout + 1) % 256
        /\ d.keepAliveTick = IF KeepAlive > 0 THEN (KeepAlive + 1) % 256 ELSE 0
        /\ d.connState = c.connState
    BY <1>2, SendFields
  <2>. HIDE DEF d, h
  <2>2. \/ KeepAlive = 0 \/ KeepAlive = 255
        \/ /\ (SendTimeout + 1) % 256 = SendTimeout + 1
           /\ (KeepAlive + 1) % 256 = KeepAlive + 1
           /\ 1 <= SendTimeout + 1 /\ SendTimeout + 1 <= KeepAlive + 1
    BY MqttAssumption DEF Steady
  <2>3. needsAck(h) => \/ d.keepAliveTick = 0
                       \/ 1 <= d.timeoutTick /\ d.timeoutTick <= d.keepAliveTick
    BY <2>1, <2>2, MqttAssumption
  <2>4. PendingOK(d)
    BY <2>1, <2>3 DEF PendingOK
  <2>. QED BY <2>4 DEF d
<1>. QED
  BY <1>1, <1>2

\* What the invariant says of a client and of what the broker has sent it.
SteadyOK(c, out) == PendingOK(c) /\ ExchangeOK(c, out)

LEMMA SteadyAlike ==
    ASSUME NEW c, NEW d, NEW out, Alike(d, c), SteadyOK(c, out)
    PROVE  SteadyOK(d, out) /\ Keeps(d, c)
BY PendingAlike, AlikeKeeps DEF Alike, SteadyOK, ExchangeOK, Asking, Answering

LEMMA SteadySend ==
    ASSUME Steady, NEW c \in Client, NEW out, SteadyOK(c, out),
           c.pending_buffer = None, c.connState = "MQTT_CONNECTED"
    PROVE  SteadyOK(mqtt_send_message(c), out) /\ Keeps(mqtt_send_message(c), c)
BY PendingSend, ExchangeSend, SendHolds DEF SteadyOK

LEMMA SteadyPush ==
    ASSUME NEW c \in Client, NEW out, SteadyOK(c, out), NEW m \in Message
    PROVE  /\ Push(c, m) \in Client /\ SteadyOK(Push(c, m), out)
           /\ Push(c, m).connState = c.connState /\ Push(c, m).sock = c.sock
           /\ Push(c, m).pending_buffer = c.pending_buffer
<1>. DEFINE d == Push(c, m)
<1>1. d \in Client
  BY QueueType
<1>2. /\ d.wire = c.wire /\ d.pending_buffer = c.pending_buffer
      /\ d.keepAliveTick = c.keepAliveTick /\ d.timeoutTick = c.timeoutTick
      /\ d.sock = c.sock /\ d.connState = c.connState
  BY PushFields
<1>. HIDE DEF d
<1>3. SteadyOK(d, out)
  BY <1>2, PendingAlike DEF SteadyOK, ExchangeOK, Asking, Answering
<1>. QED
  BY <1>1, <1>2, <1>3 DEF d

LEMMA KeepsOn ==
    ASSUME NEW a, NEW b, NEW c, Keeps(a, b), Keeps(b, c)
    PROVE  Keeps(a, c)
BY DEF Keeps

LEMMA SteadyEnqueue ==
    ASSUME Steady, NEW c \in Client, NEW out, SteadyOK(c, out),
           c.connState = "MQTT_CONNECTED", NEW m \in Message
    PROVE  /\ SteadyOK(mqtt_enq_message(c, m), out)
           /\ Keeps(mqtt_enq_message(c, m), c)
           /\ \A i : Kept(m, i) => Holds(mqtt_enq_message(c, m), i)
<1>. DEFINE p == Push(c, m)
            d == mqtt_enq_message(c, m)
<1>1. p \in Client /\ SteadyOK(p, out) /\ p.connState = "MQTT_CONNECTED"
  BY SteadyPush
<1>2. Keeps(p, c) /\ \A i : Kept(m, i) => Holds(p, i)
  BY PushHolds
<1>3. d = IF MaySend(p) THEN mqtt_send_message(p) ELSE p
  BY DEF mqtt_enq_message
<1>. HIDE DEF p, d
<1>4. SteadyOK(d, out) /\ Keeps(d, p)
  <2>1. MaySend(p) => SteadyOK(mqtt_send_message(p), out) /\ Keeps(mqtt_send_message(p), p)
    BY <1>1, SteadySend DEF MaySend
  <2>2. Keeps(p, p)
    BY AlikeKeeps
  <2>. QED BY <1>1, <1>3, <2>1, <2>2
<1>5. SteadyOK(d, out) /\ Keeps(d, c) /\ \A i : Kept(m, i) => Holds(d, i)
  BY <1>2, <1>4 DEF Keeps
<1>. QED
  BY <1>5 DEF d

\* Freed, the pending message being the one acknowledged by the head of out.
LEMMA SteadyFree ==
    ASSUME NEW c \in Client, NEW out \in Seq(Message), out # <<>>, SteadyOK(c, out),
           c.sock = "open", IsAck(Head(out))
    PROVE  /\ SteadyOK(Free(c), Tail(out)) /\ Free(c) \in Client
           /\ Free(c).connState = c.connState
           /\ \A i : Holds(c, i) => Kept(c.pending_buffer, i) \/ Holds(Free(c), i)
<1>. DEFINE d == Free(c)
<1>1. /\ d \in Client /\ d.msgQueue = c.msgQueue /\ d.pending_buffer = None
      /\ d.wire = c.wire /\ d.connState = c.connState
  BY FreeFields
<1>. HIDE DEF d
<1>2. NoneAwaits(c.wire) /\ NoneAcks(Tail(out))
  BY ExchangeTail DEF SteadyOK
<1>3. SteadyOK(d, Tail(out))
  BY <1>1, <1>2, QuietExchange DEF SteadyOK, PendingOK
<1>4. \A i : Holds(c, i) => Kept(c.pending_buffer, i) \/ Holds(d, i)
  BY <1>1 DEF Holds
<1>. QED
  BY <1>1, <1>3, <1>4 DEF d

\* The head of out is handled: what it does not acknowledge is still held.
Sheds(d, c, ids) == \A i : Holds(c, i) => Holds(d, i) \/ i \in ids
AckIds(c, m) ==
    IF \/ m.type = "SUBACK" /\ Completes(c, "SUBSCRIBE", m)
       \/ m.type = "PUBACK" /\ Completes(c, "PUBLISH", m)
       \/ m.type = "PUBCOMP" /\ Completes(c, "PUBREL", m)
    THEN {m.id} ELSE {}

LEMMA SteadyHandle ==
    ASSUME Steady, NEW c \in Client, NEW out \in Seq(Message), out # <<>>, SteadyOK(c, out),
           c.sock = "open", c.connState = "MQTT_CONNECTED"
    PROVE  /\ SteadyOK(Handle(c, Head(out)), Tail(out))
           /\ Sheds(Handle(c, Head(out)), c, AckIds(c, Head(out)))
<1>. DEFINE m == Head(out)
            d == Handle(c, m)
            t == Tail(out)
<1>0. m \in Message /\ t \in Seq(Message) /\ SteadyOK(c, t)
  BY ExchangeTail DEF SteadyOK
<1>1. \A e : Keeps(e, c) => Sheds(e, c, AckIds(c, m))
  BY DEF Keeps, Sheds
<1>2. CASE d \in Client /\ Alike(d, c)
  <2>. HIDE DEF d, t, m
  <2>1. SteadyOK(d, t) /\ Keeps(d, c)
    BY <1>0, <1>2, SteadyAlike
  <2>. QED BY <1>1, <2>1 DEF d, t, m
<1>3. CASE /\ d = Free(c)
           /\ \/ m.type = "SUBACK" /\ Completes(c, "SUBSCRIBE", m)
              \/ m.type = "PUBACK" /\ Completes(c, "PUBLISH", m)
              \/ m.type = "PUBCOMP" /\ Completes(c, "PUBREL", m)
  <2>1. IsAck(m) /\ AckIds(c, m) = {m.id} /\ c.pending_buffer.id = m.id
    BY <1>3 DEF IsAck, AckIds, Completes
  <2>2. SteadyOK(d, t) /\ \A i : Holds(c, i) => Kept(c.pending_buffer, i) \/ Holds(d, i)
    BY <1>3, <2>1, SteadyFree
  <2>3. Sheds(d, c, AckIds(c, m))
    BY <2>1, <2>2 DEF Sheds, Kept
  <2>. QED BY <2>2, <2>3
<1>4. CASE d = mqtt_enq_message(Free(c), Msg("PUBREL", m.id)) /\ m.type = "PUBREC"
           /\ Completes(c, "PUBLISH", m)
  <2>. DEFINE f == Free(c)
              r == Msg("PUBREL", m.id)
  <2>1. IsAck(m) /\ c.pending_buffer.id = m.id
    BY <1>4 DEF IsAck, Completes
  <2>2. /\ SteadyOK(f, t) /\ f \in Client /\ f.connState = "MQTT_CONNECTED"
        /\ \A i : Holds(c, i) => Kept(c.pending_buffer, i) \/ Holds(f, i)
    BY <2>1, SteadyFree
  <2>3. r \in Message /\ \A i : Kept(c.pending_buffer, i) => Kept(r, i)
    <3>1. r \in Message
      BY <1>0, ReplyType DEF Replies
    <3>. QED BY <2>1, <3>1 DEF Kept, Msg, needsAck
  <2>. HIDE DEF f, r, d, t, m
  <2>4. SteadyOK(d, t) /\ Keeps(d, f) /\ \A i : Kept(r, i) => Holds(d, i)
    BY <1>4, <2>2, <2>3, SteadyEnqueue DEF f, r
  <2>5. Sheds(d, c, AckIds(c, m))
    BY <2>2, <2>3, <2>4 DEF Sheds, Keeps
  <2>. QED BY <2>4, <2>5 DEF d, t, m
<1>5. CASE d = mqtt_enq_message(Free(c), Msg("PUBCOMP", m.id)) /\ m.type = "PUBREL"
           /\ Completes(c, "PUBREC", m)
  <2>. DEFINE f == Free(c)
              r == Msg("PUBCOMP", m.id)
  <2>1. IsAck(m) /\ \A i : ~Kept(c.pending_buffer, i)
    BY <1>5 DEF IsAck, Completes, Kept
  <2>2. /\ SteadyOK(f, t) /\ f \in Client /\ f.connState = "MQTT_CONNECTED"
        /\ \A i : Holds(c, i) => Kept(c.pending_buffer, i) \/ Holds(f, i)
    BY <2>1, SteadyFree
  <2>3. r \in Message
    BY <1>0, ReplyType DEF Replies
  <2>. HIDE DEF f, r, d, t, m
  <2>4. SteadyOK(d, t) /\ Keeps(d, f)
    BY <1>5, <2>2, <2>3, SteadyEnqueue DEF f, r
  <2>5. Sheds(d, c, AckIds(c, m))
    BY <2>1, <2>2, <2>4 DEF Sheds, Keeps, m
  <2>. QED BY <2>4, <2>5 DEF d, t, m
<1>6. CASE \E k \in {"PUBACK", "PUBREC"} : d = mqtt_enq_message(c, Msg(k, m.id))
  <2>0. PICK k \in {"PUBACK", "PUBREC"} : d = mqtt_enq_message(c, Msg(k, m.id))
    BY <1>6
  <2>1. Msg(k, m.id) \in Message
    BY <1>0, ReplyType DEF Replies
  <2>. HIDE DEF d, t, m
  <2>2. SteadyOK(d, t) /\ Keeps(d, c)
    BY <1>0, <2>0, <2>1, SteadyEnqueue
  <2>3. Sheds(d, c, AckIds(c, m))
    BY <2>2 DEF Keeps, Sheds
  <2>. QED BY <2>2, <2>3 DEF d, t, m
<1>7. \/ d \in Client /\ Alike(d, c)
      \/ /\ d = Free(c)
         /\ \/ m.type = "SUBACK" /\ Completes(c, "SUBSCRIBE", m)
            \/ m.type = "PUBACK" /\ Completes(c, "PUBLISH", m)
            \/ m.type = "PUBCOMP" /\ Completes(c, "PUBREL", m)
      \/ d = mqtt_enq_message(Free(c), Msg("PUBREL", m.id)) /\ m.type = "PUBREC"
         /\ Completes(c, "PUBLISH", m)
      \/ d = mqtt_enq_message(Free(c), Msg("PUBCOMP", m.id)) /\ m.type = "PUBREL"
         /\ Completes(c, "PUBREC", m)
      \/ \E k \in {"PUBACK", "PUBREC"} : d = mqtt_enq_message(c, Msg(k, m.id))
  <2>. HIDE DEF m
  <2>. QED BY <1>0, HandleCases
<1>. QED
  BY <1>2, <1>3, <1>4, <1>5, <1>6, <1>7

LEMMA SteadyReceive ==
    ASSUME Steady, NEW c \in Client, SocketOK(c), NEW out \in Seq(Message), out # <<>>,
           SteadyOK(c, out), NEW d \in Receive(c, Head(out))
    PROVE  /\ SteadyOK(d, Tail(out)) /\ Sheds(d, c, Acknowledged(c, Head(out)))
<1>. DEFINE m == Head(out)
            t == Tail(out)
<1>0. m \in Message /\ t \in Seq(Message) /\ SteadyOK(c, t)
      /\ (c.sock = "open" => c.connState = "MQTT_CONNECTED")
  BY ExchangeTail DEF SteadyOK, SocketOK
<1>1. CASE d \in Client /\ Alike(d, c)
  <2>1. SteadyOK(d, t) /\ Keeps(d, c)
    BY <1>0, <1>1, SteadyAlike
  <2>. QED BY <2>1 DEF Keeps, Sheds
<1>2. ASSUME NEW e \in Client, Alike(e, c), d = mqtt_doAbort(e)
      PROVE  SteadyOK(d, t) /\ Sheds(d, c, Acknowledged(c, m))
  <2>1. SteadyOK(e, t) /\ Keeps(e, c)
    BY <1>0, <1>2, SteadyAlike
  <2>2. /\ d.msgQueue = e.msgQueue /\ d.pending_buffer = e.pending_buffer
        /\ d.sock = "none" /\ d.connState = "TCP_RECONNECT_REQ"
    BY <1>2, AbortFields
  <2>3. Keeps(d, c)
    BY <2>1, <2>2, AlikeKeeps, KeepsOn
  <2>4. SteadyOK(d, t)
    BY <2>1, <2>2 DEF SteadyOK, PendingOK, ExchangeOK
  <2>. QED BY <2>3, <2>4 DEF Keeps, Sheds
<1>3. ASSUME NEW e \in Client, Alike(e, c), d = Handle(e, m),
             c.sock = "open", c.in_buffer \in {"empty", "part"}
      PROVE  SteadyOK(d, t) /\ Sheds(d, c, Acknowledged(c, m))
  <2>1. SteadyOK(e, out) /\ Keeps(e, c) /\ e.sock = "open" /\ e.connState = "MQTT_CONNECTED"
    BY <1>0, <1>3, SteadyAlike DEF Alike
  <2>2. SteadyOK(d, t) /\ Sheds(d, e, AckIds(e, m))
    BY <1>3, <2>1, SteadyHandle
  <2>3. AckIds(e, m) = Acknowledged(c, m)
    BY <1>3 DEF AckIds, Acknowledged, Alike, Completes
  <2>. QED BY <2>1, <2>2, <2>3 DEF Keeps, Sheds
<1>. QED
  BY <1>0, <1>1, <1>2, <1>3, ReceiveCases

LEMMA SteadyGives ==
    ASSUME SteadyInv
    PROVE  /\ OnlineInv /\ Inv /\ client \in Client /\ ClientOK(client)
           /\ SteadyOK(client, broker.out) /\ PendingOK(client) /\ RetainedOK
           /\ broker \in [up : BOOLEAN, closing : BOOLEAN, out : Seq(Message)]
           /\ client.sock = "open" <=> client.connState = "MQTT_CONNECTED"
           /\ client.sock = "connecting" => client.pending_buffer = None
<1>1. OnlineInv /\ Inv /\ ClientOK(client) /\ SteadyOK(client, broker.out)
  BY InvParts DEF SteadyInv, OnlineInv, SteadyOK
<1>2. client.sock = "connecting" => client.connState = "TCP_CONNECTING"
  BY <1>1, InvGives DEF SocketOK
<1>. QED
  BY <1>1, <1>2, OnlineGives DEF SteadyInv, PendingOK

LEMMA SteadyNext ==
    ASSUME Steady, NEW c, ClientOK(c), NEW out, SteadyOK(c, out)
    PROVE  SteadyOK(SendNext(c), out) /\ Keeps(SendNext(c), c)
<1>1. c \in Client /\ (c.sock = "open" => c.connState = "MQTT_CONNECTED")
  BY DEF ClientOK, SocketOK
<1>2. Keeps(c, c)
  BY AlikeKeeps
<1>. QED
  BY <1>1, <1>2, SteadySend DEF SendNext, MaySend

LEMMA SteadyReceived ==
    ASSUME Steady, SteadyInv, mqtt_tcpclient_recv
    PROVE  SteadyOK(client', broker'.out) /\ RetainedOK'
<1>. DEFINE out == broker.out
            m == Head(out)
            n == out[2]
<1>0. /\ ClientOK(client) /\ SteadyOK(client, out) /\ out \in Seq(Message) /\ out # <<>>
      /\ RetainedOK /\ client.sock = "open"
  BY SteadyGives DEF mqtt_tcpclient_recv
<1>1. /\ m \in Message /\ Tail(out) \in Seq(Message)
      /\ Len(out) > 1 => n \in Message /\ Tail(out) # <<>> /\ Head(Tail(out)) = n
  <2>. HIDE DEF out
  <2>1. m \in Message /\ Tail(out) \in Seq(Message)
    BY <1>0
  <2>2. ASSUME Len(out) > 1 PROVE n \in Message /\ Tail(out) # <<>> /\ Head(Tail(out)) = n
    <3>1. 2 \in 1..Len(out) /\ Len(Tail(out)) = Len(out) - 1 /\ Tail(out)[1] = out[2]
      BY <1>0, <2>2
    <3>2. Tail(out) # <<>>
      <4>1. Len(Tail(out)) # 0
        BY <1>0, <2>2, <3>1
      <4>2. Len(<<>>) = 0
        OBVIOUS
      <4>. HIDE DEF out
      <4>. QED BY <4>1, <4>2
    <3>3. n \in Message
      BY <1>0, <3>1
    <3>4. Head(Tail(out)) = Tail(out)[1]
      BY <2>1, <3>2
    <3>. QED BY <3>1, <3>2, <3>3, <3>4
  <2>. QED BY <2>1, <2>2
<1>2. ASSUME NEW c, ClientOK(c), NEW s \in Seq(Message), s # <<>>, SteadyOK(c, s),
             NEW d \in Receive(c, Head(s))
      PROVE  ClientOK(d) /\ SteadyOK(d, Tail(s)) /\ Sheds(d, c, Acknowledged(c, Head(s)))
  <2>1. c \in Client /\ SocketOK(c) /\ Head(s) \in Message
    BY <1>2 DEF ClientOK
  <2>2. ClientOK(d)
    BY <1>2, <2>1, ReceiveKeeps
  <2>. QED BY <1>2, <2>1, <2>2, SteadyReceive
<1>3. PICK c1 \in Receive(client, m) :
         \/ /\ client' = SendNext(c1) /\ done' = done \cup Acknowledged(client, m)
            /\ broker'.out = Tail(out)
         \/ /\ Len(out) > 1
            /\ \E c2 \in Receive(c1, n) :
                  /\ client' = SendNext(c2)
                  /\ done' = done \cup Acknowledged(client, m) \cup Acknowledged(c1, n)
            /\ broker'.out = Tail(Tail(out))
  BY SteadyGives DEF mqtt_tcpclient_recv
<1>4. accepted' = accepted
  BY DEF mqtt_tcpclient_recv
<1>. HIDE DEF out, m, n
<1>5. ClientOK(c1) /\ SteadyOK(c1, Tail(out)) /\ Sheds(c1, client, Acknowledged(client, m))
  BY <1>0, <1>2 DEF m
<1>6. CASE /\ client' = SendNext(c1) /\ done' = done \cup Acknowledged(client, m)
           /\ broker'.out = Tail(out)
  <2>1. SteadyOK(client', broker'.out) /\ Keeps(client', c1)
    BY <1>5, <1>6, SteadyNext
  <2>2. RetainedOK'
    BY <1>0, <1>4, <1>5, <1>6, <2>1 DEF RetainedOK, Sheds, Keeps
  <2>. QED BY <2>1, <2>2
<1>7. ASSUME Len(out) > 1, NEW c2 \in Receive(c1, n), client' = SendNext(c2),
             done' = done \cup Acknowledged(client, m) \cup Acknowledged(c1, n),
             broker'.out = Tail(Tail(out))
      PROVE  SteadyOK(client', broker'.out) /\ RetainedOK'
  <2>1. /\ ClientOK(c2) /\ SteadyOK(c2, Tail(Tail(out)))
        /\ Sheds(c2, c1, Acknowledged(c1, n))
    BY <1>1, <1>2, <1>5, <1>7
  <2>2. SteadyOK(client', broker'.out) /\ Keeps(client', c2)
    BY <1>7, <2>1, SteadyNext
  <2>3. RetainedOK'
    BY <1>0, <1>4, <1>5, <1>7, <2>1, <2>2 DEF RetainedOK, Sheds, Keeps
  <2>. QED BY <2>2, <2>3
<1>. QED
  BY <1>3, <1>6, <1>7

\* A step that loses nothing, acknowledges nothing and takes nothing new.
LEMMA RetainedStep ==
    ASSUME RetainedOK, Keeps(client', client), accepted' \ done' \subseteq accepted \ done
    PROVE  RetainedOK'
BY DEF RetainedOK, Keeps

LEMMA SteadyTimer ==
    ASSUME Steady, SteadyInv, mqtt_timer
    PROVE  SteadyOK(client', broker'.out) /\ RetainedOK'
<1>0. /\ OnlineInv /\ Inv /\ client \in Client /\ SteadyOK(client, broker.out)
      /\ PendingOK(client) /\ RetainedOK
      /\ client.sock = "open" <=> client.connState = "MQTT_CONNECTED"
      /\ broker \in [up : BOOLEAN, closing : BOOLEAN, out : Seq(Message)]
  BY SteadyGives
<1>. SUFFICES PendingOK(client') /\ ExchangeOK(client', broker.out) /\ Keeps(client', client)
  <2>1. ExchangeOK(client', broker.out) => ExchangeOK(client', broker'.out)
    BY DEF mqtt_timer, BrokerSees, ExchangeOK
  <2>2. accepted' = accepted /\ done' = done
    BY DEF mqtt_timer
  <2>. QED BY <1>0, <2>1, <2>2, RetainedStep DEF SteadyOK
<1>1. CASE ConnectedTick /\ (AckOverdue \/ PingOverdue)
  <2>1. GivenUp(client', client) /\ client.connState = "MQTT_CONNECTED"
    BY <1>0, <1>1, LostMoves DEF ConnectedTick
  <2>. QED
    BY <1>0, <2>1, AlikeKeeps DEF GivenUp, PendingOK, ExchangeOK
<1>2. CASE ConnectedTick /\ ~(AckOverdue \/ PingOverdue)
  <2>. DEFINE c == Count(client)
  <2>1. /\ client' = IF client.keepAliveTick = 1 THEN Ping(c) ELSE c
        /\ client.connState = "MQTT_CONNECTED"
        /\ client.pending_buffer = None \/ client.timeoutTick # 1
    BY <1>2 DEF ConnectedTick, AckOverdue
  <2>2. c \in Client /\ Counted(c, client)
    BY <1>0, CountFields
  <2>. HIDE DEF c
  <2>7. /\ client.timeoutTick \in 0..255 /\ client.keepAliveTick \in 0..255
        /\ client.pending_buffer # None =>
              \/ client.keepAliveTick = 0
              \/ 1 <= client.timeoutTick /\ client.timeoutTick <= client.keepAliveTick
    <3>1. client.timeoutTick \in 0..255 /\ client.keepAliveTick \in 0..255
      BY <1>0, ClientFields
    <3>2. PendingOK(client) /\ client.connState = "MQTT_CONNECTED"
      BY <1>0, <2>1
    <3>. QED BY <3>1, <3>2 DEF PendingOK
  <2>3. PendingOK(c)
    <3>. DEFINE a == client.timeoutTick
                k == client.keepAliveTick
    <3>1. /\ c.keepAliveTick = IF k > 0 THEN k - 1 ELSE 0
          /\ client.pending_buffer # None => c.timeoutTick = (a + 255) % 256
      BY <2>2 DEF Counted
    <3>2. client.pending_buffer # None =>
             \/ c.keepAliveTick = 0
             \/ 1 <= c.timeoutTick /\ c.timeoutTick <= c.keepAliveTick
      <4>1. a \in 0..255 /\ k \in 0..255
        BY <2>7
      <4>2. ASSUME client.pending_buffer # None
            PROVE  k = 0 \/ (a # 1 /\ 1 <= a /\ a <= k)
        BY <2>1, <2>7, <4>2
      <4>. HIDE DEF a, k
      <4>3. a # 1 /\ 1 <= a /\ a <= k => (a + 255) % 256 = a - 1
        BY <4>1
      <4>. QED BY <3>1, <4>1, <4>2, <4>3
    <3>3. c.pending_buffer = client.pending_buffer /\ c.connState = client.connState
      BY <2>2 DEF Counted
    <3>. QED BY <1>0, <2>1, <3>2, <3>3 DEF PendingOK
  <2>4. ExchangeOK(c, broker.out) /\ Keeps(c, client)
    BY <1>0, <2>2, AlikeKeeps DEF Counted, SteadyOK, ExchangeOK, Asking, Answering
  <2>5. CASE client.keepAliveTick # 1
    BY <2>1, <2>3, <2>4, <2>5
  <2>6. CASE client.keepAliveTick = 1
    <3>1. client.pending_buffer = None
      BY <2>1, <2>6, <2>7
    <3>2. PICK u \in Client : Pinged(Ping(c), u, c)
      BY <2>2, PingFields
    <3>3. /\ u.msgQueue = <<Msg("PINGREQ", 0)>> \o c.msgQueue /\ u.pending_buffer = None
          /\ u.wire = c.wire /\ u.sock = c.sock /\ u.connState = "MQTT_CONNECTED"
      BY <2>1, <2>2, <3>1, <3>2 DEF Pinged, Counted
    <3>4. Msg("PINGREQ", 0) \in Message
      BY MsgType DEF Types
    <3>5. Keeps(u, c)
      BY <2>2, <3>2, <3>4, UnshiftHolds DEF Pinged
    <3>6. SteadyOK(u, broker.out)
      <4>1. c.pending_buffer = None
        BY <2>2, <3>1 DEF Counted
      <4>. QED BY <2>4, <3>3, <4>1 DEF SteadyOK, PendingOK, ExchangeOK, Asking, Answering
    <3>. DEFINE s == mqtt_send_message(u)
    <3>7. SteadyOK(s, broker.out) /\ Keeps(s, u)
      BY <3>3, <3>6, SteadySend
    <3>8. s.connState = u.connState /\ (s.pending_buffer # None => s.pending_buffer = Head(u.msgQueue))
      <4>1. CASE u.msgQueue = <<>> \/ u.sending
        BY <3>3, <4>1, SendSkips
      <4>2. CASE u.msgQueue # <<>> /\ ~u.sending
        BY <4>2, SendFields
      <4>. QED BY <4>1, <4>2
    <3>9. s.pending_buffer = None
      <4>1. Head(u.msgQueue) = Msg("PINGREQ", 0) /\ u.msgQueue # <<>>
        <5>1. c.msgQueue \in Seq(Message)
          BY <2>2, ClientFields
        <5>. QED BY <3>3, <3>4, <5>1
      <4>2. ~needsAck(Msg("PINGREQ", 0))
        BY DEF needsAck, Msg
      <4>3. CASE u.sending
        BY <3>3, <4>3, SendSkips
      <4>4. CASE ~u.sending
        BY <4>1, <4>2, <4>4, SendFields
      <4>. QED BY <4>3, <4>4
    <3>. DEFINE d == Ping(c)
    <3>10. /\ d.msgQueue = s.msgQueue /\ d.pending_buffer = s.pending_buffer
           /\ d.wire = s.wire /\ d.sock = s.sock /\ d.connState = s.connState
      BY <3>2 DEF Pinged
    <3>11. client' = d
      BY <2>1, <2>6
    <3>. HIDE DEF s, d
    <3>12. PendingOK(d)
      BY <3>3, <3>8, <3>9, <3>10 DEF PendingOK
    <3>13. ExchangeOK(d, broker.out)
      BY <3>7, <3>10 DEF SteadyOK, ExchangeOK, Asking, Answering
    <3>14. Keeps(d, client)
      BY <2>4, <3>5, <3>7, <3>10 DEF Keeps, Holds
    <3>. QED BY <3>11, <3>12, <3>13, <3>14
  <2>. QED BY <2>5, <2>6
<1>3. CASE ReconnectTick
  <2>0. client.connState = "TCP_RECONNECT_REQ"
    BY <1>3 DEF ReconnectTick
  <2>1. CASE /\ client'.msgQueue = client.msgQueue /\ client'.wire = client.wire
             /\ client'.pending_buffer = client.pending_buffer
             /\ client'.sock = client.sock /\ client'.connState = client.connState
    <3>1. PendingOK(client')
      BY <1>0, <2>0, <2>1 DEF PendingOK
    <3>2. ExchangeOK(client', broker.out)
      BY <1>0, <2>1 DEF SteadyOK, ExchangeOK, Asking, Answering
    <3>. QED BY <2>1, <3>1, <3>2, AlikeKeeps
  <2>2. ASSUME NEW c \in Client, Requeued(c, client), Attempted(client', c)
        PROVE  PendingOK(client') /\ ExchangeOK(client', broker.out) /\ Keeps(client', client)
    <3>1. Keeps(c, client)
      <4>1. CASE client.pending_buffer = None
        BY <2>2, <4>1, AlikeKeeps DEF Requeued
      <4>2. CASE client.pending_buffer # None
        <5>1. client.pending_buffer \in Message /\ c.msgQueue = <<client.pending_buffer>> \o client.msgQueue
          BY <1>0, <2>2, <4>2, ClientFields DEF Requeued
        <5>. QED BY <1>0, <5>1, UnshiftHolds
      <4>. QED BY <4>1, <4>2
    <3>2. Keeps(client', c)
      BY <2>2, AlikeKeeps DEF Attempted
    <3>3. client'.pending_buffer = None /\ client'.sock # "open"
      BY <2>2 DEF Attempted, Requeued
    <3>4. PendingOK(client') /\ ExchangeOK(client', broker.out)
      BY <3>3 DEF PendingOK, ExchangeOK
    <3>. QED BY <3>1, <3>2, <3>4, KeepsOn
  <2>. QED BY <1>0, <1>3, <2>1, <2>2, ReconnectMoves
<1>. QED
  BY <1>1, <1>2, <1>3 DEF mqtt_timer

-----------------------------------------------------------------------------
(* What the broker adds to the exchange *)

LEMMA Concatenated ==
    ASSUME NEW out \in Seq(Message), NEW s \in Seq(Message), NEW k \in 1..Len(out \o s)
    PROVE  \/ k \in 1..Len(out) /\ (out \o s)[k] = out[k]
           \/ k \notin 1..Len(out) /\ k - Len(out) \in 1..Len(s) /\ (out \o s)[k] = s[k - Len(out)]
OBVIOUS

LEMMA QuietAnswer ==
    ASSUME NEW c, NEW out \in Seq(Message), ExchangeOK(c, out),
           NEW s \in Seq(Message), NoneAcks(s)
    PROVE  ExchangeOK(c, out \o s)
<1>1. \A k \in 1..Len(out \o s) :
         IsAck((out \o s)[k]) => k \in 1..Len(out) /\ (out \o s)[k] = out[k]
  BY Concatenated DEF NoneAcks
<1>2. NoneAcks(out) => NoneAcks(out \o s)
  BY <1>1 DEF NoneAcks
<1>3. Asking(c, out) => Asking(c, out \o s)
  BY <1>2 DEF Asking
<1>4. Answering(c, out) => Answering(c, out \o s)
  BY <1>1 DEF Answering
<1>. QED
  BY <1>3, <1>4 DEF ExchangeOK

LEMMA AnswerCases ==
    ASSUME NEW m \in Message
    PROVE  /\ Answer(m) \in Seq(Message)
           /\ needsAck(m) => \E a \in Message : Answer(m) = <<a>>
           /\ ~needsAck(m) => NoneAcks(Answer(m))
<1>1. m.id \in Nat /\ m.qos \in 0..2
  BY DEF Message
<1>2. \A t \in Types, i \in Nat : Msg(t, i) \in Message /\ Msg(t, i).type = t
  BY DEF Msg, Message
<1>3. \A a \in Message : /\ <<a>> \in Seq(Message)
                         /\ ~IsAck(a) => NoneAcks(<<a>>)
  BY DEF NoneAcks
<1>4. <<>> \in Seq(Message) /\ NoneAcks(<<>>)
  BY DEF NoneAcks
<1>5. /\ Msg("CONNACK", 0) \in Message /\ ~IsAck(Msg("CONNACK", 0))
      /\ Msg("PINGRESP", 0) \in Message /\ ~IsAck(Msg("PINGRESP", 0))
      /\ \A t \in {"PUBACK", "PUBREC", "PUBCOMP", "PUBREL", "SUBACK"} : Msg(t, m.id) \in Message
  BY <1>1, <1>2 DEF IsAck, Types
<1>6. \/ needsAck(m) /\ \E t \in {"PUBACK", "PUBREC", "PUBCOMP", "PUBREL", "SUBACK"} :
                           Answer(m) = <<Msg(t, m.id)>>
      \/ ~needsAck(m) /\ Answer(m) \in {<<Msg("CONNACK", 0)>>, <<Msg("PINGRESP", 0)>>, <<>>}
  BY <1>1 DEF Answer, needsAck
<1>. QED
  BY <1>3, <1>4, <1>5, <1>6

\* The broker reads the head of the wire and answers it.
LEMMA AskedAnswers ==
    ASSUME NEW c \in Client, c.sock = "open", c.wire # <<>>, NEW out \in Seq(Message),
           ExchangeOK(c, out), NEW d, d.wire = Tail(c.wire),
           d.pending_buffer = c.pending_buffer, d.sock = c.sock
    PROVE  ExchangeOK(d, out \o Answer(Head(c.wire)))
<1>. DEFINE w == c.wire
            m == Head(w)
            s == Answer(m)
<1>1. /\ w \in Seq(Message) /\ m \in Message /\ m = w[1] /\ 1 \in 1..Len(w)
      /\ \A k \in 1..Len(d.wire) : k + 1 \in 1..Len(w) /\ d.wire[k] = w[k + 1] /\ k \in Nat
  BY ClientFields
<1>2. Asking(c, out) /\ Answering(c, out)
  BY DEF ExchangeOK
<1>3. ExchangeOK(d, out)
  <2>. SUFFICES ASSUME NEW k \in 1..Len(d.wire), needsAck(d.wire[k])
                PROVE  /\ d.wire[k] = d.pending_buffer
                       /\ \A j \in 1..Len(d.wire) : needsAck(d.wire[j]) => j = k
                       /\ NoneAcks(out)
    BY <1>2 DEF ExchangeOK, Asking, Answering
  <2>1. /\ w[k + 1] = c.pending_buffer /\ NoneAcks(out)
        /\ \A j \in 1..Len(w) : needsAck(w[j]) => j = k + 1
    BY <1>1, <1>2 DEF Asking
  <2>2. ASSUME NEW j \in 1..Len(d.wire), needsAck(d.wire[j]) PROVE j = k
    <3>1. j + 1 = k + 1
      BY <1>1, <2>1, <2>2
    <3>. QED BY <3>1
  <2>. QED BY <1>1, <2>1, <2>2
<1>. HIDE DEF w, m
<1>4. CASE ~needsAck(m)
  BY <1>1, <1>3, <1>4, AnswerCases, QuietAnswer DEF m, w
<1>5. CASE needsAck(m)
  <2>1. /\ m = c.pending_buffer /\ NoneAcks(out)
        /\ \A j \in 1..Len(w) : needsAck(w[j]) => j = 1
    BY <1>1, <1>2, <1>5 DEF Asking, w
  <2>2. NoneAwaits(d.wire)
    BY <1>1, <2>1 DEF NoneAwaits
  <2>3. PICK a \in Message : s = <<a>>
    BY <1>1, <1>5, AnswerCases
  <2>4. \A k \in 1..Len(out \o s) : IsAck((out \o s)[k]) => k = Len(out) + 1 /\ (out \o s)[k] = a
    <3>. HIDE DEF s
    <3>. SUFFICES ASSUME NEW k \in 1..Len(out \o s), IsAck((out \o s)[k])
                  PROVE  k = Len(out) + 1 /\ (out \o s)[k] = a
      OBVIOUS
    <3>1. s \in Seq(Message) /\ Len(s) = 1 /\ s[1] = a
      BY <2>3
    <3>2. k - Len(out) \in 1..Len(s) /\ (out \o s)[k] = s[k - Len(out)]
      BY <2>1, <3>1, Concatenated DEF NoneAcks
    <3>3. k - Len(out) = 1
      BY <3>1, <3>2
    <3>. QED BY <3>1, <3>2, <3>3
  <2>5. Answering(d, out \o s)
    BY <1>5, <2>1, <2>3, <2>4 DEF Answering
  <2>6. Asking(d, out \o s)
    BY <2>2 DEF Asking, NoneAwaits
  <2>. QED BY <2>5, <2>6 DEF ExchangeOK, m, w
<1>. QED
  BY <1>4, <1>5

-----------------------------------------------------------------------------
(* Nothing is forgotten *)

\* A step after which the broker looks whether the connection is still there.
LEMMA SeesExchange ==
    ASSUME BrokerSees, client'.sock = "open" => ExchangeOK(client', broker.out)
    PROVE  ExchangeOK(client', broker'.out)
BY DEF BrokerSees, ExchangeOK

\* The application gives the message m, which must be delivered unless it is not Kept.
LEMMA SteadyGiven ==
    ASSUME Steady, SteadyInv, NEW m \in Message, client.connState = "MQTT_CONNECTED",
           client' = mqtt_enq_message(client, m), UNCHANGED <<broker, done>>,
           accepted' \subseteq accepted \cup {i \in {m.id} : Kept(m, i)}
    PROVE  SteadyOK(client', broker'.out) /\ RetainedOK'
<1>1. /\ SteadyOK(client', broker.out) /\ Keeps(client', client)
      /\ \A i : Kept(m, i) => Holds(client', i)
  BY SteadyGives, SteadyEnqueue
<1>2. RetainedOK'
  BY <1>1, SteadyGives DEF RetainedOK, Keeps
<1>. QED
  BY <1>1, <1>2

LEMMA SteadyBegins ==
    ASSUME Steady, SteadyInv, mqtt_tcpclient_connect_cb
    PROVE  SteadyOK(client', broker'.out) /\ RetainedOK'
<1>. DEFINE m == Msg("CONNECT", 0)
<1>0. /\ Inv /\ client \in Client /\ RetainedOK /\ client.sock = "connecting"
      /\ client.pending_buffer = None
  BY SteadyGives DEF mqtt_tcpclient_connect_cb
<1>1. client.wire = <<>> /\ ~client.sending /\ broker.out = <<>>
  BY <1>0, SteadyGives DEF OnlineInv, OnlineOK, SentOK, CarriesOK, SessionOK
<1>2. PICK u \in Client : Begun(client', u, client)
  BY <1>0, BeginMoves
<1>3. m \in Message /\ ~needsAck(m) /\ client.msgQueue \in Seq(Message)
  BY <1>0, ClientFields, MsgType DEF Types, Msg, needsAck
<1>. DEFINE s == mqtt_send_message(u)
<1>4. /\ u.msgQueue = <<m>> \o client.msgQueue /\ u.pending_buffer = None /\ u.wire = <<>>
      /\ ~u.sending /\ u.sock = "open"
      /\ client'.msgQueue = s.msgQueue /\ client'.pending_buffer = s.pending_buffer
      /\ client'.wire = s.wire
  BY <1>0, <1>1, <1>2 DEF Begun
<1>. HIDE DEF m
<1>5. u.msgQueue # <<>> /\ Head(u.msgQueue) = m
  BY <1>3, <1>4
<1>6. s.pending_buffer = None /\ s.wire = Append(<<>>, m)
  <2>1. /\ s.wire = IF u.sock = "open" THEN Append(u.wire, Head(u.msgQueue)) ELSE u.wire
        /\ s.pending_buffer = IF needsAck(Head(u.msgQueue)) THEN Head(u.msgQueue) ELSE None
    BY <1>4, <1>5, SendFields
  <2>. HIDE DEF s
  <2>. QED BY <1>3, <1>4, <1>5, <2>1
<1>7. Keeps(s, u) /\ Keeps(u, client)
  BY <1>0, <1>3, <1>4, SendHolds, UnshiftHolds
<1>. HIDE DEF s
<1>8. Keeps(client', client)
  BY <1>4, <1>7 DEF Keeps, Holds
<1>9. NoneAwaits(client'.wire) /\ NoneAcks(broker.out)
  BY <1>1, <1>3, <1>4, <1>6 DEF NoneAwaits, NoneAcks
<1>10. UNCHANGED <<broker, done, accepted>>
  BY DEF mqtt_tcpclient_connect_cb
<1>11. SteadyOK(client', broker'.out)
  BY <1>4, <1>6, <1>9, <1>10, QuietExchange DEF SteadyOK, PendingOK
<1>. QED
  BY <1>0, <1>8, <1>10, <1>11, RetainedStep

LEMMA SteadyStep ==
    ASSUME Steady, SteadyInv, [Next]_vars
    PROVE  SteadyInv'
<1>0. /\ OnlineInv /\ Inv /\ client \in Client /\ ClientOK(client)
      /\ SteadyOK(client, broker.out) /\ PendingOK(client) /\ RetainedOK
      /\ broker \in [up : BOOLEAN, closing : BOOLEAN, out : Seq(Message)]
      /\ client.sock = "open" <=> client.connState = "MQTT_CONNECTED"
  BY SteadyGives
<1>o. OnlineInv'
  BY <1>0, OnlineStep DEF Steady
<1>. SUFFICES SteadyOK(client', broker'.out) /\ RetainedOK'
  BY <1>o DEF SteadyInv, SteadyOK
<1>r. ASSUME Keeps(client', client), accepted' = accepted, done' = done
      PROVE  RetainedOK'
  BY <1>0, <1>r, RetainedStep
<1>1. ASSUME NEW q \in 0..2, MQTT_Publish(q)
      PROVE  SteadyOK(client', broker'.out) /\ RetainedOK'
  <2>. DEFINE m == [type |-> "PUBLISH", qos |-> q, id |-> NextId]
              c == Push(client, m)
  <2>1. /\ m \in Message /\ m.id = NextId /\ client.connState = "MQTT_CONNECTED"
        /\ UNCHANGED <<broker, done>>
    BY <1>0, <1>1, InvGives, NextIdType DEF MQTT_Publish, Message, Types, Steady, Online
  <2>2. client' = IF MaySend(c) THEN mqtt_send_message(c) ELSE c
    BY <1>1 DEF MQTT_Publish
  <2>3. accepted' = IF q > 0 THEN accepted \cup {m.id} ELSE accepted
    BY <1>1 DEF MQTT_Publish
  <2>4. q > 0 => Kept(m, m.id)
    BY DEF Kept, needsAck
  <2>. HIDE DEF m
  <2>5. client' = mqtt_enq_message(client, m)
    BY <2>1, <2>2 DEF mqtt_enq_message
  <2>. QED BY <2>1, <2>3, <2>4, <2>5, SteadyGiven
<1>2. CASE MQTT_Subscribe
  <2>. DEFINE m == Msg("SUBSCRIBE", NextId)
  <2>1. /\ m \in Message /\ m.id = NextId /\ client.connState = "MQTT_CONNECTED"
        /\ UNCHANGED <<broker, done>>
        /\ client' = mqtt_enq_message(client, m) /\ accepted' = accepted \cup {m.id}
        /\ Kept(m, m.id)
    BY <1>0, <1>2, InvGives, NextIdType, MsgType
       DEF MQTT_Subscribe, Types, Msg, Steady, Online, Kept, needsAck
  <2>. HIDE DEF m
  <2>. QED BY <2>1, SteadyGiven
<1>3. ASSUME client.connState = "MQTT_DISCONNECTED", Connects(client), BrokerSees,
             UNCHANGED <<done, accepted>>
      PROVE  SteadyOK(client', broker'.out) /\ RetainedOK'
  <2>1. Attempted(client', client) /\ client.pending_buffer = None
    BY <1>0, <1>3, AttemptMoves DEF PendingOK
  <2>2. client'.pending_buffer = None /\ client'.sock # "open" /\ Keeps(client', client)
    BY <2>1, AlikeKeeps DEF Attempted
  <2>. QED BY <1>3, <1>r, <2>2, SeesExchange DEF SteadyOK, PendingOK
<1>4. ASSUME GivenUp(client', client), BrokerSees \/ UNCHANGED broker, UNCHANGED <<done, accepted>>
      PROVE  SteadyOK(client', broker'.out) /\ RetainedOK'
  <2>1. client'.sock = "none" /\ Keeps(client', client)
    BY <1>4, AlikeKeeps DEF GivenUp
  <2>2. PendingOK(client')
    BY <1>0, <1>4 DEF PendingOK, GivenUp
  <2>. QED BY <1>4, <1>r, <2>1, <2>2 DEF SteadyOK, ExchangeOK
<1>5. CASE WifiGotIP
  BY <1>3, <1>5 DEF WifiGotIP, Steady
<1>6. CASE WifiLost \/ mqtt_tcpclient_discon_cb \/ mqtt_tcpclient_recon_cb \/ mqtt_dns_found
  <2>1. GivenUp(client', client)
    BY <1>0, <1>6, LostMoves
  <2>. QED
    BY <1>4, <1>6, <2>1
       DEF WifiLost, mqtt_tcpclient_discon_cb, mqtt_tcpclient_recon_cb, mqtt_dns_found
<1>7. CASE MQTT_Reconnect
  <2>1. CASE client.connState = "MQTT_CONNECTED" /\ client' = mqtt_doAbort(client)
    <3>1. GivenUp(client', client)
      BY <1>0, <2>1, LostMoves
    <3>. QED BY <1>4, <1>7, <3>1 DEF MQTT_Reconnect
  <2>. QED BY <1>3, <1>7, <2>1 DEF MQTT_Reconnect
<1>8. CASE cgiMqttSet
  <2>1. /\ client'.pending_buffer = None /\ client'.sock # "open"
    BY <1>8, SettingsMoves
  <2>2. accepted' \ done' = {}
    BY <1>8 DEF cgiMqttSet
  <2>3. RetainedOK'
    BY <2>2 DEF RetainedOK
  <2>. QED BY <1>8, <2>1, <2>3, SeesExchange DEF cgiMqttSet, SteadyOK, PendingOK
<1>9. CASE mqtt_tcpclient_connect_cb
  BY <1>9, SteadyBegins
<1>10. CASE mqtt_tcpclient_recv
  BY <1>10, SteadyReceived
<1>11. CASE ReceivePart
  <2>. DEFINE c == [client EXCEPT !.in_buffer = "part"]
  <2>1. client' = SendNext(c) /\ UNCHANGED <<broker, done, accepted>>
    BY <1>11 DEF ReceivePart
  <2>2. c \in Client /\ Alike(c, client) /\ ClientOK(c)
    <3>1. 0 \in Tick
      BY DEF Tick
    <3>2. c \in Client /\ Alike(c, client)
      BY <1>0, <3>1, OtherFields
    <3>3. c.armed = client.armed /\ c.reconTimeout = client.reconTimeout
      BY <1>0 DEF Client
    <3>. QED BY <1>0, <3>2, <3>3, SameOK DEF Alike
  <2>. HIDE DEF c
  <2>3. SteadyOK(client', broker.out) /\ Keeps(client', c) /\ Keeps(c, client)
    BY <1>0, <2>1, <2>2, SteadyAlike, SteadyNext
  <2>4. RetainedOK'
    BY <1>r, <2>1, <2>3, KeepsOn
  <2>. QED BY <2>1, <2>3, <2>4
<1>12. CASE mqtt_tcpclient_sent_cb
  <2>1. PICK c \in Client :
           /\ c.msgQueue = client.msgQueue /\ c.pending_buffer = client.pending_buffer
           /\ c.wire = client.wire /\ c.sock = "open"
           /\ c.keepAliveTick = client.keepAliveTick /\ c.timeoutTick = client.timeoutTick
           /\ c.connState = client.connState
           /\ client' = IF c.pending_buffer = None THEN mqtt_send_message(c) ELSE c
    BY <1>0, <1>12, SentMoves
  <2>2. client.sock = "open" /\ UNCHANGED <<broker, done, accepted>>
    BY <1>12 DEF mqtt_tcpclient_sent_cb
  <2>3. SteadyOK(c, broker.out) /\ Keeps(c, client)
    BY <1>0, <2>1, <2>2, PendingAlike, AlikeKeeps
       DEF SteadyOK, ExchangeOK, Asking, Answering
  <2>4. SteadyOK(client', broker.out) /\ Keeps(client', c)
    <3>1. Keeps(c, c)
      BY AlikeKeeps
    <3>. QED BY <1>0, <2>1, <2>2, <2>3, <3>1, SteadySend
  <2>5. RetainedOK'
    BY <1>r, <2>2, <2>3, <2>4, KeepsOn
  <2>. QED BY <2>2, <2>4, <2>5
<1>13. CASE mqtt_timer
  BY <1>13, SteadyTimer
<1>14. CASE BrokerReads
  <2>1. /\ client.sock = "open" /\ client.wire # <<>> /\ broker.out \in Seq(Message)
        /\ UNCHANGED <<done, accepted>>
    BY <1>0, <1>14 DEF BrokerReads
  <2>2. broker'.out = broker.out \o Answer(Head(client.wire))
    <3>1. ~broker'.closing
      BY <1>o DEF OnlineInv, SessionOK
    <3>2. \/ broker' = [broker EXCEPT !.closing = TRUE]
          \/ broker' = [broker EXCEPT !.up = TRUE, !.out = @ \o Answer(Head(client.wire))]
      BY <1>14 DEF BrokerReads
    <3>. QED BY <1>0, <3>1, <3>2
  <2>3. /\ client'.msgQueue = client.msgQueue /\ client'.wire = Tail(client.wire)
        /\ client'.pending_buffer = client.pending_buffer
        /\ client'.keepAliveTick = client.keepAliveTick
        /\ client'.timeoutTick = client.timeoutTick
        /\ client'.sock = client.sock /\ client'.connState = client.connState
    BY <1>0, <1>14, ReadMoves
  <2>4. ExchangeOK(client', broker'.out)
    BY <1>0, <2>1, <2>2, <2>3, AskedAnswers DEF SteadyOK
  <2>5. PendingOK(client') /\ Keeps(client', client)
    BY <1>0, <2>3, PendingAlike, AlikeKeeps
  <2>. QED BY <1>r, <2>1, <2>4, <2>5 DEF SteadyOK
<1>15. ASSUME NEW m \in Incoming, BrokerPublishes(m)
       PROVE  SteadyOK(client', broker'.out) /\ RetainedOK'
  <2>. DEFINE n == [m EXCEPT !.id = budget.incoming]
  <2>1. /\ UNCHANGED <<client, done, accepted>>
        /\ broker'.out = Append(broker.out, n)
    BY <1>0, <1>15 DEF BrokerPublishes
  <2>2. n \in Message /\ ~IsAck(n)
    <3>1. budget.incoming \in Nat
      BY <1>0, InvGives DEF BudgetOK
    <3>2. m \in Message /\ m.type \in {"PUBLISH", "TOOLONG"}
      BY DEF Incoming, Message, Types, Msg
    <3>. QED BY <3>1, <3>2 DEF Message, IsAck
  <2>. HIDE DEF n
  <2>3. <<n>> \in Seq(Message) /\ NoneAcks(<<n>>)
        /\ Append(broker.out, n) = broker.out \o <<n>>
    BY <1>0, <2>2 DEF NoneAcks
  <2>4. ExchangeOK(client', broker'.out)
    <3>1. ExchangeOK(client, broker.out \o <<n>>)
      BY <1>0, <2>3, QuietAnswer DEF SteadyOK
    <3>. QED BY <2>1, <2>3, <3>1
  <2>. QED BY <1>0, <1>r, <2>1, <2>4, AlikeKeeps DEF SteadyOK
<1>16. CASE UNCHANGED vars
  BY <1>0, <1>r, <1>16, AlikeKeeps DEF vars
<1>. QED
  BY <1>1, <1>2, <1>5, <1>6, <1>7, <1>8, <1>9, <1>10, <1>11, <1>12, <1>13, <1>14, <1>15, <1>16
     DEF Next

LEMMA SteadyHolds ==
    ASSUME Steady
    PROVE  Spec => []SteadyInv
<1>1. Init => SteadyInv
  <2>. SUFFICES ASSUME Init PROVE SteadyInv
    OBVIOUS
  <2>1. Inv
    BY InitOK
  <2>2. /\ client.msgQueue = <<>> /\ client.pending_buffer = None /\ client.wire = <<>>
        /\ client.sock = "none" /\ ~broker.closing /\ accepted \ done = {}
    BY DEF Init, MQTT_Init
  <2>3. OnlineInv
    BY <2>1, <2>2, NoneIsNothing
       DEF OnlineInv, OnlineOK, SentOK, CarriesOK, NoConnect, SessionOK
  <2>. QED
    BY <2>2, <2>3 DEF SteadyInv, PendingOK, RetainedOK, ExchangeOK
<1>2. SteadyInv /\ [Next]_vars => SteadyInv'
  BY SteadyStep
<1>. QED
  BY <1>1, <1>2, PTL DEF Spec

\* RetainedOK speaks of the pending message and of the queue, Retained of both in one sequence.
LEMMA RetainedMeans ==
    ASSUME Inv, RetainedOK
    PROVE  Retained
<1>. DEFINE q == client.msgQueue
            p == client.pending_buffer
<1>1. q \in Seq(Message)
  BY InvGives, ClientFields
<1>2. /\ 1 \in 1..Len(Held) /\ Held[1] = p
      /\ \A k \in 1..Len(q) : k + 1 \in 1..Len(Held) /\ Held[k + 1] = q[k]
  BY <1>1 DEF Held
<1>. SUFFICES ASSUME NEW i \in accepted \ done
              PROVE  \E k \in 1..Len(Held) :
                        Held[k].id = i /\ Held[k].type \in {"PUBLISH", "PUBREL", "SUBSCRIBE"}
  BY DEF Retained
<1>3. CASE Kept(p, i)
  BY <1>2, <1>3 DEF Kept
<1>4. CASE \E k \in 1..Len(q) : Kept(q[k], i)
  BY <1>2, <1>4 DEF Kept
<1>. QED
  BY <1>3, <1>4 DEF RetainedOK, Holds

(* If the application publishes only while connected, no second IP address *)
(* event comes while a reconnection is due, and no ping falls due before   *)
(* the acknowledgement that is awaited, a message that must be delivered   *)
(* is held, itself or its PUBREL, until it is acknowledged, whatever       *)
(* connections are lost: mqtt_send_message keeps it as pending_buffer and  *)
(* mqtt_timer puts it back at the head of the queue.                       *)
THEOREM RetainedHolds == Steady => (Spec => []Retained)
<1>. SUFFICES ASSUME Steady PROVE Spec => []Retained
  OBVIOUS
<1>1. SteadyInv => Retained
  BY RetainedMeans DEF SteadyInv, OnlineInv
<1>. QED
  BY <1>1, SteadyHolds, PTL

(* Under the same conditions what is on the wire and needs an              *)
(* acknowledgement is the pending message, so that no second one is sent   *)
(* before the first is acknowledged, nor one that would not be sent again. *)
THEOREM StopAndWaitHolds == Steady => (Spec => []StopAndWait)
<1>. SUFFICES ASSUME Steady PROVE Spec => []StopAndWait
  OBVIOUS
<1>1. SteadyInv => StopAndWait
  <2>. SUFFICES ASSUME SteadyInv PROVE StopAndWait
    OBVIOUS
  <2>1. client.sock # "open" => client.wire = <<>>
    BY SteadyGives DEF OnlineInv, OnlineOK, CarriesOK
  <2>2. client.sock = "open" => Asking(client, broker.out)
    BY SteadyGives DEF SteadyOK, ExchangeOK
  <2>. QED
    BY <2>1, <2>2 DEF StopAndWait, Asking
<1>. QED
  BY <1>1, SteadyHolds, PTL
=============================================================================
