---------------------------- MODULE Network_proofs ----------------------------
(***************************************************************************)
(* What the users of the network promise, for every value of the           *)
(* constants: each has an invariant of its own, that no step of another    *)
(* disturbs, since they share nothing.                                     *)
(*                                                                         *)
(* RestInv and SockInv: data is handed to a connection in two parts, the   *)
(* second when the first has been acknowledged, out of memory that is      *)
(* freed and replaced by callbacks; and a place is used by one client      *)
(* after the other.  They follow the data of a place from the request to   *)
(* the connection.  RestInv also says how far back in the pool the clients *)
(* of the MCU are, so that the place that comes next is none of theirs; it *)
(* needs that the MCU does not ask again before an answered request is     *)
(* closed (Prompt): the disconnect callback would free the new data.       *)
(*                                                                         *)
(* FetchInv: the buffer of an HTTP request has all that was received, or   *)
(* its beginning is overwritten.  ListInv: what was sent of the list of    *)
(* networks has an entry for each of the first places, of scans that only  *)
(* get newer.  LogInv: of the queue at most the head was sent, and the     *)
(* datagrams that were sent a second time are those in the air that will   *)
(* free, and the sent callbacks that have freed, a message never sent.     *)
(***************************************************************************)
EXTENDS Network, FiniteSetTheorems, SequenceTheorems, SequenceLemmas, TLAPS

-----------------------------------------------------------------------------
(* The REST client: an answer to the whole request, for who asked *)

Unit == [of : Nat, header : 0..1, len : Nat] \cup [of : Nat, i : Nat]
Client ==
    [pCon : BOOLEAN, byName : BOOLEAN, ip : 0..1, header : 0..1, data : Seq(Unit),
     data_sent : Nat, data_len : Nat, resp_cb : Nat]
Connection == [st : {"none", "connecting", "up", "closing"}, out : Seq(Unit), unsent : Int]

RestType ==
    /\ restClient \in [Places -> Client]
    /\ restNum \in Places
    /\ link \in [Places -> Connection]
    /\ lookup \in [Places -> BOOLEAN]
    /\ mcu \subseteq [cb : 1..setups, place : Places] /\ IsFiniteSet(mcu)
    /\ requests \in Seq([cb : Nat, units : Seq(Unit)])
    /\ setups \in Nat

\* The head of request r, and how long it says the request is.
Heads(r, units) == units # <<>> /\ Head(units).of = r /\ Head(units).len = Len(units)
RequestsOK == \A r \in DOMAIN requests : Heads(r, requests[r].units)

\* The last request of a client in rs was the r-th.
AskedFor(client, rs, r) ==
    /\ r \in DOMAIN rs
    /\ client.resp_cb = rs[r].cb
    /\ client.data_len = Len(rs[r].units)

\* What is still to be sent of it, and what the server has.
Ready(client, rs) == \E r \in DOMAIN rs : AskedFor(client, rs, r) /\ client.data = rs[r].units
InParts(client, con, units) ==
    \/ client.data_sent = client.data_len /\ con.out = units
    \/ /\ client.data = units /\ client.data_sent \in 1 .. client.data_len - 1
       /\ con.out = SubSeq(units, 1, client.data_sent)
PlaceOK(client, con, looked, rs) ==
    /\ looked => con.st = "none"
    /\ looked \/ con.st = "connecting" => Ready(client, rs)
    /\ con.st = "up" =>
          \E r \in DOMAIN rs : AskedFor(client, rs, r) /\ InParts(client, con, rs[r].units)

\* How many set-ups ago place p was given away, when n comes next.
Ago(p, n) == IF p < n THEN n - p ELSE n + MAX_REST - p
McuOK ==
    \A c \in mcu : /\ restClient[c.place].resp_cb = c.cb
                   /\ Ago(c.place, restNum) <= Cardinality(mcu)

RestInv ==
    /\ RestType
    /\ RequestsOK
    /\ \A p \in Places : PlaceOK(restClient[p], link[p], lookup[p], requests)
    /\ McuOK
    /\ RightAnswer

-----------------------------------------------------------------------------
(* REST: what the functions make of a connection, and of sequences *)

LEMMA SpliceSeq ==
    ASSUME NEW S, NEW s \in Seq(S), NEW n \in 0..Len(s)
    PROVE  SubSeq(s, 1, n) \o SubSeq(s, n + 1, Len(s)) = s
<1>. DEFINE a == SubSeq(s, 1, n)
            b == SubSeq(s, n + 1, Len(s))
<1>1. /\ a \in Seq(S) /\ Len(a) = n /\ \A i \in 1..n : a[i] = s[i]
      /\ b \in Seq(S) /\ Len(b) = Len(s) - n /\ \A i \in 1..Len(s) - n : b[i] = s[n + i]
  OBVIOUS
<1>. HIDE DEF a, b
<1>2. /\ a \o b \in Seq(S) /\ Len(a \o b) = Len(s)
      /\ \A i \in 1..Len(s) : (a \o b)[i] = IF i <= n THEN a[i] ELSE b[i - n]
  BY <1>1, ConcatProperties
<1>3. \A i \in 1..Len(s) : (a \o b)[i] = s[i]
  BY <1>1, <1>2
<1>4. a \o b = s
  BY <1>2, <1>3, SeqEqual
<1>. QED
  BY <1>4 DEF a, b

LEMMA OpenedFields ==
    ASSUME NEW con \in Connection
    PROVE  /\ Opened(con) \in Connection
           /\ Opened(con).st = "up" /\ Opened(con).out = <<>> /\ Opened(con).unsent = 0
<1>. DEFINE new == Opened(con)
<1>1. \A st \in {"none", "connecting", "up", "closing"}, out \in Seq(Unit), n \in Int :
         new = [con EXCEPT !.st = st, !.out = out, !.unsent = n] =>
            new \in Connection /\ new.st = st /\ new.out = out /\ new.unsent = n
  <2>. HIDE DEF new
  <2>. QED BY DEF Connection
<1>2. "up" \in {"none", "connecting", "up", "closing"} /\ <<>> \in Seq(Unit) /\ 0 \in Int
  OBVIOUS
<1>3. new = [con EXCEPT !.st = "up", !.out = <<>>, !.unsent = 0]
  BY DEF Opened
<1>4. new \in Connection /\ new.st = "up" /\ new.out = <<>> /\ new.unsent = 0
  <2>. HIDE DEF new
  <2>. QED BY <1>1, <1>2, <1>3, Zenon
<1>. QED
  BY <1>4

LEMMA Connections ==
    ASSUME NEW con \in Connection
    PROVE  /\ Idle \in Connection /\ Opened(con) \in Connection
           /\ Acknowledged(con) \in Connection
           /\ espconn_connect(con) \in Connection /\ espconn_disconnect(con) \in Connection
           /\ \A data \in Seq(Unit) : espconn_sent(con, data) \in Connection
<1>0. /\ <<>> \in Seq(Unit) /\ con.out \in Seq(Unit) /\ con.unsent \in Int
      /\ con.st \in {"none", "connecting", "up", "closing"}
  BY DEF Connection
<1>1. Idle \in Connection /\ Opened(con) \in Connection /\ Acknowledged(con) \in Connection
  <2>1. Opened(con) \in Connection
    BY OpenedFields
  <2>2. Acknowledged(con) = [st |-> con.st, out |-> con.out, unsent |-> con.unsent - 1]
    BY DEF Acknowledged, Connection
  <2>. QED BY <1>0, <2>1, <2>2 DEF Connection, Idle
<1>2. espconn_connect(con) \in Connection /\ espconn_disconnect(con) \in Connection
  <2>1. espconn_connect(con) \in {con, [st |-> "connecting", out |-> <<>>, unsent |-> 0]}
    BY DEF espconn_connect, Idle
  <2>2. espconn_disconnect(con) \in {con, [st |-> "closing", out |-> con.out, unsent |-> con.unsent]}
    BY DEF espconn_disconnect, Connection
  <2>3. /\ [st |-> "connecting", out |-> <<>>, unsent |-> 0] \in Connection
        /\ [st |-> "closing", out |-> con.out, unsent |-> con.unsent] \in Connection
    BY <1>0 DEF Connection
  <2>. QED BY <2>1, <2>2, <2>3
<1>3. ASSUME NEW data \in Seq(Unit) PROVE espconn_sent(con, data) \in Connection
  <2>1. con.out \o data \in Seq(Unit) /\ con.unsent + 1 \in Int
    BY DEF Connection
  <2>. QED BY <2>1 DEF Connection, espconn_sent
<1>. QED
  BY <1>1, <1>2, <1>3

LEMMA UnitsType ==
    ASSUME NEW r \in Nat, NEW header \in 0..1, NEW len \in Nat \ {0}
    PROVE  /\ Units(r, header, len) \in Seq(Unit) /\ Len(Units(r, header, len)) = len
           /\ Heads(r, Units(r, header, len))
<1>. DEFINE u == Units(r, header, len)
<1>1. u = [i \in 1..len |-> IF i = 1 THEN [of |-> r, header |-> header, len |-> len]
                                     ELSE [of |-> r, i |-> i]]
  BY DEF Units
<1>2. \A i \in 1..len : (IF i = 1 THEN [of |-> r, header |-> header, len |-> len]
                                  ELSE [of |-> r, i |-> i]) \in Unit
  BY DEF Unit
<1>3. u \in Seq(Unit) /\ Len(u) = len
  BY <1>1, <1>2
<1>4. Head(u) = [of |-> r, header |-> header, len |-> len] /\ u # <<>>
  BY <1>1, <1>3
<1>. QED
  BY <1>3, <1>4 DEF Heads

-----------------------------------------------------------------------------
(* REST: parts of the invariant *)

LEMMA InvParts ==
    ASSUME RestInv, NEW p \in Places
    PROVE  /\ restClient[p] \in Client /\ link[p] \in Connection /\ lookup[p] \in BOOLEAN
           /\ PlaceOK(restClient[p], link[p], lookup[p], requests)
           /\ requests \in Seq([cb : Nat, units : Seq(Unit)])
BY DEF RestInv, RestType

LEMMA RequestParts ==
    ASSUME RestInv, NEW r \in DOMAIN requests
    PROVE  /\ r \in Nat /\ requests[r].cb \in Nat /\ requests[r].units \in Seq(Unit)
           /\ Heads(r, requests[r].units) /\ Len(requests[r].units) \in Nat \ {0}
<1>1. requests \in Seq([cb : Nat, units : Seq(Unit)]) /\ Heads(r, requests[r].units)
  BY DEF RestInv, RestType, RequestsOK
<1>2. r \in Nat /\ requests[r] \in [cb : Nat, units : Seq(Unit)]
  <2>. DEFINE R == [cb : Nat, units : Seq(Unit)]
  <2>1. requests \in Seq(R)
    BY <1>1
  <2>. HIDE DEF R
  <2>2. r \in Nat /\ requests[r] \in R
    BY <2>1
  <2>. QED BY <2>2 DEF R
<1>3. requests[r].units \in Seq(Unit) /\ requests[r].units # <<>>
  BY <1>1, <1>2 DEF Heads
<1>4. Len(requests[r].units) \in Nat \ {0}
  BY <1>3
<1>. QED
  BY <1>1, <1>2, <1>3, <1>4

\* A place that nothing is asked of, or that is answered, is all right.
LEMMA QuietPlace ==
    ASSUME NEW client, NEW con, con.st \in {"none", "closing"}, NEW looked, ~looked, NEW rs
    PROVE  PlaceOK(client, con, looked, rs)
BY DEF PlaceOK

\* A callback concerns the place it is of.
LEMMA OnePlace ==
    ASSUME RestInv, NEW p \in Places, NEW client \in Client, NEW con \in Connection,
           NEW looked \in BOOLEAN, client.resp_cb = restClient[p].resp_cb,
           PlaceOK(client, con, looked, requests),
           restClient' = [restClient EXCEPT ![p] = client],
           link' = [link EXCEPT ![p] = con], lookup' = [lookup EXCEPT ![p] = looked],
           UNCHANGED <<restNum, mcu, requests, setups>>
    PROVE  /\ RestType' /\ RequestsOK' /\ McuOK'
           /\ (\A q \in Places : PlaceOK(restClient[q], link[q], lookup[q], requests))'
<1>. USE DEF RestInv, RestType
<1>1. RestType'
  OBVIOUS
<1>2. RequestsOK'
  BY DEF RequestsOK
<1>3. \A c \in mcu : c.place \in Places
  OBVIOUS
<1>4. \A q \in Places : /\ restClient'[q] = IF q = p THEN client ELSE restClient[q]
                        /\ link'[q] = IF q = p THEN con ELSE link[q]
                        /\ lookup'[q] = IF q = p THEN looked ELSE lookup[q]
  OBVIOUS
<1>5. \A q \in Places : restClient'[q].resp_cb = restClient[q].resp_cb
  BY <1>4
<1>6. McuOK'
  BY <1>3, <1>5 DEF McuOK, Ago
<1>7. ASSUME NEW q \in Places PROVE PlaceOK(restClient'[q], link'[q], lookup'[q], requests)
  BY <1>4
<1>. QED
  BY <1>1, <1>2, <1>6, <1>7

-----------------------------------------------------------------------------
(* REST: the callbacks *)

LEMMA SentFields ==
    ASSUME NEW con \in Connection, con.st = "up", NEW data \in Seq(Unit)
    PROVE  /\ espconn_sent(con, data).st = "up"
           /\ espconn_sent(con, data).out = con.out \o data
BY DEF espconn_sent, Connection

LEMMA AcknowledgedFields ==
    ASSUME NEW con \in Connection
    PROVE  Acknowledged(con).st = con.st /\ Acknowledged(con).out = con.out
BY DEF Acknowledged, Connection

LEMMA ClientParts ==
    ASSUME NEW client \in Client
    PROVE  /\ client.data \in Seq(Unit) /\ client.data_sent \in Nat /\ client.data_len \in Nat
           /\ client.resp_cb \in Nat /\ client.header \in 0..1
BY DEF Client

LEMMA PartSent ==
    ASSUME NEW client \in Client, NEW n \in Nat, NEW new, new = [client EXCEPT !.data_sent = n]
    PROVE  /\ new \in Client /\ new.data_sent = n /\ new.data = client.data
           /\ new.data_len = client.data_len /\ new.resp_cb = client.resp_cb
BY DEF Client

LEMMA DataFreed ==
    ASSUME NEW client \in Client, NEW new, new = [client EXCEPT !.data = <<>>]
    PROVE  /\ new \in Client /\ new.data_sent = client.data_sent
           /\ new.data_len = client.data_len /\ new.resp_cb = client.resp_cb
<1>1. <<>> \in Seq(Unit)
  OBVIOUS
<1>. QED
  BY <1>1 DEF Client

LEMMA AnswersKept ==
    ASSUME RestInv, UNCHANGED <<requests, answers>>
    PROVE  RightAnswer'
BY DEF RestInv, RightAnswer

LEMMA FoundStep ==
    ASSUME RestInv, NEW p \in Places, NEW found, rest_dns_found(p, found)
    PROVE  RestInv'
<1>. DEFINE con == IF found /\ restClient[p].ip = 0 THEN espconn_connect(link[p]) ELSE link[p]
<1>1. /\ restClient[p] \in Client /\ link[p] \in Connection /\ lookup[p]
      /\ PlaceOK(restClient[p], link[p], lookup[p], requests)
  BY InvParts DEF rest_dns_found
<1>2. link[p].st = "none" /\ Ready(restClient[p], requests)
  BY <1>1 DEF PlaceOK
<1>3. con \in Connection /\ con.st \in {"none", "connecting"}
  BY <1>1, <1>2, Connections DEF espconn_connect, Idle
<1>4. /\ link' = [link EXCEPT ![p] = con] /\ lookup' = [lookup EXCEPT ![p] = FALSE]
      /\ restClient' = [restClient EXCEPT ![p] = restClient[p]]
      /\ UNCHANGED <<restNum, mcu, requests, answers, setups>>
  <2>1. restClient \in [Places -> Client] /\ link \in [Places -> Connection]
    BY DEF RestInv, RestType
  <2>. QED BY <2>1 DEF rest_dns_found
<1>. HIDE DEF con
<1>5. PlaceOK(restClient[p], con, FALSE, requests)
  BY <1>2, <1>3 DEF PlaceOK
<1>. QED
  BY <1>1, <1>3, <1>4, <1>5, OnePlace, AnswersKept DEF RestInv

LEMMA ConnectStep ==
    ASSUME RestAssumption, RestInv, NEW p \in Places, tcpclient_connect_cb(p)
    PROVE  RestInv'
<1>. DEFINE n == FirstPart(restClient[p])
            part == Handed(restClient[p].data, n)
            client == [restClient[p] EXCEPT !.data_sent = n]
            con == espconn_sent(Opened(link[p]), part)
<1>1. /\ restClient[p] \in Client /\ link[p] \in Connection /\ lookup[p] \in BOOLEAN
      /\ PlaceOK(restClient[p], link[p], lookup[p], requests) /\ link[p].st = "connecting"
  BY InvParts DEF tcpclient_connect_cb, Connecting
<1>2. ~lookup[p] /\ Ready(restClient[p], requests)
  BY <1>1 DEF PlaceOK
<1>3. PICK r \in DOMAIN requests :
         AskedFor(restClient[p], requests, r) /\ restClient[p].data = requests[r].units
  BY <1>2 DEF Ready
<1>. DEFINE units == requests[r].units
<1>4. units \in Seq(Unit) /\ Len(units) \in Nat \ {0} /\ restClient[p].data_len = Len(units)
  BY <1>3, RequestParts DEF AskedFor
<1>5. n \in 1..Len(units)
  BY <1>4, RestAssumption DEF FirstPart, RestAssumption
<1>6. part = SubSeq(units, 1, n) /\ part \in Seq(Unit)
  BY <1>3, <1>4, <1>5 DEF Handed
<1>7. /\ client \in Client /\ client.data_sent = n /\ client.data = units
      /\ client.data_len = Len(units) /\ client.resp_cb = restClient[p].resp_cb
  <2>1. n \in Nat
    BY <1>5
  <2>. HIDE DEF n
  <2>. QED BY <1>1, <1>3, <1>4, <2>1, PartSent
<1>8. /\ con \in Connection /\ con.st = "up" /\ con.out = part
  <2>1. /\ Opened(link[p]) \in Connection /\ Opened(link[p]).st = "up"
        /\ Opened(link[p]).out = <<>>
    BY <1>1, OpenedFields
  <2>2. <<>> \o part = part
    BY <1>6
  <2>. HIDE DEF part
  <2>. QED BY <1>6, <2>1, <2>2, Connections, SentFields
<1>9. /\ restClient' = [restClient EXCEPT ![p] = client] /\ link' = [link EXCEPT ![p] = con]
      /\ lookup' = [lookup EXCEPT ![p] = lookup[p]]
      /\ UNCHANGED <<restNum, mcu, requests, answers, setups>>
  <2>1. /\ restClient \in [Places -> Client] /\ link \in [Places -> Connection]
        /\ lookup \in [Places -> BOOLEAN]
    BY DEF RestInv, RestType
  <2>. QED BY <2>1 DEF tcpclient_connect_cb
<1>. HIDE DEF client, con, part, n, units
<1>10. AskedFor(client, requests, r)
  BY <1>3, <1>7 DEF AskedFor, units
<1>11. InParts(client, con, units)
  <2>1. CASE n = Len(units)
    <3>1. SubSeq(units, 1, n) = units
      BY <1>4, <2>1
    <3>. QED BY <2>1, <3>1, <1>6, <1>7, <1>8 DEF InParts
  <2>2. CASE n # Len(units)
    <3>1. n \in 1 .. Len(units) - 1
      BY <1>4, <1>5, <2>2
    <3>. QED BY <3>1, <1>6, <1>7, <1>8 DEF InParts
  <2>. QED BY <2>1, <2>2
<1>12. PlaceOK(client, con, lookup[p], requests)
  BY <1>2, <1>8, <1>10, <1>11 DEF PlaceOK, units
<1>. QED
  BY <1>1, <1>7, <1>8, <1>9, <1>12, OnePlace, AnswersKept DEF RestInv

LEMMA SentStep ==
    ASSUME RestInv, NEW p \in Places, tcpclient_sent_cb(p)
    PROVE  RestInv'
<1>. DEFINE old == restClient[p]
            ack == Acknowledged(link[p])
<1>1. /\ old \in Client /\ link[p] \in Connection /\ lookup[p] \in BOOLEAN
      /\ PlaceOK(old, link[p], lookup[p], requests) /\ link[p].st \in {"up", "closing"}
  BY InvParts DEF tcpclient_sent_cb, Live
<1>2. ~lookup[p]
  BY <1>1 DEF PlaceOK
<1>3. /\ restClient \in [Places -> Client] /\ link \in [Places -> Connection]
      /\ lookup \in [Places -> BOOLEAN]
  BY DEF RestInv, RestType
<1>4. /\ lookup' = [lookup EXCEPT ![p] = lookup[p]]
      /\ UNCHANGED <<restNum, mcu, requests, answers, setups>>
  BY <1>3 DEF tcpclient_sent_cb
<1>5. ack \in Connection /\ ack.st = link[p].st /\ ack.out = link[p].out
  BY <1>1, Connections, AcknowledgedFields
<1>6. CASE old.data_sent # old.data_len
  <2>. DEFINE client == [old EXCEPT !.data_sent = old.data_len]
              con == espconn_sent(ack, Remainder(old))
  <2>1. /\ restClient' = [restClient EXCEPT ![p] = client]
        /\ link' = [link EXCEPT ![p] = con]
    BY <1>3, <1>6 DEF tcpclient_sent_cb
  <2>2. /\ client \in Client /\ client.data_sent = old.data_len
        /\ client.data_len = old.data_len /\ client.resp_cb = old.resp_cb
    BY <1>1, ClientParts, PartSent
  <2>. HIDE DEF client
  <2>3. CASE link[p].st = "closing"
    <3>1. con = ack
      BY <1>5, <2>3 DEF espconn_sent
    <3>2. PlaceOK(client, con, lookup[p], requests)
      BY <1>2, <1>5, <2>3, <3>1, QuietPlace
    <3>. HIDE DEF con
    <3>. QED BY <1>1, <1>4, <1>5, <2>1, <2>2, <3>1, <3>2, OnePlace, AnswersKept DEF RestInv
  <2>4. CASE link[p].st = "up"
    <3>1. PICK r \in DOMAIN requests :
             AskedFor(old, requests, r) /\ InParts(old, link[p], requests[r].units)
      BY <1>1, <2>4 DEF PlaceOK
    <3>. DEFINE units == requests[r].units
    <3>2. units \in Seq(Unit) /\ Len(units) \in Nat \ {0} /\ old.data_len = Len(units)
      BY <3>1, RequestParts DEF AskedFor
    <3>3. /\ old.data = units /\ old.data_sent \in 1 .. Len(units) - 1
          /\ link[p].out = SubSeq(units, 1, old.data_sent)
      BY <1>6, <3>1, <3>2 DEF InParts
    <3>4. Remainder(old) = SubSeq(units, old.data_sent + 1, Len(units)) /\ Remainder(old) \in Seq(Unit)
      BY <3>2, <3>3 DEF Remainder
    <3>5. con \in Connection /\ con.st = "up" /\ con.out = ack.out \o Remainder(old)
      BY <1>5, <2>4, <3>4, Connections, SentFields
    <3>6. con.out = units
      <4>1. old.data_sent \in 0..Len(units)
        BY <3>2, <3>3
      <4>. HIDE DEF units, con, ack, old
      <4>2. con.out = SubSeq(units, 1, old.data_sent)
                        \o SubSeq(units, old.data_sent + 1, Len(units))
        BY <1>5, <3>3, <3>4, <3>5
      <4>. QED BY <3>2, <4>1, <4>2, SpliceSeq
    <3>7. PlaceOK(client, con, lookup[p], requests)
      <4>. HIDE DEF con, ack, old
      <4>1. AskedFor(client, requests, r) /\ InParts(client, con, units)
        BY <2>2, <3>1, <3>6 DEF AskedFor, InParts
      <4>. QED BY <1>2, <3>1, <3>5, <4>1 DEF PlaceOK
    <3>. HIDE DEF con
    <3>. QED BY <1>1, <1>4, <2>1, <2>2, <3>5, <3>7, OnePlace, AnswersKept DEF RestInv
  <2>. QED BY <1>1, <2>3, <2>4
<1>7. CASE old.data_sent = old.data_len
  <2>. DEFINE client == [old EXCEPT !.data = <<>>]
  <2>1. /\ restClient' = [restClient EXCEPT ![p] = client]
        /\ link' = [link EXCEPT ![p] = ack]
    BY <1>3, <1>7 DEF tcpclient_sent_cb
  <2>2. /\ client \in Client /\ client.data_sent = old.data_sent
        /\ client.data_len = old.data_len /\ client.resp_cb = old.resp_cb
    BY <1>1, DataFreed
  <2>. HIDE DEF client
  <2>3. PlaceOK(client, ack, lookup[p], requests)
    <3>1. CASE link[p].st = "closing"
      BY <1>2, <1>5, <3>1, QuietPlace
    <3>2. CASE link[p].st = "up"
      <4>1. PICK r \in DOMAIN requests :
               AskedFor(old, requests, r) /\ InParts(old, link[p], requests[r].units)
        BY <1>1, <3>2 DEF PlaceOK
      <4>2. requests[r].units \in Seq(Unit) /\ old.data_len = Len(requests[r].units)
            /\ Len(requests[r].units) \in Nat
        BY <4>1, RequestParts DEF AskedFor
      <4>3. link[p].out = requests[r].units
        BY <1>7, <4>1, <4>2 DEF InParts
      <4>. HIDE DEF ack, old
      <4>4. AskedFor(client, requests, r) /\ InParts(client, ack, requests[r].units)
        BY <1>5, <1>7, <2>2, <4>1, <4>3 DEF AskedFor, InParts
      <4>. QED BY <1>2, <1>5, <3>2, <4>1, <4>4 DEF PlaceOK
    <3>. QED BY <1>1, <3>1, <3>2
  <2>. HIDE DEF ack
  <2>. QED BY <1>1, <1>4, <1>5, <2>1, <2>2, <2>3, OnePlace, AnswersKept DEF RestInv
<1>. QED
  BY <1>6, <1>7

LEMMA RecvStep ==
    ASSUME RestInv, NEW p \in Places, tcpclient_recv(p)
    PROVE  RestInv'
<1>. DEFINE con == espconn_disconnect(link[p])
<1>1. /\ restClient[p] \in Client /\ link[p] \in Connection /\ lookup[p] \in BOOLEAN
      /\ PlaceOK(restClient[p], link[p], lookup[p], requests)
      /\ link[p].st = "up" /\ HasRequest(link[p].out)
  BY InvParts DEF tcpclient_recv, Up
<1>2. /\ restClient' = [restClient EXCEPT ![p] = restClient[p]] /\ link' = [link EXCEPT ![p] = con]
      /\ lookup' = [lookup EXCEPT ![p] = lookup[p]]
      /\ answers' = answers \cup {[cb |-> restClient[p].resp_cb, got |-> link[p].out]}
      /\ UNCHANGED <<restNum, mcu, requests, setups>>
  <2>1. /\ restClient \in [Places -> Client] /\ link \in [Places -> Connection]
        /\ lookup \in [Places -> BOOLEAN]
    BY DEF RestInv, RestType
  <2>. QED BY <2>1 DEF tcpclient_recv
<1>3. ~lookup[p]
  BY <1>1 DEF PlaceOK
<1>4. con \in Connection /\ con.st = "closing"
  <2>1. con \in Connection
    BY <1>1, Connections
  <2>2. con.st = "closing"
    BY <1>1 DEF espconn_disconnect, Connection
  <2>. QED BY <2>1, <2>2
<1>. HIDE DEF con
<1>5. PlaceOK(restClient[p], con, lookup[p], requests)
  BY <1>3, <1>4, QuietPlace
<1>6. PICK r \in DOMAIN requests :
         AskedFor(restClient[p], requests, r) /\ InParts(restClient[p], link[p], requests[r].units)
  BY <1>1 DEF PlaceOK
<1>. DEFINE units == requests[r].units
            c == restClient[p]
            out == link[p].out
<1>7. units \in Seq(Unit) /\ Heads(r, units) /\ c.data_len = Len(units) /\ Len(units) \in Nat \ {0}
  BY <1>6, RequestParts DEF AskedFor
<1>8. out = units
  <2>. SUFFICES ASSUME c.data_sent \in 1 .. Len(units) - 1, out = SubSeq(units, 1, c.data_sent)
                PROVE  FALSE
    BY <1>6, <1>7 DEF InParts
  <2>1. Len(out) = c.data_sent /\ Head(out) = Head(units) /\ Head(units).len = Len(units)
    <3>. HIDE DEF units, out, c
    <3>. QED BY <1>7 DEF Heads
  <2>2. Len(out) >= Head(out).len
    BY <1>1 DEF HasRequest
  <2>. QED BY <1>7, <2>1, <2>2
<1>9. RightAnswer'
  <2>1. /\ Head(out).of = r /\ r \in DOMAIN requests /\ c.resp_cb = requests[r].cb
    BY <1>6, <1>7, <1>8 DEF Heads, AskedFor
  <2>2. RightAnswer
    BY DEF RestInv
  <2>3. /\ answers' = answers \cup {[cb |-> c.resp_cb, got |-> out]} /\ requests' = requests
    BY <1>2
  <2>. HIDE DEF out, c
  <2>. QED BY <1>8, <2>1, <2>2, <2>3 DEF RightAnswer, units
<1>. QED
  BY <1>1, <1>2, <1>4, <1>5, <1>9, OnePlace DEF RestInv

LEMMA ClosedStep ==
    ASSUME RestInv, NEW p \in Places, Closed(p)
    PROVE  RestInv'
<1>. DEFINE client == [restClient[p] EXCEPT !.data = <<>>]
<1>1. /\ restClient[p] \in Client /\ link[p] \in Connection /\ lookup[p] \in BOOLEAN
      /\ PlaceOK(restClient[p], link[p], lookup[p], requests) /\ link[p].st # "none"
  BY InvParts DEF Closed
<1>2. /\ restClient' = [restClient EXCEPT ![p] = client] /\ link' = [link EXCEPT ![p] = Idle]
      /\ lookup' = [lookup EXCEPT ![p] = lookup[p]]
      /\ UNCHANGED <<restNum, mcu, requests, answers, setups>>
  <2>1. /\ restClient \in [Places -> Client] /\ link \in [Places -> Connection]
        /\ lookup \in [Places -> BOOLEAN]
    BY DEF RestInv, RestType
  <2>. QED BY <2>1 DEF Closed
<1>3. ~lookup[p]
  BY <1>1 DEF PlaceOK
<1>4. client \in Client /\ client.resp_cb = restClient[p].resp_cb
  BY <1>1, DataFreed
<1>5. Idle \in Connection /\ Idle.st = "none"
  BY <1>1, Connections DEF Idle
<1>. HIDE DEF client
<1>6. PlaceOK(client, Idle, lookup[p], requests)
  BY <1>3, <1>5, QuietPlace
<1>. QED
  BY <1>1, <1>2, <1>4, <1>5, <1>6, OnePlace, AnswersKept DEF RestInv

-----------------------------------------------------------------------------
(* REST: the commands of the MCU *)

LEMMA NextPlaceIs ==
    ASSUME RestAssumption, RestInv
    PROVE  NextPlace \in Places /\ NextPlace = IF restNum = MAX_REST - 1 THEN 0 ELSE restNum + 1
<1>1. restNum \in Places /\ MAX_REST \in Nat \ {0}
  BY DEF RestInv, RestType, RestAssumption
<1>2. CASE restNum = MAX_REST - 1
  <2>1. restNum + 1 = MAX_REST /\ MAX_REST % MAX_REST = 0
    BY <1>1, <1>2
  <2>. QED BY <1>1, <1>2, <2>1 DEF NextPlace, Places
<1>3. CASE restNum # MAX_REST - 1
  <2>1. restNum + 1 \in 0 .. MAX_REST - 1
    BY <1>1, <1>3 DEF Places
  <2>2. (restNum + 1) % MAX_REST = restNum + 1
    BY <1>1, <2>1
  <2>. QED BY <1>3, <2>1, <2>2 DEF NextPlace, Places
<1>. QED
  BY <1>2, <1>3

\* The place that comes next is none of the MCU's, if it has not all of them.
LEMMA NextIsNotTheirs ==
    ASSUME RestAssumption, RestInv, Cardinality(mcu) < MAX_REST, NEW c \in mcu
    PROVE  c.place # restNum
<1>1. MAX_REST \in Nat /\ restNum \in Nat
  BY DEF RestInv, RestType, RestAssumption, Places
<1>2. IsFiniteSet(mcu)
  BY DEF RestInv, RestType
<1>3. Cardinality(mcu) \in Nat
  BY <1>2, FS_CardinalityType
<1>4. Ago(c.place, restNum) <= Cardinality(mcu)
  BY DEF RestInv, McuOK
<1>5. Ago(restNum, restNum) = MAX_REST
  BY <1>1 DEF Ago
<1>. QED
  BY <1>1, <1>3, <1>4, <1>5

LEMMA SetupStep ==
    ASSUME RestAssumption, RestInv, NEW byName \in BOOLEAN, REST_Setup(byName)
    PROVE  RestInv'
<1>. DEFINE client == [Free EXCEPT !.pCon = TRUE, !.byName = byName, !.resp_cb = setups + 1]
            new == [cb |-> setups + 1, place |-> restNum]
<1>1. /\ restClient \in [Places -> Client] /\ restNum \in Places /\ setups \in Nat
      /\ mcu \subseteq [cb : 1..setups, place : Places] /\ IsFiniteSet(mcu)
      /\ link \in [Places -> Connection] /\ lookup \in [Places -> BOOLEAN]
      /\ requests \in Seq([cb : Nat, units : Seq(Unit)])
  BY DEF RestInv, RestType
<1>2. /\ Cardinality(mcu) < MAX_REST /\ link[restNum].st = "none" /\ ~lookup[restNum]
      /\ restClient' = [restClient EXCEPT ![restNum] = client]
      /\ restNum' = NextPlace /\ setups' = setups + 1 /\ mcu' = mcu \cup {new}
      /\ UNCHANGED <<link, lookup, requests, answers>>
  BY DEF REST_Setup, PoolSuffices, PlaceIdle
<1>3. client \in Client /\ client.resp_cb = setups + 1
  <2>1. <<>> \in Seq(Unit) /\ setups + 1 \in Nat
    BY <1>1
  <2>2. Free \in Client
    BY <2>1 DEF Free, Client
  <2>3. \A free \in Client, n \in Nat :
           LET set == [free EXCEPT !.pCon = TRUE, !.byName = byName, !.resp_cb = n]
           IN  set \in Client /\ set.resp_cb = n
    BY DEF Client
  <2>. HIDE DEF Client
  <2>. QED BY <2>1, <2>2, <2>3
<1>. HIDE DEF client
<1>4. NextPlace \in Places /\ NextPlace = IF restNum = MAX_REST - 1 THEN 0 ELSE restNum + 1
  BY NextPlaceIs
<1>5. /\ mcu' \subseteq [cb : 1..setups', place : Places] /\ IsFiniteSet(mcu')
      /\ Cardinality(mcu') = Cardinality(mcu) + 1 /\ Cardinality(mcu) \in Nat
  <2>1. \A c \in mcu : c \in [cb : 1..setups + 1, place : Places] /\ c.cb \in 1..setups
    BY <1>1
  <2>2. new \in [cb : 1..setups + 1, place : Places] /\ new.cb = setups + 1
    BY <1>1
  <2>3. new \notin mcu
    BY <1>1, <2>1, <2>2
  <2>. HIDE DEF new
  <2>4. /\ IsFiniteSet(mcu \cup {new}) /\ Cardinality(mcu \cup {new}) = Cardinality(mcu) + 1
        /\ Cardinality(mcu) \in Nat
    BY <1>1, <2>3, FS_AddElement, FS_CardinalityType
  <2>. QED BY <1>2, <2>1, <2>2, <2>4
<1>6. RestType'
  BY <1>1, <1>2, <1>3, <1>4, <1>5 DEF RestType
<1>7. McuOK'
  <2>. SUFFICES ASSUME NEW c \in mcu'
                PROVE  /\ restClient'[c.place].resp_cb = c.cb
                       /\ Ago(c.place, NextPlace) <= Cardinality(mcu) + 1
    BY <1>2, <1>5 DEF McuOK, Ago
  <2>1. MAX_REST \in Nat \ {0}
    BY DEF RestAssumption
  <2>2. CASE c \in mcu
    <3>1. c.place # restNum /\ c.place \in Places
      BY <1>1, <1>2, <2>2, NextIsNotTheirs
    <3>2. restClient[c.place].resp_cb = c.cb /\ Ago(c.place, restNum) <= Cardinality(mcu)
      BY <2>2 DEF RestInv, McuOK
    <3>3. restClient'[c.place] = restClient[c.place]
      BY <1>1, <1>2, <3>1
    <3>4. Ago(c.place, NextPlace) = Ago(c.place, restNum) + 1
      BY <1>1, <1>4, <2>1, <3>1 DEF Ago, Places
    <3>5. Ago(c.place, restNum) \in Int
      BY <1>1, <2>1, <3>1 DEF Ago, Places
    <3>. QED BY <1>5, <3>2, <3>3, <3>4, <3>5
  <2>3. CASE c = new
    <3>1. c.place = restNum /\ c.cb = setups + 1
      BY <2>3
    <3>2. restClient'[restNum] = client
      BY <1>1, <1>2
    <3>3. Ago(restNum, NextPlace) = 1
      BY <1>1, <1>4, <2>1 DEF Ago, Places
    <3>. QED BY <1>3, <1>5, <3>1, <3>2, <3>3
  <2>. QED BY <1>2, <2>2, <2>3
<1>8. ASSUME NEW p \in Places PROVE PlaceOK(restClient'[p], link'[p], lookup'[p], requests')
  <2>1. CASE p = restNum
    <3>1. link'[p].st = "none" /\ ~lookup'[p]
      BY <1>2, <2>1
    <3>. QED BY <3>1, QuietPlace
  <2>2. CASE p # restNum
    <3>1. restClient'[p] = restClient[p]
      BY <1>1, <1>2, <2>2
    <3>2. link'[p] = link[p] /\ lookup'[p] = lookup[p] /\ requests' = requests
      BY <1>2
    <3>. QED BY <3>1, <3>2 DEF RestInv
  <2>. QED BY <2>1, <2>2
<1>9. RequestsOK' /\ RightAnswer'
  <2>1. RequestsOK /\ RightAnswer
    BY DEF RestInv
  <2>. QED BY <1>2, <2>1 DEF RequestsOK, RightAnswer
<1>. QED
  BY <1>6, <1>7, <1>8, <1>9 DEF RestInv

LEMMA HeaderStep ==
    ASSUME RestInv, NEW c \in mcu, REST_SetHeader(c)
    PROVE  RestInv'
<1>. DEFINE p == c.place
            old == restClient[p]
            client == [old EXCEPT !.header = 1]
<1>1. p \in Places
  BY DEF RestInv, RestType
<1>2. /\ old \in Client /\ link[p] \in Connection /\ lookup[p] \in BOOLEAN
      /\ PlaceOK(old, link[p], lookup[p], requests)
  BY <1>1, InvParts
<1>3. /\ restClient' = [restClient EXCEPT ![p] = client] /\ link' = [link EXCEPT ![p] = link[p]]
      /\ lookup' = [lookup EXCEPT ![p] = lookup[p]]
      /\ UNCHANGED <<restNum, mcu, requests, answers, setups>>
  <2>1. /\ restClient \in [Places -> Client] /\ link \in [Places -> Connection]
        /\ lookup \in [Places -> BOOLEAN]
    BY DEF RestInv, RestType
  <2>. QED BY <2>1 DEF REST_SetHeader
<1>4. /\ client \in Client /\ client.resp_cb = old.resp_cb /\ client.data = old.data
      /\ client.data_sent = old.data_sent /\ client.data_len = old.data_len
  BY <1>2 DEF Client
<1>. HIDE DEF client, old, p
<1>5. PlaceOK(client, link[p], lookup[p], requests)
  BY <1>2, <1>4 DEF PlaceOK, Ready, AskedFor, InParts
<1>6. client.resp_cb = restClient[p].resp_cb
  BY <1>4 DEF old
<1>. QED
  BY <1>1, <1>2, <1>3, <1>4, <1>5, <1>6, OnePlace, AnswersKept DEF RestInv

LEMMA RestartStep == ASSUME RestInv, McuRestarts PROVE RestInv'
<1>1. IsFiniteSet({})
  BY FS_EmptySet
<1>2. mcu' = {} /\ UNCHANGED <<restClient, restNum, link, lookup, requests, answers, setups>>
  BY DEF McuRestarts
<1>. QED
  BY <1>1, <1>2 DEF RestInv, RestType, RequestsOK, McuOK, RightAnswer

\* One more request changes nothing for the others.
LEMMA Grows ==
    ASSUME NEW S, NEW rs \in Seq(S), NEW q \in S
    PROVE  /\ Append(rs, q) \in Seq(S) /\ Len(rs) + 1 \in DOMAIN Append(rs, q)
           /\ Append(rs, q)[Len(rs) + 1] = q
           /\ \A r \in DOMAIN rs : r \in DOMAIN Append(rs, q) /\ Append(rs, q)[r] = rs[r]
           /\ \A r \in DOMAIN Append(rs, q) : r \in DOMAIN rs \/ r = Len(rs) + 1
OBVIOUS

LEMMA PlaceStays ==
    ASSUME NEW client, NEW con, NEW looked, NEW rs, NEW more,
           \A r \in DOMAIN rs : r \in DOMAIN more /\ more[r] = rs[r],
           PlaceOK(client, con, looked, rs)
    PROVE  PlaceOK(client, con, looked, more)
BY DEF PlaceOK, Ready, AskedFor

LEMMA RequestStep ==
    ASSUME RestAssumption, ~Prompt, RestInv, NEW c \in mcu, NEW len \in Lengths,
           REST_Request(c, len)
    PROVE  RestInv'
<1>. DEFINE p == c.place
            old == restClient[p]
            n == Len(requests) + 1
            units == Units(n, old.header, len)
            asking == [old EXCEPT !.data = units, !.data_len = len]
            q == [cb |-> c.cb, units |-> units]
            Req == [cb : Nat, units : Seq(Unit)]
<1>1. /\ restClient \in [Places -> Client] /\ link \in [Places -> Connection]
      /\ lookup \in [Places -> BOOLEAN] /\ requests \in Seq(Req)
      /\ c \in [cb : 1..setups, place : Places] /\ setups \in Nat
  BY DEF RestInv, RestType
<1>2. p \in Places /\ old \in Client /\ old.header \in 0..1 /\ c.cb \in Nat /\ old.resp_cb = c.cb
  <2>1. p \in Places /\ c.cb \in Nat
    BY <1>1
  <2>2. old \in Client
    BY <1>1, <2>1
  <2>. QED BY <2>1, <2>2, ClientParts DEF RestInv, McuOK
<1>3. len \in Nat \ {0} /\ n \in Nat
  BY <1>1 DEF RestAssumption
<1>4. units \in Seq(Unit) /\ Len(units) = len /\ Heads(n, units)
  BY <1>2, <1>3, UnitsType
<1>5. ~lookup[p] /\ link[p].st = "none"
  BY DEF REST_Request, Quiet
<1>6. /\ requests' = Append(requests, q)
      /\ UNCHANGED <<restNum, mcu, answers, setups>>
      /\ \/ /\ link' = [link EXCEPT ![p] = espconn_connect(link[p])]
            /\ restClient' = [restClient EXCEPT ![p] = asking] /\ UNCHANGED lookup
         \/ /\ lookup' = [lookup EXCEPT ![p] = TRUE]
            /\ restClient' = [restClient EXCEPT ![p] = asking] /\ UNCHANGED link
         \/ /\ restClient' = [restClient EXCEPT ![p] = [asking EXCEPT !.ip = 1]]
            /\ UNCHANGED <<link, lookup>>
  BY <1>1, <1>2 DEF REST_Request
<1>7. q \in Req /\ q.cb = c.cb /\ q.units = units
  BY <1>2, <1>4
<1>8. asking \in Client /\ asking.data = units /\ asking.data_len = len /\ asking.resp_cb = c.cb
  <2>. HIDE DEF units, old
  <2>. QED BY <1>2, <1>3, <1>4 DEF Client
<1>9. [asking EXCEPT !.ip = 1] \in Client /\ [asking EXCEPT !.ip = 1].resp_cb = c.cb
  <2>. HIDE DEF asking
  <2>. QED BY <1>8 DEF Client
<1>. HIDE DEF asking, units, Req, q, n
<1>10. /\ requests' \in Seq(Req) /\ n \in DOMAIN requests' /\ requests'[n] = q
       /\ \A r \in DOMAIN requests : r \in DOMAIN requests' /\ requests'[r] = requests[r]
       /\ \A r \in DOMAIN requests' : r \in DOMAIN requests \/ r = n
  BY <1>1, <1>6, <1>7, Grows DEF n
<1>11. RequestsOK'
  <2>1. RequestsOK
    BY DEF RestInv
  <2>. QED BY <1>4, <1>7, <1>10, <2>1 DEF RequestsOK
<1>12. RightAnswer'
  <2>1. RightAnswer
    BY DEF RestInv
  <2>. QED BY <1>6, <1>10, <2>1 DEF RightAnswer
<1>13. PICK client \in Client, con \in Connection, looked \in BOOLEAN :
          /\ restClient' = [restClient EXCEPT ![p] = client]
          /\ link' = [link EXCEPT ![p] = con] /\ lookup' = [lookup EXCEPT ![p] = looked]
          /\ client.resp_cb = c.cb
          /\ PlaceOK(client, con, looked, requests')
  <2>0. link[p] \in Connection /\ lookup[p] \in BOOLEAN
        /\ [link EXCEPT ![p] = link[p]] = link /\ [lookup EXCEPT ![p] = lookup[p]] = lookup
    BY <1>1, <1>2
  <2>1. Ready(asking, requests')
    BY <1>4, <1>7, <1>8, <1>10 DEF Ready, AskedFor
  <2>2. CASE /\ link' = [link EXCEPT ![p] = espconn_connect(link[p])]
             /\ restClient' = [restClient EXCEPT ![p] = asking] /\ UNCHANGED lookup
    <3>. DEFINE con == espconn_connect(link[p])
    <3>1. con \in Connection /\ con.st = "connecting"
      BY <1>5, <2>0, Connections DEF espconn_connect, Idle
    <3>. HIDE DEF con
    <3>2. PlaceOK(asking, con, lookup[p], requests')
      BY <1>5, <2>1, <3>1 DEF PlaceOK
    <3>3. /\ restClient' = [restClient EXCEPT ![p] = asking]
          /\ link' = [link EXCEPT ![p] = con] /\ lookup' = [lookup EXCEPT ![p] = lookup[p]]
      BY <2>0, <2>2 DEF con
    <3>4. asking \in Client /\ asking.resp_cb = c.cb /\ lookup[p] \in BOOLEAN
      BY <1>8, <2>0
    <3>. QED BY <3>1, <3>2, <3>3, <3>4, Zenon
  <2>3. CASE /\ lookup' = [lookup EXCEPT ![p] = TRUE]
             /\ restClient' = [restClient EXCEPT ![p] = asking] /\ UNCHANGED link
    <3>1. PlaceOK(asking, link[p], TRUE, requests')
      BY <1>5, <2>1 DEF PlaceOK
    <3>2. link' = [link EXCEPT ![p] = link[p]] /\ TRUE \in BOOLEAN
      BY <2>0, <2>3
    <3>. QED BY <1>8, <2>0, <2>3, <3>1, <3>2
  <2>4. CASE /\ restClient' = [restClient EXCEPT ![p] = [asking EXCEPT !.ip = 1]]
             /\ UNCHANGED <<link, lookup>>
    <3>. DEFINE cached == [asking EXCEPT !.ip = 1]
    <3>1. cached \in Client /\ cached.resp_cb = c.cb
      BY <1>9
    <3>. HIDE DEF cached
    <3>2. PlaceOK(cached, link[p], lookup[p], requests')
      BY <1>5, QuietPlace
    <3>3. /\ restClient' = [restClient EXCEPT ![p] = cached] /\ link' = [link EXCEPT ![p] = link[p]]
          /\ lookup' = [lookup EXCEPT ![p] = lookup[p]]
      BY <2>0, <2>4 DEF cached
    <3>. QED BY <2>0, <3>1, <3>2, <3>3
  <2>. QED BY <1>6, <2>2, <2>3, <2>4
<1>14. RestType'
  BY <1>1, <1>2, <1>6, <1>10, <1>13 DEF RestInv, RestType, Req
<1>15. McuOK'
  <2>1. \A b \in mcu : restClient'[b.place].resp_cb = restClient[b.place].resp_cb
    <3>. SUFFICES ASSUME NEW b \in mcu
                  PROVE  restClient'[b.place].resp_cb = restClient[b.place].resp_cb
      OBVIOUS
    <3>1. b.place \in Places
      BY DEF RestInv, RestType
    <3>2. CASE b.place = p
      BY <1>1, <1>2, <1>13, <3>1, <3>2
    <3>3. CASE b.place # p
      BY <1>1, <1>2, <1>13, <3>1, <3>3
    <3>. QED BY <3>2, <3>3
  <2>2. McuOK
    BY DEF RestInv
  <2>. QED BY <1>6, <2>1, <2>2 DEF McuOK, Ago
<1>16. ASSUME NEW s \in Places PROVE PlaceOK(restClient'[s], link'[s], lookup'[s], requests')
  <2>. HIDE DEF p
  <2>1. CASE s = p
    BY <1>1, <1>2, <1>13, <2>1
  <2>2. CASE s # p
    <3>1. restClient'[s] = restClient[s] /\ link'[s] = link[s] /\ lookup'[s] = lookup[s]
      BY <1>1, <1>2, <1>13, <2>2
    <3>2. PlaceOK(restClient[s], link[s], lookup[s], requests)
      BY DEF RestInv
    <3>. QED BY <1>10, <3>1, <3>2, PlaceStays
  <2>. QED BY <2>1, <2>2
<1>. QED
  BY <1>11, <1>12, <1>14, <1>15, <1>16 DEF RestInv

-----------------------------------------------------------------------------
(* REST: the theorem *)

LEMMA RestInit == ASSUME RestAssumption PROVE Init => RestInv
<1>. SUFFICES ASSUME Init PROVE RestInv
  OBVIOUS
<1>1. 0 \in Places /\ <<>> \in Seq(Unit) /\ DOMAIN <<>> = {}
  BY DEF RestAssumption, Places
<1>2. Free \in Client /\ Idle \in Connection /\ Idle.st = "none"
  BY <1>1 DEF Free, Client, Idle, Connection
<1>3. RestType
  <2>1. IsFiniteSet({})
    BY FS_EmptySet
  <2>. QED BY <1>1, <1>2, <2>1 DEF Init, RestType
<1>4. \A p \in Places : PlaceOK(restClient[p], link[p], lookup[p], requests)
  <2>. SUFFICES ASSUME NEW p \in Places
                PROVE  PlaceOK(restClient[p], link[p], lookup[p], requests)
    OBVIOUS
  <2>1. link[p].st = "none" /\ ~lookup[p]
    BY <1>2 DEF Init
  <2>. QED BY <2>1, QuietPlace
<1>. QED
  BY <1>1, <1>3, <1>4 DEF Init, RestInv, RequestsOK, McuOK, RightAnswer

LEMMA RestStep ==
    ASSUME RestAssumption, ~Prompt
    PROVE  RestInv /\ [Next]_vars => RestInv'
<1>. SUFFICES ASSUME RestInv, [Next]_vars PROVE RestInv'
  OBVIOUS
<1>1. ASSUME NEW p \in Places, Callback(p) PROVE RestInv'
  BY <1>1, FoundStep, ConnectStep, SentStep, RecvStep, ClosedStep DEF Callback
<1>2. CASE Next
  BY <1>1, <1>2, SetupStep, HeaderStep, RequestStep, RestartStep DEF Next
<1>3. CASE UNCHANGED vars
  BY <1>3 DEF vars, RestInv, RestType, RequestsOK, McuOK, RightAnswer
<1>. QED
  BY <1>2, <1>3

(* Whatever the resolver, the server and the peer do when, and however     *)
(* often the MCU restarts in the middle of it: an answer is to the request *)
(* as a whole and goes to the callback named at the set-up of the client   *)
(* that made it (tcpclient_recv, tcpclient_sent_cb and REST_Setup), if the *)
(* MCU waits until the connection of an answered request is closed.        *)
THEOREM RightAnswerHolds ==
    ASSUME RestAssumption, ~Prompt
    PROVE  Spec => []RightAnswer
<1>1. Init => RestInv
  BY RestInit
<1>2. RestInv /\ [Next]_vars => RestInv'
  BY RestStep
<1>3. RestInv => RightAnswer
  BY DEF RestInv
<1>. QED
  BY <1>1, <1>2, <1>3, PTL DEF Spec

-----------------------------------------------------------------------------
(* The socket client: what is reported sent is with the peer *)

Datum == Nat \X Nat
Sock ==
    [sock_mode : Sockets!Modes \cup {"none"}, byName : BOOLEAN, ip : 0..1, data : Seq(Datum),
     data_len : Nat, data_sent : Nat, resp_cb : Nat]
SockLink ==
    [st : {"none", "listening", "connecting", "up", "closing"}, out : Seq(Datum), unsent : Int]
Telling ==
    [cb : Nat, kind : {"none", "CON", "RECO", "SENT", "RECV", "DIS"}, len : Nat, sents : Nat]
Sending == [place : Sockets!Places, data : Seq(Datum)]

SockType ==
    /\ socketClient \in [Sockets!Places -> Sock] /\ socketNum \in Sockets!Places
    /\ sLink \in [Sockets!Places -> SockLink] /\ sLookup \in [Sockets!Places -> BOOLEAN]
    /\ told \in [Sockets!Places -> Telling] /\ sends \in Seq(Sending) /\ sSetups \in Nat

\* d is the data of the last send with place p.
Latest(rs, p, m) == m \in DOMAIN rs /\ rs[m].place = p /\ \A j \in DOMAIN rs : j > m => rs[j].place # p
LastData(rs, p, d) == \E m \in DOMAIN rs : Latest(rs, p, m) /\ d = rs[m].data

\* Before the connection is open all of it is still to be sent; while a piece
\* is to be acknowledged the peer has all that was handed over.
ToSend(rs, p, c) == \E d \in Seq(Datum) : LastData(rs, p, d) /\ c.data = d /\ c.data_len = Len(d)
HalfSent(rs, p, c, l) ==
    \E d \in Seq(Datum), a \in Seq(Datum) :
        /\ LastData(rs, p, d) /\ c.data_len = Len(d)
        /\ c.data_sent \in 1..Len(d) /\ l.out = a \o SubSeq(d, 1, c.data_sent)
        /\ c.data_sent # c.data_len => c.data = d /\ c.data_sent = CHUNK
SockOK(rs, p, c, l, looked) ==
    /\ l.unsent \in 0..1
    /\ looked => l.st = "none"
    /\ looked \/ l.st = "connecting" => ToSend(rs, p, c)
    /\ l.st \in {"up", "closing"} /\ l.unsent = 1 => HalfSent(rs, p, c, l)

SockInv ==
    /\ SockType
    /\ \A m \in DOMAIN sends : Len(sends[m].data) \in 1..2 * CHUNK
    /\ \A p \in Sockets!Places : SockOK(sends, p, socketClient[p], sLink[p], sLookup[p])

\* What a step may tell the MCU of place p.
ToldOK(p) ==
    told'[p].sents > told[p].sents =>
        \E d \in Seq(Datum), a \in Seq(Datum) :
            /\ LastData(sends, p, d) /\ sLink[p].out = a \o d
            /\ told'[p].cb = socketClient[p].resp_cb /\ told'[p].len = Len(d)
ToldsOK == \A p \in Sockets!Places : ToldOK(p)

LEMMA LastDataSelected ==
    ASSUME NEW rs \in Seq(Sending), NEW p, NEW d, LastData(rs, p, d)
    PROVE  LET I == {i \in 1..Len(rs) : rs[i].place = p}
           IN  rs[IF I # {} THEN Sockets!Max(I) ELSE 0].data = d
<1>. DEFINE I == {i \in 1..Len(rs) : rs[i].place = p}
<1>1. PICK m \in DOMAIN rs : Latest(rs, p, m) /\ d = rs[m].data
  BY DEF LastData
<1>3. m \in I /\ \A j \in I : m >= j
  BY <1>1 DEF Latest
<1>. DEFINE x == Sockets!Max(I)
<1>4. x = CHOOSE y \in I : \A j \in I : y >= j
  BY DEF Sockets!Max
<1>. HIDE DEF x
<1>5. x \in I /\ \A j \in I : x >= j
  BY <1>3, <1>4
<1>6. x = m
  <2>1. I \subseteq Int
    OBVIOUS
  <2>. HIDE DEF I
  <2>. QED BY <1>3, <1>5, <2>1
<1>. HIDE DEF I
<1>7. (IF I # {} THEN Sockets!Max(I) ELSE 0) = m
  BY <1>3, <1>6 DEF x
<1>. QED
  BY <1>1, <1>7 DEF I

LEMMA SuffixIs ==
    ASSUME NEW a \in Seq(Datum), NEW d \in Seq(Datum)
    PROVE  Sockets!IsSuffix(d, a \o d)
<1>. DEFINE s == a \o d
            n == Len(a)
            m == Len(d)
            r == Sockets!Reverse(d)
            t == Sockets!Reverse(s)
<1>1. /\ s \in Seq(Datum) /\ Len(s) = n + m /\ n \in Nat /\ m \in Nat
      /\ \A i \in 1..m : s[n + i] = d[i]
  BY Concatenation
<1>2. r = [i \in 1..m |-> d[(m - i) + 1]] /\ t = [i \in 1..Len(s) |-> s[(Len(s) - i) + 1]]
  BY DEF Sockets!Reverse
<1>3. \A i \in 1..m : d[i] \in Datum
  OBVIOUS
<1>. HIDE DEF n, m, s, r, t
<1>4. \A i \in 1..m : (m - i) + 1 \in 1..m
  BY <1>1
<1>5. r \in Seq(Datum) /\ Len(r) = m /\ \A i \in 1..m : r[i] = d[(m - i) + 1]
  <2>1. r \in [1..m -> Datum]
    BY <1>2, <1>3, <1>4
  <2>. QED BY <1>1, <1>2, <2>1
<1>6. t \in Seq(Datum) /\ Len(t) = n + m /\ \A i \in 1..n + m : t[i] = s[(n + m - i) + 1]
  <2>1. \A i \in 1..n + m : (n + m - i) + 1 \in 1..n + m
    BY <1>1
  <2>2. \A i \in 1..n + m : s[i] \in Datum
    BY <1>1
  <2>3. t = [i \in 1..n + m |-> s[(n + m - i) + 1]]
    BY <1>1, <1>2
  <2>4. t \in [1..n + m -> Datum]
    BY <2>1, <2>2, <2>3
  <2>5. n + m \in Nat
    BY <1>1
  <2>6. \A x \in Nat : t \in [1..x -> Datum] => t \in Seq(Datum) /\ Len(t) = x
    OBVIOUS
  <2>7. t \in Seq(Datum) /\ Len(t) = n + m
    BY <2>4, <2>5, <2>6
  <2>8. \A i \in 1..n + m : t[i] = s[(n + m - i) + 1]
    BY <2>3
  <2>. QED BY <2>7, <2>8
<1>7. \A i \in 1..m : r[i] = t[i]
  <2>. SUFFICES ASSUME NEW i \in 1..m PROVE r[i] = t[i]
    OBVIOUS
  <2>1. /\ i \in 1..n + m /\ (n + m - i) + 1 = n + ((m - i) + 1) /\ (m - i) + 1 \in 1..m
    BY <1>1
  <2>2. s[n + ((m - i) + 1)] = d[(m - i) + 1]
    BY <1>1, <2>1
  <2>. QED BY <1>5, <1>6, <2>1, <2>2
<1>8. m <= n + m
  BY <1>1
<1>9. SubSeq(r, 1, m) = SubSeq(t, 1, m)
  <2>1. SubSeq(r, 1, m) \in Seq(Datum) /\ Len(SubSeq(r, 1, m)) = m /\ \A i \in 1..m : SubSeq(r, 1, m)[i] = r[i]
    BY <1>1, <1>5
  <2>2. SubSeq(t, 1, m) \in Seq(Datum) /\ Len(SubSeq(t, 1, m)) = m /\ \A i \in 1..m : SubSeq(t, 1, m)[i] = t[i]
    BY <1>1, <1>6, <1>8
  <2>. QED BY <1>7, <2>1, <2>2, SeqEqual
<1>. QED
  BY <1>5, <1>6, <1>8, <1>9 DEF Sockets!IsSuffix, Sockets!IsPrefix, r, t, s

LEMMA SockLinkFields ==
    ASSUME NEW l \in SockLink
    PROVE  /\ Sockets!Idle \in SockLink /\ Sockets!Idle.st = "none" /\ Sockets!Idle.unsent = 0
           /\ LET i == [Sockets!Idle EXCEPT !.st = "listening"]
              IN  i \in SockLink /\ i.st = "listening" /\ i.unsent = 0
           /\ LET c == Sockets!espconn_connect(l)
              IN  c \in SockLink /\ (l.st = "none" => c.st = "connecting" /\ c.unsent = 0)
           /\ LET d == Sockets!espconn_disconnect(l)
              IN  /\ d \in SockLink /\ d.out = l.out /\ d.unsent = l.unsent
                  /\ d.st \in {l.st, "closing"} /\ (d.st = "closing" => l.st \in {"up", "closing"})
           /\ LET o == Sockets!Opened(l)
              IN  o \in SockLink /\ o.st = "up" /\ o.out = <<>> /\ o.unsent = 0
           /\ LET a == Sockets!Acknowledged(l)
              IN  a \in SockLink /\ a.st = l.st /\ a.out = l.out /\ a.unsent = l.unsent - 1
<1>. DEFINE none == <<>>
            Idle0 == [st |-> "none", out |-> none, unsent |-> 0]
<1>1. none \in Seq(Datum) /\ l.out \in Seq(Datum) /\ l.unsent \in Int
  BY DEF SockLink
<1>. HIDE DEF none
<1>2. Idle0 \in SockLink /\ Idle0.st = "none" /\ Idle0.unsent = 0
  BY <1>1 DEF SockLink
<1>3. Sockets!Idle = Idle0
  BY DEF Sockets!Idle, none
<1>. HIDE DEF Idle0
<1>4. \A st \in {"listening", "connecting"} :
         LET i == [Idle0 EXCEPT !.st = st] IN i \in SockLink /\ i.st = st /\ i.unsent = 0
  BY <1>2 DEF SockLink
<1>5. LET c == Sockets!espconn_connect(l)
      IN  c \in SockLink /\ (l.st = "none" => c.st = "connecting" /\ c.unsent = 0)
  BY <1>3, <1>4 DEF Sockets!espconn_connect
<1>6. LET d == Sockets!espconn_disconnect(l)
      IN  /\ d \in SockLink /\ d.out = l.out /\ d.unsent = l.unsent
          /\ d.st \in {l.st, "closing"} /\ (d.st = "closing" => l.st \in {"up", "closing"})
  BY DEF Sockets!espconn_disconnect, SockLink
<1>7. LET o == Sockets!Opened(l)
      IN  o \in SockLink /\ o.st = "up" /\ o.out = none /\ o.unsent = 0
  <2>. DEFINE new == Sockets!Opened(l)
  <2>1. \A st \in {"none", "listening", "connecting", "up", "closing"}, out \in Seq(Datum), n \in Int :
           new = [l EXCEPT !.st = st, !.out = out, !.unsent = n] =>
              new \in SockLink /\ new.st = st /\ new.out = out /\ new.unsent = n
    <3>. HIDE DEF new
    <3>. QED BY DEF SockLink
  <2>2. new = [l EXCEPT !.st = "up", !.out = none, !.unsent = 0]
    BY DEF Sockets!Opened, none
  <2>3. "up" \in {"none", "listening", "connecting", "up", "closing"} /\ 0 \in Int
    OBVIOUS
  <2>4. new \in SockLink /\ new.st = "up" /\ new.out = none /\ new.unsent = 0
    <3>. HIDE DEF new
    <3>. QED BY <1>1, <2>1, <2>2, <2>3, Zenon
  <2>. QED BY <2>4
<1>8. LET a == Sockets!Acknowledged(l)
      IN  a \in SockLink /\ a.st = l.st /\ a.out = l.out /\ a.unsent = l.unsent - 1
  <2>. DEFINE n == l.unsent - 1
  <2>1. n \in Int /\ Sockets!Acknowledged(l) = [l EXCEPT !.unsent = n]
    BY <1>1 DEF Sockets!Acknowledged, SockLink
  <2>. HIDE DEF n
  <2>2. LET a == Sockets!Acknowledged(l)
        IN  a \in SockLink /\ a.st = l.st /\ a.out = l.out /\ a.unsent = n
    BY <2>1 DEF SockLink
  <2>. QED BY <2>2 DEF n
<1>. QED
  BY <1>2, <1>3, <1>4, <1>5, <1>6, <1>7, <1>8 DEF none

LEMMA PieceSent ==
    ASSUME NEW l \in SockLink, NEW data \in Seq(Datum)
    PROVE  LET s == Sockets!espconn_sent(l, data)
           IN  /\ s \in SockLink /\ s.st = l.st
               /\ l.st = "up" => s.out = l.out \o data /\ s.unsent = l.unsent + 1
               /\ l.st # "up" => s = l
<1>. DEFINE n == l.unsent + 1
            out == l.out \o data
<1>0. l.out \in Seq(Datum) /\ l.unsent \in Int
  BY DEF SockLink
<1>1. n \in Int /\ out \in Seq(Datum)
  BY <1>0, Concatenation
<1>2. Sockets!espconn_sent(l, data) = IF l.st = "up" THEN [l EXCEPT !.out = out, !.unsent = n] ELSE l
  BY DEF Sockets!espconn_sent, SockLink
<1>. HIDE DEF n, out
<1>3. LET s == Sockets!espconn_sent(l, data)
      IN  /\ s \in SockLink /\ s.st = l.st
          /\ l.st = "up" => s.out = out /\ s.unsent = n
          /\ l.st # "up" => s = l
  BY <1>1, <1>2 DEF SockLink
<1>. QED
  BY <1>3 DEF n, out

LEMMA SockFields ==
    ASSUME SockInv, NEW p \in Sockets!Places
    PROVE  /\ socketClient[p] \in Sock /\ sLink[p] \in SockLink /\ sLookup[p] \in BOOLEAN
           /\ told[p] \in Telling
           /\ socketClient = [socketClient EXCEPT ![p] = socketClient[p]]
           /\ sLink = [sLink EXCEPT ![p] = sLink[p]] /\ sLookup = [sLookup EXCEPT ![p] = sLookup[p]]
           /\ SockOK(sends, p, socketClient[p], sLink[p], sLookup[p])
BY DEF SockInv, SockType

\* A callback of place p: the other places and the sends are not touched.
LEMMA SockStep ==
    ASSUME SockInv, NEW p \in Sockets!Places, NEW c \in Sock, NEW l \in SockLink, NEW k \in BOOLEAN,
           SockOK(sends, p, c, l, k),
           socketClient' = [socketClient EXCEPT ![p] = c], sLink' = [sLink EXCEPT ![p] = l],
           sLookup' = [sLookup EXCEPT ![p] = k],
           sends' = sends, socketNum' \in Sockets!Places, sSetups' \in Nat,
           told' \in [Sockets!Places -> Telling]
    PROVE  SockInv'
<1>1. /\ SockType /\ socketClient'[p] = c /\ sLink'[p] = l /\ sLookup'[p] = k
      /\ \A q \in Sockets!Places : q # p =>
            socketClient'[q] = socketClient[q] /\ sLink'[q] = sLink[q] /\ sLookup'[q] = sLookup[q]
  BY DEF SockInv, SockType
<1>2. /\ socketClient' \in [Sockets!Places -> Sock] /\ sLink' \in [Sockets!Places -> SockLink]
      /\ sLookup' \in [Sockets!Places -> BOOLEAN]
  BY <1>1 DEF SockType
<1>3. ASSUME NEW q \in Sockets!Places PROVE SockOK(sends, q, socketClient'[q], sLink'[q], sLookup'[q])
  <2>1. SockOK(sends, q, socketClient[q], sLink[q], sLookup[q])
    BY DEF SockInv
  <2>2. CASE q = p
    BY <1>1, <2>2
  <2>3. CASE q # p
    BY <1>1, <2>1, <2>3
  <2>. QED BY <2>2, <2>3
<1>4. SockType'
  BY <1>1, <1>2 DEF SockType
<1>. QED
  BY <1>3, <1>4 DEF SockInv

LEMMA ReportFields ==
    ASSUME SockInv, NEW p \in Sockets!Places, NEW kind \in {"CON", "RECO", "SENT", "RECV", "DIS"}, NEW len \in Nat,
           Sockets!Report(p, kind, len)
    PROVE  /\ told' \in [Sockets!Places -> Telling]
           /\ told'[p].cb = socketClient[p].resp_cb /\ told'[p].len = len
           /\ kind # "SENT" => ToldsOK
           /\ \A q \in Sockets!Places : q # p => ToldOK(q)
<1>. DEFINE n == IF kind = "SENT" THEN told[p].sents + 1 ELSE told[p].sents
            new == [cb |-> socketClient[p].resp_cb, kind |-> kind, len |-> len, sents |-> n]
<1>1. told \in [Sockets!Places -> Telling] /\ told[p] \in Telling /\ socketClient[p].resp_cb \in Nat
  BY SockFields DEF SockInv, SockType, Sock
<1>2. told' = [told EXCEPT ![p] = new]
  BY <1>1 DEF Sockets!Report
<1>3. n \in Nat /\ told[p].sents \in Nat /\ (kind # "SENT" => n = told[p].sents)
  BY <1>1 DEF Telling
<1>. HIDE DEF n
<1>4. new \in Telling /\ new.cb = socketClient[p].resp_cb /\ new.len = len /\ new.sents = n
  BY <1>1, <1>3 DEF Telling
<1>. HIDE DEF new
<1>5. told' \in [Sockets!Places -> Telling] /\ told'[p] = new /\ \A q \in Sockets!Places : q # p => told'[q] = told[q]
  BY <1>1, <1>2, <1>4
<1>6. \A q \in Sockets!Places : ~(told[q].sents > told[q].sents)
  BY <1>1 DEF Telling
<1>7. ASSUME NEW q \in Sockets!Places, q # p PROVE ToldOK(q)
  BY <1>5, <1>6, <1>7 DEF ToldOK
<1>8. kind # "SENT" => ToldOK(p)
  BY <1>3, <1>4, <1>5, <1>6 DEF ToldOK
<1>. QED
  BY <1>4, <1>5, <1>7, <1>8 DEF ToldsOK

LEMMA NothingTold ==
    ASSUME SockInv, UNCHANGED told
    PROVE  told' \in [Sockets!Places -> Telling] /\ ToldsOK
<1>1. told \in [Sockets!Places -> Telling]
  BY DEF SockInv, SockType
<1>2. \A q \in Sockets!Places : ~(told[q].sents > told[q].sents)
  BY <1>1 DEF Telling
<1>. QED
  BY <1>1, <1>2 DEF ToldsOK, ToldOK

-----------------------------------------------------------------------------
(* Sockets: the callbacks *)

\* The state in which a callback of place p finds the connection.
LEMMA DnsFoundStep ==
    ASSUME SockInv, NEW p \in Sockets!Places, NEW found \in BOOLEAN, Sockets!socket_dns_found(p, found)
    PROVE  SockInv' /\ ToldsOK
<1>. DEFINE c == socketClient[p]
            l == IF found /\ socketClient[p].ip = 0 THEN Sockets!espconn_connect(sLink[p]) ELSE sLink[p]
<1>1. /\ c \in Sock /\ sLink[p] \in SockLink /\ sLookup[p]
      /\ SockOK(sends, p, c, sLink[p], sLookup[p])
      /\ socketClient' = [socketClient EXCEPT ![p] = c]
      /\ UNCHANGED <<sends, socketNum, sSetups>>
  BY SockFields DEF Sockets!socket_dns_found
<1>2. sLookup' = [sLookup EXCEPT ![p] = FALSE] /\ sLink' = [sLink EXCEPT ![p] = l]
  BY SockFields DEF Sockets!socket_dns_found
<1>3. told' \in [Sockets!Places -> Telling] /\ ToldsOK
  <2>1. UNCHANGED told \/ Sockets!Report(p, "RECO", 0)
    BY DEF Sockets!socket_dns_found
  <2>. QED BY <2>1, NothingTold, ReportFields
<1>4. l \in SockLink /\ l.st \in {"none", "connecting"} /\ l.unsent \in 0..1
  <2>1. sLink[p].st = "none" /\ sLink[p].unsent \in 0..1
    BY <1>1 DEF SockOK
  <2>. QED BY <1>1, <2>1, SockLinkFields
<1>. HIDE DEF l, c
<1>5. SockOK(sends, p, c, l, FALSE)
  BY <1>1, <1>4 DEF SockOK
<1>6. socketNum' \in Sockets!Places /\ sSetups' \in Nat /\ sends' = sends
  BY <1>1 DEF SockInv, SockType
<1>. QED
  BY <1>1, <1>2, <1>3, <1>4, <1>5, <1>6, SockStep

\* What is handed over first.
LEMMA FirstPartIs ==
    ASSUME ClientsAssumption, NEW n \in 1..2 * CHUNK
    PROVE  Sockets!FirstPart(n) \in 1..n /\ (Sockets!FirstPart(n) # n => Sockets!FirstPart(n) = CHUNK)
BY DEF ClientsAssumption, Sockets!SocketAssumption, Sockets!FirstPart

LEMMA LastDataOK ==
    ASSUME SockInv, NEW p, NEW d, LastData(sends, p, d)
    PROVE  d \in Seq(Datum) /\ Len(d) \in 1..2 * CHUNK
<1>1. PICK m \in DOMAIN sends : d = sends[m].data
  BY DEF LastData
<1>2. sends[m] \in Sending
  BY DEF SockInv, SockType
<1>. QED
  BY <1>1, <1>2 DEF SockInv, Sending

LEMMA SocketConnectStep ==
    ASSUME SockInv, ClientsAssumption, NEW p \in Sockets!Places, Sockets!socketclient_connect_cb(p)
    PROVE  SockInv' /\ ToldsOK
<1>1. /\ socketClient[p] \in Sock /\ sLink[p] \in SockLink /\ sLookup[p] \in BOOLEAN
      /\ SockOK(sends, p, socketClient[p], sLink[p], sLookup[p])
      /\ sLookup' = [sLookup EXCEPT ![p] = sLookup[p]]
      /\ UNCHANGED <<sends, socketNum, sSetups>>
      /\ Sockets!Report(p, "CON", 0)
  BY SockFields DEF Sockets!socketclient_connect_cb
<1>2. told' \in [Sockets!Places -> Telling] /\ ToldsOK
  BY <1>1, ReportFields
<1>3. socketNum' \in Sockets!Places /\ sSetups' \in Nat /\ sends' = sends
  BY <1>1 DEF SockInv, SockType
<1>4. CASE socketClient[p].sock_mode # "TCP_SERVER"
  <2>. DEFINE n == Sockets!FirstPart(socketClient[p].data_len)
              c == [socketClient[p] EXCEPT !.data_sent = n]
              o == Sockets!Opened(sLink[p])
              l == Sockets!espconn_sent(o, SubSeq(socketClient[p].data, 1, n))
  <2>1. /\ sLink[p].st = "connecting"
        /\ socketClient' = [socketClient EXCEPT ![p] = c] /\ sLink' = [sLink EXCEPT ![p] = l]
    <3>1. socketClient \in [Sockets!Places -> Sock] /\ sLink \in [Sockets!Places -> SockLink]
      BY DEF SockInv, SockType
    <3>. QED BY <1>4, <3>1 DEF Sockets!socketclient_connect_cb, Sockets!Connecting
  <2>2. PICK d \in Seq(Datum) : /\ LastData(sends, p, d)
                               /\ socketClient[p].data = d /\ socketClient[p].data_len = Len(d)
    BY <1>1, <2>1 DEF SockOK, ToSend
  <2>3. n \in 1..Len(d) /\ (n # Len(d) => n = CHUNK) /\ n \in Nat
    <3>1. Len(d) \in 1..2 * CHUNK
      BY <2>2, LastDataOK
    <3>2. n \in 1..Len(d) /\ (n # Len(d) => n = CHUNK)
      BY <2>2, <3>1, FirstPartIs
    <3>. QED BY <3>2
  <2>. HIDE DEF n
  <2>4. c \in Sock /\ c.data = d /\ c.data_len = Len(d) /\ c.data_sent = n
    BY <1>1, <2>2, <2>3 DEF Sock
  <2>5. SubSeq(d, 1, n) \in Seq(Datum) /\ <<>> \in Seq(Datum)
    BY <2>3
  <2>6. l \in SockLink /\ l.st = "up" /\ l.out = <<>> \o SubSeq(d, 1, n) /\ l.unsent = 0 + 1
    <3>1. o \in SockLink /\ o.st = "up" /\ o.out = <<>> /\ o.unsent = 0
      BY <1>1, SockLinkFields
    <3>. HIDE DEF o
    <3>. QED BY <2>2, <2>5, <3>1, PieceSent
  <2>7. ~sLookup[p]
    BY <1>1, <2>1 DEF SockOK
  <2>. HIDE DEF c, l
  <2>8. HalfSent(sends, p, c, l)
    BY <2>2, <2>3, <2>4, <2>5, <2>6 DEF HalfSent
  <2>9. SockOK(sends, p, c, l, sLookup[p])
    BY <2>6, <2>7, <2>8 DEF SockOK
  <2>. QED BY <1>1, <1>2, <1>3, <2>1, <2>4, <2>6, <2>9, SockStep
<1>5. CASE socketClient[p].sock_mode = "TCP_SERVER"
  <2>. DEFINE l == Sockets!Opened(sLink[p])
  <2>1. /\ sLink[p].st = "listening" /\ sLink' = [sLink EXCEPT ![p] = l]
        /\ socketClient' = [socketClient EXCEPT ![p] = socketClient[p]]
    BY <1>5, SockFields DEF Sockets!socketclient_connect_cb
  <2>2. l \in SockLink /\ l.st = "up" /\ l.unsent = 0 /\ ~sLookup[p]
    BY <1>1, <2>1, SockLinkFields DEF SockOK
  <2>. HIDE DEF l
  <2>3. SockOK(sends, p, socketClient[p], l, sLookup[p])
    BY <2>2 DEF SockOK
  <2>. QED BY <1>1, <1>2, <1>3, <2>1, <2>2, <2>3, SockStep
<1>. QED
  BY <1>4, <1>5

\* The next part, which is the last: what is sent has at most two.
LEMMA NextPartStep ==
    ASSUME SockInv, ClientsAssumption, NEW p \in Sockets!Places, Sockets!socketclient_sent_cb(p),
           socketClient[p].data_sent # socketClient[p].data_len
    PROVE  SockInv' /\ ToldsOK
<1>. DEFINE old == socketClient[p]
            k == old.data_sent
            left == Sockets!Left(old)
            n == Sockets!FirstPart(left)
            c == [old EXCEPT !.data_sent = k + n]
            acked == Sockets!Acknowledged(sLink[p])
            part == Sockets!NextPart(old)
            l == Sockets!espconn_sent(acked, part)
<1>1. /\ old \in Sock /\ sLink[p] \in SockLink /\ sLookup[p] \in BOOLEAN
      /\ SockOK(sends, p, old, sLink[p], sLookup[p])
      /\ sLookup' = [sLookup EXCEPT ![p] = sLookup[p]]
      /\ UNCHANGED <<sends, socketNum, sSetups, told>>
      /\ sLink[p].st \in {"up", "closing"} /\ sLink[p].unsent > 0
  BY SockFields DEF Sockets!socketclient_sent_cb, Sockets!Live
<1>2. /\ socketClient' = [socketClient EXCEPT ![p] = c]
      /\ ~(left > CHUNK) => sLink' = [sLink EXCEPT ![p] = l]
  <2>1. socketClient \in [Sockets!Places -> Sock] /\ sLink \in [Sockets!Places -> SockLink]
    BY DEF SockInv, SockType
  <2>. QED BY <2>1 DEF Sockets!socketclient_sent_cb
<1>3. told' \in [Sockets!Places -> Telling] /\ ToldsOK
  BY <1>1, NothingTold
<1>4. socketNum' \in Sockets!Places /\ sSetups' \in Nat /\ sends' = sends
  BY <1>1 DEF SockInv, SockType
<1>5. sLink[p].unsent = 1 /\ ~sLookup[p] /\ HalfSent(sends, p, old, sLink[p])
  BY <1>1 DEF SockOK
<1>6. PICK d \in Seq(Datum), a \in Seq(Datum) :
         /\ LastData(sends, p, d) /\ old.data_len = Len(d) /\ old.data = d
         /\ k \in 1..Len(d) /\ sLink[p].out = a \o SubSeq(d, 1, k) /\ k = CHUNK
  BY <1>5 DEF HalfSent
<1>7. Len(d) \in 1..2 * CHUNK /\ CHUNK \in Nat
  BY <1>6, LastDataOK DEF ClientsAssumption, Sockets!SocketAssumption
<1>8. left = Len(d) - k
  BY <1>6 DEF Sockets!Left
<1>9. ~(left > CHUNK) /\ n = left /\ k + n = Len(d) /\ k \in Nat /\ k + n \in Nat
  <2>. HIDE DEF k
  <2>1. Len(d) - k <= CHUNK /\ k + (Len(d) - k) = Len(d) /\ k \in Nat /\ Len(d) \in Nat
    BY <1>6, <1>7
  <2>. HIDE DEF left
  <2>2. left <= CHUNK /\ left \in Int
    BY <1>7, <1>8, <2>1
  <2>3. n = left /\ ~(left > CHUNK)
    BY <1>7, <2>2 DEF Sockets!FirstPart
  <2>. QED BY <1>8, <2>1, <2>3
<1>10. part = SubSeq(d, k + 1, Len(d))
  BY <1>6, <1>9 DEF Sockets!NextPart
<1>. DEFINE x == SubSeq(d, 1, k)
            y == SubSeq(d, k + 1, Len(d))
<1>11. x \in Seq(Datum) /\ y \in Seq(Datum) /\ x \o y = d /\ SubSeq(d, 1, Len(d)) = d
  <2>1. k \in 0..Len(d)
    BY <1>6
  <2>. HIDE DEF k
  <2>2. \A j \in 0..Len(d) : SubSeq(d, 1, j) \in Seq(Datum) /\ SubSeq(d, j + 1, Len(d)) \in Seq(Datum)
    OBVIOUS
  <2>3. SubSeq(d, 1, Len(d)) = d
    OBVIOUS
  <2>4. x \o y = d
    BY <2>1, SpliceSeq
  <2>. QED BY <2>1, <2>2, <2>3, <2>4
<1>. HIDE DEF k, left, n, part, x, y
<1>12. c \in Sock /\ c.data_sent = Len(d) /\ c.data_len = Len(d)
  BY <1>1, <1>6, <1>9 DEF Sock
<1>13. acked \in SockLink /\ acked.st = sLink[p].st /\ acked.out = a \o x /\ acked.unsent = 0
  <2>1. /\ acked \in SockLink /\ acked.st = sLink[p].st /\ acked.out = sLink[p].out
        /\ acked.unsent = sLink[p].unsent - 1
    BY <1>1, SockLinkFields
  <2>. QED BY <1>5, <1>6, <2>1 DEF x
<1>. HIDE DEF acked
<1>14. /\ l \in SockLink /\ l.st = sLink[p].st
       /\ l.st = "up" => l.out = (a \o x) \o y /\ l.unsent = 1
       /\ l.st # "up" => l.unsent = 0
  <2>1. part = y
    BY <1>10 DEF y
  <2>. DEFINE m == Sockets!espconn_sent(acked, y)
  <2>2. /\ m \in SockLink /\ m.st = acked.st
        /\ acked.st = "up" => m.out = acked.out \o y /\ m.unsent = acked.unsent + 1
        /\ acked.st # "up" => m = acked
    BY <1>11, <1>13, PieceSent
  <2>3. l = m
    BY <2>1
  <2>. HIDE DEF l, m
  <2>. QED BY <1>13, <2>2, <2>3
<1>15. (a \o x) \o y = a \o d
  <2>1. a \in Seq(Datum) /\ x \in Seq(Datum) /\ y \in Seq(Datum)
    BY <1>11
  <2>2. (a \o x) \o y = a \o (x \o y)
    BY <2>1, ConcatAssociative
  <2>. QED BY <1>11, <2>2
<1>. HIDE DEF c, l
<1>16. l.st = "up" => HalfSent(sends, p, c, l)
  <2>1. Len(d) \in 1..Len(d)
    BY <1>7
  <2>. QED BY <1>6, <1>11, <1>12, <1>14, <1>15, <2>1 DEF HalfSent
<1>17. SockOK(sends, p, c, l, sLookup[p])
  BY <1>1, <1>5, <1>14, <1>16 DEF SockOK
<1>. QED
  BY <1>1, <1>2, <1>3, <1>4, <1>9, <1>12, <1>14, <1>17, SockStep

\* Everything was acknowledged, and the MCU is told.
LEMMA AllSentStep ==
    ASSUME SockInv, ClientsAssumption, NEW p \in Sockets!Places, Sockets!socketclient_sent_cb(p),
           socketClient[p].data_sent = socketClient[p].data_len
    PROVE  SockInv' /\ ToldsOK
<1>. DEFINE old == socketClient[p]
            c == [old EXCEPT !.data = <<>>]
            acked == Sockets!Acknowledged(sLink[p])
            l == IF old.sock_mode = "TCP_CLIENT" THEN Sockets!espconn_disconnect(acked) ELSE acked
<1>1. /\ old \in Sock /\ sLink[p] \in SockLink /\ sLookup[p] \in BOOLEAN
      /\ SockOK(sends, p, old, sLink[p], sLookup[p])
      /\ sLookup' = [sLookup EXCEPT ![p] = sLookup[p]]
      /\ UNCHANGED <<sends, socketNum, sSetups>>
      /\ sLink[p].st \in {"up", "closing"} /\ sLink[p].unsent > 0
      /\ Sockets!Report(p, "SENT", old.data_sent)
  BY SockFields DEF Sockets!socketclient_sent_cb, Sockets!Live
<1>2. socketClient' = [socketClient EXCEPT ![p] = c] /\ sLink' = [sLink EXCEPT ![p] = l]
  <2>1. socketClient \in [Sockets!Places -> Sock] /\ sLink \in [Sockets!Places -> SockLink]
    BY DEF SockInv, SockType
  <2>. QED BY <2>1 DEF Sockets!socketclient_sent_cb
<1>3. socketNum' \in Sockets!Places /\ sSetups' \in Nat /\ sends' = sends
  BY <1>1 DEF SockInv, SockType
<1>4. sLink[p].unsent = 1 /\ ~sLookup[p] /\ HalfSent(sends, p, old, sLink[p])
  BY <1>1 DEF SockOK
<1>5. PICK d \in Seq(Datum), a \in Seq(Datum) :
         /\ LastData(sends, p, d) /\ old.data_len = Len(d)
         /\ sLink[p].out = a \o SubSeq(d, 1, old.data_sent)
  BY <1>4 DEF HalfSent
<1>6. sLink[p].out = a \o d
  <2>1. SubSeq(d, 1, Len(d)) = d
    OBVIOUS
  <2>. QED BY <1>5, <2>1
<1>7. /\ told' \in [Sockets!Places -> Telling] /\ \A q \in Sockets!Places : q # p => ToldOK(q)
      /\ told'[p].cb = old.resp_cb /\ told'[p].len = old.data_sent
  <2>1. old.data_sent \in Nat
    BY <1>1 DEF Sock
  <2>. QED BY <1>1, <2>1, ReportFields
<1>8. ToldsOK
  BY <1>5, <1>6, <1>7 DEF ToldsOK, ToldOK
<1>9. c \in Sock
  <2>1. \A data \in Seq(Datum) : [old EXCEPT !.data = data] \in Sock
    BY <1>1 DEF Sock
  <2>2. <<>> \in Seq(Datum)
    OBVIOUS
  <2>. QED BY <2>1, <2>2
<1>10. acked \in SockLink /\ acked.st = sLink[p].st /\ acked.unsent = 0
  BY <1>1, <1>4, SockLinkFields
<1>11. l \in SockLink /\ l.unsent = 0 /\ l.st \in {"up", "closing"}
  <2>. HIDE DEF acked
  <2>. QED BY <1>1, <1>10, SockLinkFields
<1>. HIDE DEF c, l
<1>12. SockOK(sends, p, c, l, sLookup[p])
  BY <1>4, <1>11 DEF SockOK
<1>. QED
  BY <1>1, <1>2, <1>3, <1>7, <1>8, <1>9, <1>11, <1>12, SockStep

LEMMA RecvStepOfSocket ==
    ASSUME SockInv, NEW p \in Sockets!Places, Sockets!socketclient_recv_cb(p)
    PROVE  SockInv' /\ ToldsOK
<1>. DEFINE c == socketClient[p]
            l == IF c.sock_mode \in {"TCP_SERVER", "UDP"} THEN sLink[p] ELSE Sockets!espconn_disconnect(sLink[p])
<1>1. /\ c \in Sock /\ sLink[p] \in SockLink /\ sLookup[p] \in BOOLEAN
      /\ SockOK(sends, p, c, sLink[p], sLookup[p])
      /\ socketClient' = [socketClient EXCEPT ![p] = c] /\ sLookup' = [sLookup EXCEPT ![p] = sLookup[p]]
      /\ UNCHANGED <<sends, socketNum, sSetups>>
      /\ sLink[p].st = "up"
      /\ Sockets!Report(p, "RECV", 1)
  BY SockFields DEF Sockets!socketclient_recv_cb, Sockets!Up
<1>2. sLink' = [sLink EXCEPT ![p] = l]
  <2>1. sLink \in [Sockets!Places -> SockLink]
    BY DEF SockInv, SockType
  <2>. QED BY <2>1 DEF Sockets!socketclient_recv_cb
<1>3. told' \in [Sockets!Places -> Telling] /\ ToldsOK
  BY <1>1, ReportFields
<1>4. socketNum' \in Sockets!Places /\ sSetups' \in Nat /\ sends' = sends
  BY <1>1 DEF SockInv, SockType
<1>5. l \in SockLink /\ l.st \in {"up", "closing"} /\ l.out = sLink[p].out /\ l.unsent = sLink[p].unsent
  BY <1>1, SockLinkFields
<1>. HIDE DEF l, c
<1>6. SockOK(sends, p, c, l, sLookup[p])
  BY <1>1, <1>5 DEF SockOK, HalfSent
<1>. QED
  BY <1>1, <1>2, <1>3, <1>4, <1>5, <1>6, SockStep

LEMMA SocketEndStep ==
    ASSUME SockInv, NEW p \in Sockets!Places,
           Sockets!socketclient_discon_cb(p) \/ Sockets!socketclient_recon_cb(p)
    PROVE  SockInv' /\ ToldsOK
<1>. DEFINE c == [socketClient[p] EXCEPT !.data = <<>>]
            l == Sockets!After(socketClient[p].sock_mode)
<1>1. PICK kind \in {"DIS", "RECO"} : Sockets!Ended(p, kind)
  BY DEF Sockets!socketclient_discon_cb, Sockets!socketclient_recon_cb
<1>2. /\ socketClient[p] \in Sock /\ sLookup[p] \in BOOLEAN
      /\ SockOK(sends, p, socketClient[p], sLink[p], sLookup[p])
      /\ sLookup' = [sLookup EXCEPT ![p] = sLookup[p]]
      /\ UNCHANGED <<sends, socketNum, sSetups>>
      /\ sLink[p].st # "none"
      /\ Sockets!Report(p, kind, 0)
  BY <1>1, SockFields DEF Sockets!Ended, Sockets!socketclient_discon_cb, Sockets!socketclient_recon_cb, Sockets!Live
<1>3. socketClient' = [socketClient EXCEPT ![p] = c] /\ sLink' = [sLink EXCEPT ![p] = l]
  <2>1. socketClient \in [Sockets!Places -> Sock]
    BY DEF SockInv, SockType
  <2>. QED BY <1>1, <2>1 DEF Sockets!Ended
<1>4. told' \in [Sockets!Places -> Telling] /\ ToldsOK
  BY <1>2, ReportFields
<1>5. socketNum' \in Sockets!Places /\ sSetups' \in Nat /\ sends' = sends
  BY <1>2 DEF SockInv, SockType
<1>6. c \in Sock
  <2>1. \A data \in Seq(Datum) : [socketClient[p] EXCEPT !.data = data] \in Sock
    BY <1>2 DEF Sock
  <2>2. <<>> \in Seq(Datum)
    OBVIOUS
  <2>. QED BY <2>1, <2>2
<1>7. l \in SockLink /\ l.st \in {"none", "listening"} /\ l.unsent = 0 /\ ~sLookup[p]
  <2>1. sLink[p] \in SockLink
    BY SockFields
  <2>. QED BY <1>2, <2>1, SockLinkFields DEF Sockets!After, SockOK
<1>. HIDE DEF l, c
<1>8. SockOK(sends, p, c, l, sLookup[p])
  BY <1>7 DEF SockOK
<1>. QED
  BY <1>2, <1>3, <1>4, <1>5, <1>6, <1>7, <1>8, SockStep

-----------------------------------------------------------------------------
(* Sockets: the commands of the MCU *)

LEMMA NextSocketPlace ==
    ASSUME ClientsAssumption, SockInv
    PROVE  Sockets!NextPlace \in Sockets!Places
<1>1. socketNum \in Sockets!Places /\ MAX_REST \in Nat \ {0}
  BY DEF SockInv, SockType, ClientsAssumption, Sockets!SocketAssumption
<1>2. (socketNum + 1) % MAX_REST \in 0..MAX_REST - 1
  BY <1>1 DEF Sockets!Places
<1>. QED
  BY <1>2 DEF Sockets!NextPlace, Sockets!Places

LEMMA SocketSetupStep ==
    ASSUME SockInv, ClientsAssumption, NEW mode \in Sockets!Modes, NEW byName \in BOOLEAN,
           Sockets!SOCKET_Setup(mode, byName)
    PROVE  SockInv' /\ ToldsOK
<1>. DEFINE p == socketNum
            c == [Sockets!Free EXCEPT !.sock_mode = mode, !.byName = byName, !.resp_cb = sSetups + 1]
            l == IF mode = "UDP" THEN Sockets!Opened(Sockets!Idle)
                 ELSE IF mode = "TCP_SERVER" THEN [Sockets!Idle EXCEPT !.st = "listening"] ELSE Sockets!Idle
<1>1. /\ p \in Sockets!Places /\ sSetups \in Nat
      /\ ~sLookup[p] /\ sSetups' = sSetups + 1 /\ sends' = sends
      /\ socketClient' = [socketClient EXCEPT ![p] = c] /\ sLink' = [sLink EXCEPT ![p] = l]
      /\ told' = [told EXCEPT ![p] = Sockets!Unheard]
      /\ sLookup' = sLookup /\ socketNum' = Sockets!NextPlace
  BY DEF SockInv, SockType, Sockets!SOCKET_Setup, Sockets!PlaceIdle
<1>2. sLookup' = [sLookup EXCEPT ![p] = sLookup[p]] /\ sLookup[p] \in BOOLEAN
  BY <1>1, SockFields
<1>3. told' \in [Sockets!Places -> Telling] /\ ToldsOK
  <2>1. told \in [Sockets!Places -> Telling]
    BY DEF SockInv, SockType
  <2>2. Sockets!Unheard \in Telling /\ Sockets!Unheard.sents = 0
    BY DEF Sockets!Unheard, Telling
  <2>3. \A q \in Sockets!Places : told[q].sents \in Nat /\ (told'[q] = told[q] \/ told'[q].sents = 0)
    BY <1>1, <2>1, <2>2 DEF Telling
  <2>4. \A q \in Sockets!Places : ~(told'[q].sents > told[q].sents)
    BY <2>3
  <2>. QED BY <1>1, <2>1, <2>2, <2>4 DEF ToldsOK, ToldOK
<1>4. socketNum' \in Sockets!Places /\ sSetups' \in Nat
  BY <1>1, NextSocketPlace
<1>5. c \in Sock
  <2>. DEFINE none == <<>>
              n == sSetups + 1
  <2>1. none \in Seq(Datum) /\ n \in Nat /\ "none" \in Sockets!Modes \cup {"none"}
    BY <1>1
  <2>2. Sockets!Free = [sock_mode |-> "none", byName |-> FALSE, ip |-> 0, data |-> none, data_len |-> 0,
                        data_sent |-> 0, resp_cb |-> 0]
    BY DEF Sockets!Free
  <2>. HIDE DEF none, n
  <2>3. Sockets!Free \in Sock
    BY <2>1, <2>2 DEF Sock
  <2>4. [Sockets!Free EXCEPT !.sock_mode = mode, !.byName = byName, !.resp_cb = n] \in Sock
    BY <2>1, <2>3 DEF Sock
  <2>. QED BY <2>4 DEF n
<1>6. l \in SockLink /\ l.st \in {"none", "listening", "up"} /\ l.unsent = 0
  <2>1. sLink[p] \in SockLink
    BY <1>1, SockFields
  <2>2. Sockets!Idle \in SockLink /\ Sockets!Idle.st = "none" /\ Sockets!Idle.unsent = 0
        /\ [Sockets!Idle EXCEPT !.st = "listening"] \in SockLink
        /\ [Sockets!Idle EXCEPT !.st = "listening"].st = "listening"
        /\ [Sockets!Idle EXCEPT !.st = "listening"].unsent = 0
    BY <2>1, SockLinkFields
  <2>3. /\ Sockets!Opened(Sockets!Idle) \in SockLink /\ Sockets!Opened(Sockets!Idle).st = "up"
        /\ Sockets!Opened(Sockets!Idle).unsent = 0
    BY <2>2, SockLinkFields
  <2>. QED BY <2>2, <2>3
<1>. HIDE DEF l, c
<1>7. SockOK(sends, p, c, l, sLookup[p])
  BY <1>1, <1>6 DEF SockOK
<1>. QED
  BY <1>1, <1>2, <1>3, <1>4, <1>5, <1>6, <1>7, SockStep

\* The data of the last send with a place, after one more send.
LEMMA SendAdded ==
    ASSUME NEW rs \in Seq(Sending), NEW new \in Sending
    PROVE  /\ Append(rs, new) \in Seq(Sending)
           /\ LastData(Append(rs, new), new.place, new.data)
           /\ \A p, d : p # new.place /\ LastData(rs, p, d) => LastData(Append(rs, new), p, d)
           /\ \A m \in DOMAIN Append(rs, new) : (m \in DOMAIN rs /\ Append(rs, new)[m] = rs[m]) \/ Append(rs, new)[m] = new
<1>. DEFINE more == Append(rs, new)
            n == Len(rs)
<1>1. /\ more \in Seq(Sending) /\ Len(more) = n + 1 /\ n \in Nat
      /\ DOMAIN more = 1..n + 1 /\ DOMAIN rs = 1..n
      /\ more[n + 1] = new /\ \A i \in 1..n : more[i] = rs[i]
  OBVIOUS
<1>. HIDE DEF more, n
<1>2. LastData(more, new.place, new.data)
  <2>1. n + 1 \in 1..n + 1 /\ \A j \in 1..n + 1 : ~(j > n + 1)
    BY <1>1
  <2>. QED BY <1>1, <2>1 DEF LastData, Latest
<1>3. ASSUME NEW p, NEW d, p # new.place, LastData(rs, p, d) PROVE LastData(more, p, d)
  <2>1. PICK m \in 1..n : Latest(rs, p, m) /\ d = rs[m].data
    BY <1>1, <1>3 DEF LastData
  <2>2. m \in 1..n + 1 /\ \A j \in 1..n + 1 : j \in 1..n \/ j = n + 1
    BY <1>1
  <2>. QED BY <1>1, <1>3, <2>1, <2>2 DEF LastData, Latest
<1>4. \A m \in 1..n + 1 : m \in 1..n \/ m = n + 1
  BY <1>1
<1>. QED
  BY <1>1, <1>2, <1>3, <1>4 DEF more

LEMMA SocketSendStep ==
    ASSUME SockInv, ClientsAssumption, NEW p \in Sockets!Places, NEW len \in SendLengths,
           Sockets!SOCKET_Send(p, len)
    PROVE  SockInv' /\ ToldsOK
<1>. DEFINE old == socketClient[p]
            d == Sockets!Data(Len(sends) + 1, len)
            n == Sockets!FirstPart(len)
            c == [old EXCEPT !.data = d, !.data_len = len]
            now == [c EXCEPT !.data_sent = n]
            stored == [c EXCEPT !.ip = 1]
            new == [place |-> p, data |-> d]
            part == Sockets!espconn_sent(sLink[p], SubSeq(d, 1, now.data_sent))
            conn == Sockets!espconn_connect(sLink[p])
<1>1. /\ old \in Sock /\ sLink[p] \in SockLink /\ sLookup[p] \in BOOLEAN
      /\ SockOK(sends, p, old, sLink[p], sLookup[p])
      /\ ~sLookup[p] /\ sLink[p].unsent = 0
      /\ sends \in Seq(Sending) /\ SockType
      /\ UNCHANGED <<socketNum, told, sSetups>>
      /\ sends' = Append(sends, new)
  BY SockFields DEF Sockets!SOCKET_Send, Sockets!Quiet, SockInv, SockType
<1>2. len \in 1..2 * CHUNK /\ len \in Nat /\ n \in 1..len /\ (n # len => n = CHUNK) /\ n \in Nat
  <2>1. len \in 1..2 * CHUNK
    BY DEF ClientsAssumption, Sockets!SocketAssumption
  <2>2. n \in 1..len /\ (n # len => n = CHUNK)
    BY <2>1, FirstPartIs
  <2>. QED BY <2>1, <2>2
<1>3. d \in Seq(Datum) /\ Len(d) = len
  <2>. DEFINE k == Len(sends) + 1
  <2>1. k \in Nat
    BY <1>1
  <2>. HIDE DEF k
  <2>2. [i \in 1..len |-> <<k, i>>] \in [1..len -> Datum]
    BY <1>2, <2>1 DEF Datum
  <2>3. \A x \in Nat : \A s \in [1..x -> Datum] : s \in Seq(Datum) /\ Len(s) = x
    OBVIOUS
  <2>4. d = [i \in 1..len |-> <<k, i>>]
    BY DEF Sockets!Data, k
  <2>. HIDE DEF d
  <2>. QED BY <1>2, <2>2, <2>3, <2>4
<1>. HIDE DEF d, n
<1>4. c \in Sock /\ c.data = d /\ c.data_len = len
  BY <1>1, <1>2, <1>3 DEF Sock
<1>5. now \in Sock /\ now.data = d /\ now.data_len = len /\ now.data_sent = n
  <2>. HIDE DEF c
  <2>. QED BY <1>2, <1>4 DEF Sock
<1>a. stored \in Sock /\ stored.data = d /\ stored.data_len = len
  <2>. HIDE DEF c
  <2>. QED BY <1>4 DEF Sock
<1>6. new \in Sending /\ new.place = p /\ new.data = d
  BY <1>3 DEF Sending
<1>7. \/ /\ sLink[p].st = "up"
         /\ socketClient' = [socketClient EXCEPT ![p] = now] /\ sLink' = [sLink EXCEPT ![p] = part]
         /\ UNCHANGED sLookup
      \/ /\ socketClient' = [socketClient EXCEPT ![p] = c]
         /\ \/ UNCHANGED <<sLink, sLookup>>
            \/ sLink[p].st = "none" /\ sLink' = [sLink EXCEPT ![p] = conn] /\ UNCHANGED sLookup
            \/ sLink[p].st = "none" /\ sLookup' = [sLookup EXCEPT ![p] = TRUE] /\ UNCHANGED sLink
      \/ socketClient' = [socketClient EXCEPT ![p] = stored] /\ UNCHANGED <<sLink, sLookup>>
  <2>1. sLink \in [Sockets!Places -> SockLink]
    BY <1>1 DEF SockType
  <2>. QED BY <2>1 DEF Sockets!SOCKET_Send, Sockets!Quiet, Sockets!Up, d, n
<1>. HIDE DEF c, now, stored, new
<1>8. /\ sends' \in Seq(Sending) /\ LastData(sends', p, d)
      /\ \A q, e : q # p /\ LastData(sends, q, e) => LastData(sends', q, e)
      /\ \A m \in DOMAIN sends' : Len(sends'[m].data) \in 1..2 * CHUNK
  <2>1. /\ Append(sends, new) \in Seq(Sending)
        /\ LastData(Append(sends, new), new.place, new.data)
        /\ \A q, e : q # new.place /\ LastData(sends, q, e) => LastData(Append(sends, new), q, e)
        /\ \A m \in DOMAIN Append(sends, new) :
              (m \in DOMAIN sends /\ Append(sends, new)[m] = sends[m]) \/ Append(sends, new)[m] = new
    BY <1>1, <1>6, SendAdded
  <2>2. Len(new.data) \in 1..2 * CHUNK /\ \A m \in DOMAIN sends : Len(sends[m].data) \in 1..2 * CHUNK
    BY <1>2, <1>3, <1>6 DEF SockInv
  <2>. QED BY <1>1, <1>6, <2>1, <2>2
<1>9. told' \in [Sockets!Places -> Telling] /\ ToldsOK
  BY <1>1, NothingTold
<1>10. ASSUME NEW b \in Sock, NEW l \in SockLink, NEW k \in BOOLEAN, SockOK(sends', p, b, l, k),
              socketClient' = [socketClient EXCEPT ![p] = b], sLink' = [sLink EXCEPT ![p] = l],
              sLookup' = [sLookup EXCEPT ![p] = k]
       PROVE  SockInv'
  <2>1. /\ socketClient'[p] = b /\ sLink'[p] = l /\ sLookup'[p] = k
        /\ \A q \in Sockets!Places : q # p =>
              socketClient'[q] = socketClient[q] /\ sLink'[q] = sLink[q] /\ sLookup'[q] = sLookup[q]
    BY <1>1, <1>10 DEF SockType
  <2>2. SockType'
    BY <1>1, <1>8, <1>9, <1>10 DEF SockType
  <2>3. ASSUME NEW q \in Sockets!Places PROVE SockOK(sends', q, socketClient'[q], sLink'[q], sLookup'[q])
    <3>1. CASE q = p
      BY <1>10, <2>1, <3>1
    <3>2. CASE q # p
      <4>1. SockOK(sends, q, socketClient[q], sLink[q], sLookup[q])
        BY DEF SockInv
      <4>. QED BY <1>8, <2>1, <3>2, <4>1 DEF SockOK, ToSend, HalfSent
    <3>. QED BY <3>1, <3>2
  <2>. QED BY <1>8, <2>2, <2>3 DEF SockInv
<1>11. ToSend(sends', p, c)
  BY <1>3, <1>4, <1>8 DEF ToSend
<1>12. CASE /\ sLink[p].st = "up"
            /\ socketClient' = [socketClient EXCEPT ![p] = now] /\ sLink' = [sLink EXCEPT ![p] = part]
            /\ UNCHANGED sLookup
  <2>1. SubSeq(d, 1, n) \in Seq(Datum)
    BY <1>2, <1>3
  <2>2. part \in SockLink /\ part.st = "up" /\ part.out = sLink[p].out \o SubSeq(d, 1, n) /\ part.unsent = 1
    <3>. DEFINE x == SubSeq(d, 1, n)
    <3>. HIDE DEF x
    <3>1. LET s == Sockets!espconn_sent(sLink[p], x)
          IN  s \in SockLink /\ s.st = "up" /\ s.out = sLink[p].out \o x /\ s.unsent = 0 + 1
      BY <1>1, <1>12, <2>1, PieceSent DEF x
    <3>2. now.data_sent = n
      BY <1>5
    <3>3. part = Sockets!espconn_sent(sLink[p], x)
      BY <3>2 DEF x
    <3>. HIDE DEF part
    <3>4. part \in SockLink /\ part.st = "up" /\ part.out = sLink[p].out \o x /\ part.unsent = 1
      BY <3>1, <3>3
    <3>. QED BY <3>4 DEF x
  <2>. HIDE DEF part
  <2>3. sLink[p].out \in Seq(Datum)
    BY <1>1 DEF SockLink
  <2>4. HalfSent(sends', p, now, part)
    BY <1>2, <1>3, <1>5, <1>8, <2>2, <2>3 DEF HalfSent
  <2>5. SockOK(sends', p, now, part, sLookup[p])
    BY <1>1, <2>2, <2>4 DEF SockOK
  <2>6. sLookup' = [sLookup EXCEPT ![p] = sLookup[p]]
    BY <1>12, SockFields
  <2>. QED BY <1>1, <1>5, <1>9, <1>10, <1>12, <2>2, <2>5, <2>6
<1>13. CASE socketClient' = [socketClient EXCEPT ![p] = c] /\ UNCHANGED <<sLink, sLookup>>
  <2>1. SockOK(sends', p, c, sLink[p], sLookup[p])
    BY <1>1, <1>11 DEF SockOK
  <2>2. sLookup' = [sLookup EXCEPT ![p] = sLookup[p]] /\ sLink' = [sLink EXCEPT ![p] = sLink[p]]
    BY <1>13, SockFields
  <2>. QED BY <1>1, <1>4, <1>9, <1>10, <1>13, <2>1, <2>2
<1>b. CASE socketClient' = [socketClient EXCEPT ![p] = stored] /\ UNCHANGED <<sLink, sLookup>>
  <2>1. ToSend(sends', p, stored)
    BY <1>3, <1>8, <1>a DEF ToSend
  <2>2. SockOK(sends', p, stored, sLink[p], sLookup[p])
    BY <1>1, <2>1 DEF SockOK
  <2>3. sLookup' = [sLookup EXCEPT ![p] = sLookup[p]] /\ sLink' = [sLink EXCEPT ![p] = sLink[p]]
    BY <1>b, SockFields
  <2>. QED BY <1>1, <1>9, <1>10, <1>a, <1>b, <2>2, <2>3
<1>14. CASE /\ socketClient' = [socketClient EXCEPT ![p] = c]
            /\ sLink[p].st = "none" /\ sLink' = [sLink EXCEPT ![p] = conn] /\ UNCHANGED sLookup
  <2>1. conn \in SockLink /\ conn.st = "connecting" /\ conn.unsent = 0
    BY <1>1, <1>14, SockLinkFields
  <2>. HIDE DEF conn
  <2>2. SockOK(sends', p, c, conn, sLookup[p])
    BY <1>1, <1>11, <2>1 DEF SockOK
  <2>3. sLookup' = [sLookup EXCEPT ![p] = sLookup[p]]
    BY <1>14, SockFields
  <2>. QED BY <1>1, <1>4, <1>9, <1>10, <1>14, <2>1, <2>2, <2>3
<1>15. CASE /\ socketClient' = [socketClient EXCEPT ![p] = c]
            /\ sLink[p].st = "none" /\ sLookup' = [sLookup EXCEPT ![p] = TRUE] /\ UNCHANGED sLink
  <2>1. SockOK(sends', p, c, sLink[p], TRUE)
    BY <1>1, <1>11, <1>15 DEF SockOK
  <2>2. sLink' = [sLink EXCEPT ![p] = sLink[p]]
    BY <1>15, SockFields
  <2>. QED BY <1>1, <1>4, <1>9, <1>10, <1>15, <2>1, <2>2
<1>. QED
  BY <1>7, <1>12, <1>13, <1>14, <1>15, <1>b

\* However the pool is used and whatever the connections do: when the sent
\* callback tells the MCU that its data was sent, the peer has all of it, as the
\* last of what it received, and the length it is told is that of the data.
THEOREM SentWholeHolds ==
    NetSpec => SentWhole
<1>1. NetInit => SockInv
  <2>. SUFFICES ASSUME NetInit PROVE SockInv
    OBVIOUS
  <2>. DEFINE none == <<>>
              free == [sock_mode |-> "none", byName |-> FALSE, ip |-> 0, data |-> none, data_len |-> 0,
                       data_sent |-> 0, resp_cb |-> 0]
              link0 == [st |-> "none", out |-> none, unsent |-> 0]
  <2>1. /\ socketClient = [p \in Sockets!Places |-> free] /\ sLink = [p \in Sockets!Places |-> link0]
        /\ sLookup = [p \in Sockets!Places |-> FALSE] /\ told = [p \in Sockets!Places |-> Sockets!Unheard]
        /\ sends = <<>> /\ socketNum = 0 /\ sSetups = 0
    BY DEF NetInit, Sockets!Init, Sockets!Free, Sockets!Idle
  <2>2. none \in Seq(Datum)
    OBVIOUS
  <2>. HIDE DEF none
  <2>3. free \in Sock /\ link0 \in SockLink /\ link0.st = "none" /\ link0.unsent = 0
    BY <2>2 DEF Sock, SockLink
  <2>. HIDE DEF free, link0
  <2>4. Sockets!Unheard \in Telling
    BY DEF Sockets!Unheard, Telling
  <2>5. 0 \in Sockets!Places
    BY ClientsAssumption DEF ClientsAssumption, Sockets!SocketAssumption, Sockets!Places
  <2>6. sends \in Seq(Sending) /\ DOMAIN sends = {}
    BY <2>1
  <2>. QED BY <2>1, <2>3, <2>4, <2>5, <2>6 DEF SockInv, SockType, SockOK
<1>2. [NetNext]_netVars => [Sockets!Next]_(Sockets!vars)
  BY DEF NetNext, netVars, sVars, Sockets!vars
<1>3. SockInv /\ [Sockets!Next]_(Sockets!vars) => SockInv' /\ ToldsOK
  <2>1. ASSUME SockInv, UNCHANGED Sockets!vars PROVE SockInv' /\ ToldsOK
    <3>1. UNCHANGED told => ToldsOK
      BY <2>1, NothingTold
    <3>. QED BY <2>1, <3>1 DEF Sockets!vars, SockInv, SockType, SockOK, ToSend, HalfSent
  <2>2. ASSUME SockInv, NEW p \in Sockets!Places, Sockets!Callback(p) PROVE SockInv' /\ ToldsOK
    <3>1. ASSUME Sockets!socketclient_sent_cb(p) PROVE SockInv' /\ ToldsOK
      BY <2>2, <3>1, NextPartStep, AllSentStep, ClientsAssumption
    <3>. QED BY <2>2, <3>1, DnsFoundStep, SocketConnectStep, RecvStepOfSocket, SocketEndStep, ClientsAssumption
             DEF Sockets!Callback
  <2>. QED BY <2>1, <2>2, SocketSetupStep, SocketSendStep, ClientsAssumption DEF Sockets!Next
<1>4. SockInv /\ ToldsOK =>
        \A p \in Sockets!Places :
          told'[p].sents > told[p].sents =>
            LET mine == Sockets!SelectLastInSeq(sends, LAMBDA s : s.place = p)
                data == sends[mine].data
            IN  /\ told'[p].cb = socketClient[p].resp_cb /\ told'[p].len = Len(data)
                /\ Sockets!IsSuffix(data, sLink[p].out)
  <2>. SUFFICES ASSUME SockInv, ToldsOK, NEW p \in Sockets!Places, told'[p].sents > told[p].sents
                PROVE  LET mine == Sockets!SelectLastInSeq(sends, LAMBDA s : s.place = p)
                           data == sends[mine].data
                       IN  /\ told'[p].cb = socketClient[p].resp_cb /\ told'[p].len = Len(data)
                           /\ Sockets!IsSuffix(data, sLink[p].out)
    OBVIOUS
  <2>1. PICK d \in Seq(Datum), a \in Seq(Datum) :
           /\ LastData(sends, p, d) /\ sLink[p].out = a \o d
           /\ told'[p].cb = socketClient[p].resp_cb /\ told'[p].len = Len(d)
    BY DEF ToldsOK, ToldOK
  <2>2. sends \in Seq(Sending)
    BY DEF SockInv, SockType
  <2>. DEFINE I == {i \in 1..Len(sends) : sends[i].place = p}
              last == IF I # {} THEN Sockets!Max(I) ELSE 0
  <2>5. Sockets!SelectLastInSeq(sends, LAMBDA s : s.place = p) = last
    BY DEF Sockets!SelectLastInSeq
  <2>6. sends[last].data = d
    BY <2>1, <2>2, LastDataSelected
  <2>. HIDE DEF last
  <2>3. sends[Sockets!SelectLastInSeq(sends, LAMBDA s : s.place = p)].data = d
    BY <2>5, <2>6
  <2>4. Sockets!IsSuffix(d, sLink[p].out)
    BY <2>1, SuffixIs
  <2>. QED BY <2>1, <2>3, <2>4
<1>. QED
  BY <1>1, <1>2, <1>3, <1>4, PTL DEF NetSpec, SentWhole, Sockets!SentWhole

-----------------------------------------------------------------------------
(* The HTTP client: a response as a whole or a failure *)

Piece == [of : Fetches, part : {"headers", "content"}]
Fetch ==
    [phase : {"none", "lookup", "connect", "freed"}, buffer : Seq(Nat), headers : BOOLEAN,
     post_data : Seq(Piece)]
Fetching == [st : {"none", "connecting", "up", "closing"}, out : Seq(Piece), unsent : Int]
Serving == [sent : Nat, of : Nat, post : BOOLEAN]
Outcome == [http_status : Int, body : Seq(Nat)]

FetchType ==
    /\ req \in [Fetches -> Fetch] /\ hLink \in [Fetches -> Fetching]
    /\ server \in [Fetches -> Serving] /\ outcome \in [Fetches -> Seq(Outcome)]
    /\ failures \in Nat

\* The first n segments of a response; and a buffer that has its beginning.
Numbers(n) == [i \in 1..n |-> i]
Begun(buffer) == buffer # <<>> /\ Head(buffer) = 1

\* A buffer with the beginning has everything sent so far.  The connection is
\* closed at the client's wish only when the beginning is lost; and that does
\* not happen to a response that fits as long as nothing fails.
FetchOK(q, st, s, f) ==
    /\ s.sent <= s.of
    /\ q.phase # "none" => s.of > 0
    /\ q.phase # "connect" => st = "none"
    /\ q.phase = "lookup" => q.buffer = <<>> /\ s.sent = 0
    /\ Begun(q.buffer) => q.buffer = Numbers(s.sent) /\ s.sent <= BUFFER_SIZE_MAX
    /\ st = "closing" => s.sent > 0 /\ ~Begun(q.buffer)
    /\ f = 0 /\ s.of <= BUFFER_SIZE_MAX /\ q.phase = "connect" =>
          q.buffer = Numbers(s.sent) /\ st # "closing"

FetchInv ==
    /\ FetchType
    /\ \A r \in Fetches : FetchOK(req[r], hLink[r].st, server[r], failures)

\* What may be reported of a response of n segments.
ReportOK(result, n, f, g) ==
    /\ g = f /\ result # Http!Failed => n <= BUFFER_SIZE_MAX /\ result.body = Numbers(n)
    /\ g = 0 /\ n <= BUFFER_SIZE_MAX => result # Http!Failed
    /\ Http!IsPrefix(result.body, Numbers(n))
ReportsOK ==
    \A r \in Fetches :
        outcome'[r] # outcome[r] => ReportOK(Http!Last(outcome'[r]), server[r].of, failures, failures')

LEMMA NumbersProperties ==
    ASSUME NEW n \in Nat
    PROVE  /\ Numbers(n) \in Seq(Nat) /\ Len(Numbers(n)) = n /\ \A i \in 1..n : Numbers(n)[i] = i
           /\ Numbers(0) = <<>>
           /\ Append(Numbers(n), n + 1) = Numbers(n + 1)
           /\ n > 0 => Begun(Numbers(n))
           /\ \A m \in 0..n : Http!IsPrefix(Numbers(m), Numbers(n))
<1>1. \A k \in Nat : Numbers(k) \in Seq(Nat) /\ Len(Numbers(k)) = k /\ \A i \in 1..k : Numbers(k)[i] = i
  BY DEF Numbers
<1>2. Numbers(0) = <<>>
  BY DEF Numbers
<1>3. Append(Numbers(n), n + 1) = Numbers(n + 1)
  <2>. DEFINE a == Numbers(n)
              b == Numbers(n + 1)
              c == Append(a, n + 1)
  <2>1. /\ a \in Seq(Nat) /\ Len(a) = n /\ (\A i \in 1..n : a[i] = i)
        /\ b \in Seq(Nat) /\ Len(b) = n + 1 /\ (\A i \in 1..n + 1 : b[i] = i)
    BY <1>1
  <2>. HIDE DEF a, b
  <2>2. c \in Seq(Nat) /\ Len(c) = n + 1 /\ (\A i \in 1..n : c[i] = a[i]) /\ c[n + 1] = n + 1
    BY <2>1
  <2>. HIDE DEF c
  <2>3. \A i \in 1..n + 1 : c[i] = b[i]
    BY <2>1, <2>2
  <2>4. c = b
    BY <2>1, <2>2, <2>3, SeqEqual
  <2>. QED BY <2>4 DEF a, b, c
<1>4. n > 0 => Begun(Numbers(n))
  <2>. DEFINE a == Numbers(n)
  <2>1. a \in Seq(Nat) /\ Len(a) = n /\ (n > 0 => a[1] = 1)
    BY <1>1
  <2>. HIDE DEF a
  <2>2. n > 0 => a # <<>> /\ Head(a) = 1
    BY <2>1
  <2>. QED BY <2>2 DEF Begun, a
<1>5. ASSUME NEW m \in 0..n PROVE Http!IsPrefix(Numbers(m), Numbers(n))
  <2>. DEFINE a == Numbers(m)
              b == Numbers(n)
  <2>1. /\ m \in Nat /\ m <= n
        /\ a \in Seq(Nat) /\ Len(a) = m /\ (\A i \in 1..m : a[i] = i)
        /\ b \in Seq(Nat) /\ Len(b) = n /\ (\A i \in 1..n : b[i] = i)
    BY <1>1
  <2>. HIDE DEF a, b
  <2>2. SubSeq(b, 1, m) \in Seq(Nat) /\ Len(SubSeq(b, 1, m)) = m
        /\ \A i \in 1..m : SubSeq(b, 1, m)[i] = i
    BY <2>1
  <2>3. SubSeq(a, 1, m) \in Seq(Nat) /\ Len(SubSeq(a, 1, m)) = m
        /\ \A i \in 1..m : SubSeq(a, 1, m)[i] = i
    BY <2>1
  <2>4. SubSeq(a, 1, m) = SubSeq(b, 1, m)
    BY <2>1, <2>2, <2>3, SeqEqual
  <2>. QED BY <2>1, <2>4 DEF Http!IsPrefix, a, b
<1>. QED
  BY <1>1, <1>2, <1>3, <1>4, <1>5

LEMMA FetchingFields ==
    ASSUME NEW l \in Fetching
    PROVE  /\ Http!Idle \in Fetching /\ Http!Idle.st = "none"
           /\ Http!espconn_connect(l) \in Fetching
           /\ (l.st = "none" => Http!espconn_connect(l).st = "connecting")
           /\ Http!espconn_disconnect(l) \in Fetching
           /\ (l.st \in {"up", "closing"} => Http!espconn_disconnect(l).st = "closing")
           /\ Http!Opened(l) \in Fetching /\ Http!Opened(l).st = "up"
           /\ Http!Acknowledged(l) \in Fetching /\ Http!Acknowledged(l).st = l.st
           /\ \A data \in Seq(Piece) : /\ Http!espconn_sent(l, data) \in Fetching
                                       /\ Http!espconn_sent(l, data).st = l.st
<1>. DEFINE none == <<>>
            Idle0 == [st |-> "none", out |-> none, unsent |-> 0]
<1>1. none \in Seq(Piece) /\ l.out \in Seq(Piece) /\ l.unsent \in Int
  BY DEF Fetching
<1>. HIDE DEF none
<1>2. Idle0 \in Fetching /\ Idle0.st = "none"
  BY <1>1 DEF Fetching
<1>3. Http!Idle = Idle0
  BY DEF Http!Idle, none
<1>. HIDE DEF Idle0
<1>4. [Idle0 EXCEPT !.st = "connecting"] \in Fetching /\ [Idle0 EXCEPT !.st = "connecting"].st = "connecting"
  BY <1>2 DEF Fetching
<1>5. /\ Http!espconn_connect(l) \in Fetching
      /\ (l.st = "none" => Http!espconn_connect(l).st = "connecting")
  BY <1>3, <1>4 DEF Http!espconn_connect
<1>6. /\ Http!espconn_disconnect(l) \in Fetching
      /\ (l.st \in {"up", "closing"} => Http!espconn_disconnect(l).st = "closing")
  BY DEF Http!espconn_disconnect, Fetching
<1>7. Http!Opened(l) \in Fetching /\ Http!Opened(l).st = "up"
  <2>. DEFINE new == Http!Opened(l)
  <2>1. \A st \in {"none", "connecting", "up", "closing"}, out \in Seq(Piece), n \in Int :
           new = [l EXCEPT !.st = st, !.out = out, !.unsent = n] => new \in Fetching /\ new.st = st
    <3>. HIDE DEF new
    <3>. QED BY DEF Fetching
  <2>2. new = [l EXCEPT !.st = "up", !.out = none, !.unsent = 0]
    BY DEF Http!Opened, none
  <2>3. "up" \in {"none", "connecting", "up", "closing"} /\ 0 \in Int
    OBVIOUS
  <2>4. new \in Fetching /\ new.st = "up"
    <3>. HIDE DEF new
    <3>. QED BY <1>1, <2>1, <2>2, <2>3, Zenon
  <2>. QED BY <2>4
<1>8. Http!Acknowledged(l) \in Fetching /\ Http!Acknowledged(l).st = l.st
  <2>. DEFINE n == l.unsent - 1
  <2>1. n \in Int /\ Http!Acknowledged(l) = [l EXCEPT !.unsent = n]
    BY <1>1 DEF Http!Acknowledged, Fetching
  <2>. HIDE DEF n
  <2>. QED BY <2>1 DEF Fetching
<1>9. ASSUME NEW data \in Seq(Piece)
      PROVE  Http!espconn_sent(l, data) \in Fetching /\ Http!espconn_sent(l, data).st = l.st
  <2>. DEFINE n == l.unsent + 1
              out == l.out \o data
  <2>1. n \in Int /\ out \in Seq(Piece)
    BY <1>1, Concatenation
  <2>2. Http!espconn_sent(l, data) = IF l.st = "up" THEN [l EXCEPT !.out = out, !.unsent = n] ELSE l
    BY DEF Http!espconn_sent, Fetching
  <2>. HIDE DEF n, out
  <2>. QED BY <2>1, <2>2 DEF Fetching
<1>. QED
  BY <1>2, <1>3, <1>5, <1>6, <1>7, <1>8, <1>9

\* A step of request r: the others are not touched.
LEMMA FetchStep ==
    ASSUME FetchInv, NEW r \in Fetches, NEW q \in Fetch, NEW l \in Fetching, NEW s \in Serving,
           NEW f \in Nat, failures <= f, FetchOK(q, l.st, s, f),
           req' = [req EXCEPT ![r] = q], hLink' = [hLink EXCEPT ![r] = l],
           server' = [server EXCEPT ![r] = s], failures' = f,
           \/ UNCHANGED outcome
           \/ \E result \in Outcome : /\ outcome' = [outcome EXCEPT ![r] = Append(@, result)]
                                      /\ ReportOK(result, server[r].of, failures, f)
    PROVE  FetchInv' /\ ReportsOK
<1>1. /\ FetchType /\ req'[r] = q /\ hLink'[r] = l /\ server'[r] = s
      /\ \A p \in Fetches : p # r => req'[p] = req[p] /\ hLink'[p] = hLink[p] /\ server'[p] = server[p]
  BY DEF FetchInv, FetchType
<1>2. /\ req' \in [Fetches -> Fetch] /\ hLink' \in [Fetches -> Fetching] /\ server' \in [Fetches -> Serving]
  BY <1>1 DEF FetchType
<1>3. ASSUME NEW p \in Fetches PROVE FetchOK(req'[p], hLink'[p].st, server'[p], f)
  <2>1. CASE p = r
    BY <1>1, <2>1
  <2>2. CASE p # r
    <3>1. FetchOK(req[p], hLink[p].st, server[p], failures)
      BY DEF FetchInv
    <3>2. f = 0 => failures = 0
      BY <1>1 DEF FetchType
    <3>. QED BY <1>1, <2>2, <3>1, <3>2 DEF FetchOK
  <2>. QED BY <2>1, <2>2
<1>4. outcome' \in [Fetches -> Seq(Outcome)] /\ ReportsOK
  <2>1. CASE UNCHANGED outcome
    BY <1>1, <2>1 DEF FetchType, ReportsOK
  <2>2. ASSUME NEW result \in Outcome, outcome' = [outcome EXCEPT ![r] = Append(@, result)],
               ReportOK(result, server[r].of, failures, f)
        PROVE  outcome' \in [Fetches -> Seq(Outcome)] /\ ReportsOK
    <3>. DEFINE old == outcome[r]
                longer == Append(old, result)
    <3>1. old \in Seq(Outcome) /\ outcome \in [Fetches -> Seq(Outcome)]
      BY <1>1 DEF FetchType
    <3>2. longer \in Seq(Outcome) /\ Http!Last(longer) = result
      BY <3>1, <2>2 DEF Http!Last
    <3>3. outcome' = [outcome EXCEPT ![r] = longer]
      BY <2>2
    <3>. HIDE DEF longer, old
    <3>. QED BY <2>2, <3>1, <3>2, <3>3 DEF ReportsOK
  <2>. QED BY <2>1, <2>2
<1>. QED
  BY <1>1, <1>2, <1>3, <1>4 DEF FetchInv, FetchType

\* What disconnect_callback passes on.
LEMMA Reported ==
    ASSUME NEW q \in Fetch, NEW st, NEW s \in Serving, NEW f \in Nat, NEW g \in Nat,
           f <= g, g = f \/ g = f + 1,
           FetchOK(q, st, s, f), st # "none",
           g = f => st = "closing" \/ s.sent = s.of
    PROVE  LET result == Http!Result(q.buffer)
           IN  result \in Outcome /\ ReportOK(result, s.of, f, g)
<1>. DEFINE result == Http!Result(q.buffer)
            n == s.of
            came == s.sent
            buffer == q.buffer
<1>1. n \in Nat /\ came \in Nat /\ buffer \in Seq(Nat)
  BY DEF Serving, Fetch
<1>2. /\ came <= n /\ n > 0
      /\ Begun(buffer) => buffer = Numbers(came) /\ came <= BUFFER_SIZE_MAX
      /\ st = "closing" => ~Begun(buffer)
      /\ f = 0 /\ n <= BUFFER_SIZE_MAX => buffer = Numbers(came) /\ st # "closing"
  BY DEF FetchOK
<1>. HIDE DEF n, came, buffer
<1>3. /\ Begun(buffer) => result = [http_status |-> 200, body |-> buffer]
      /\ ~Begun(buffer) => result = Http!Failed
  BY DEF Http!Result, Begun, buffer
<1>4. Http!Failed \in Outcome /\ Http!Failed.body = <<>> /\ Http!Failed.http_status = -1
  BY DEF Http!Failed, Outcome
<1>. HIDE DEF result
<1>5. Http!IsPrefix(<<>>, Numbers(n))
  BY <1>1, NumbersProperties
<1>6. CASE ~Begun(buffer)
  <2>1. result = Http!Failed
    BY <1>3, <1>6
  <2>2. ~(g = 0 /\ n <= BUFFER_SIZE_MAX)
    <3>. SUFFICES ASSUME g = 0, n <= BUFFER_SIZE_MAX PROVE FALSE
      OBVIOUS
    <3>1. f = 0 /\ g = f
      OBVIOUS
    <3>2. buffer = Numbers(came) /\ st # "closing"
      BY <1>2, <3>1
    <3>3. came = n
      BY <3>1, <3>2 DEF n, came
    <3>. QED BY <1>1, <1>2, <1>6, <3>2, <3>3, NumbersProperties
  <2>. QED BY <1>4, <1>5, <2>1, <2>2 DEF ReportOK, n, result, buffer
<1>7. CASE Begun(buffer)
  <2>1. result \in Outcome /\ result # Http!Failed /\ result.body = buffer
    BY <1>1, <1>3, <1>4, <1>7 DEF Outcome
  <2>2. buffer = Numbers(came) /\ came <= BUFFER_SIZE_MAX /\ st # "closing"
    BY <1>2, <1>7
  <2>3. Http!IsPrefix(buffer, Numbers(n))
    BY <1>1, <1>2, <2>2, NumbersProperties
  <2>4. g = f => came = n
    BY <2>2 DEF came, n
  <2>. QED BY <2>1, <2>2, <2>3, <2>4 DEF ReportOK, n, result, buffer
<1>. QED
  BY <1>6, <1>7

LEMMA FetchFields ==
    ASSUME FetchInv, NEW r \in Fetches
    PROVE  /\ req[r] \in Fetch /\ hLink[r] \in Fetching /\ server[r] \in Serving
           /\ failures \in Nat /\ outcome[r] \in Seq(Outcome)
           /\ req = [req EXCEPT ![r] = req[r]] /\ hLink = [hLink EXCEPT ![r] = hLink[r]]
           /\ server = [server EXCEPT ![r] = server[r]]
           /\ FetchOK(req[r], hLink[r].st, server[r], failures)
BY DEF FetchInv, FetchType

LEMMA ReleaseFields ==
    ASSUME NEW q \in Fetch
    PROVE  LET p == [q EXCEPT !.phase = "freed", !.buffer = <<>>]
           IN  p \in Fetch /\ p.phase = "freed" /\ p.buffer = <<>>
<1>. DEFINE p == [q EXCEPT !.phase = "freed", !.buffer = <<>>]
<1>1. \A buffer \in Seq(Nat) :
         p = [q EXCEPT !.phase = "freed", !.buffer = buffer] =>
             p \in Fetch /\ p.phase = "freed" /\ p.buffer = buffer
  <2>. HIDE DEF p
  <2>. QED BY DEF Fetch
<1>2. <<>> \in Seq(Nat)
  OBVIOUS
<1>3. p = [q EXCEPT !.phase = "freed", !.buffer = <<>>]
  OBVIOUS
<1>4. p \in Fetch /\ p.phase = "freed" /\ p.buffer = <<>>
  <2>. HIDE DEF p
  <2>. QED BY <1>1, <1>2, <1>3, Zenon
<1>. QED
  BY <1>4

\* Disconnected and Lost.
LEMMA EndStep ==
    ASSUME FetchInv, NEW r \in Fetches, Http!Disconnected(r) \/ Http!Lost(r)
    PROVE  FetchInv' /\ ReportsOK
<1>. DEFINE result == Http!Result(req[r].buffer)
            q == [req[r] EXCEPT !.phase = "freed", !.buffer = <<>>]
            f == failures'
<1>1. /\ outcome' = [outcome EXCEPT ![r] = Append(@, result)]
      /\ req' = [req EXCEPT ![r] = q] /\ hLink' = [hLink EXCEPT ![r] = Http!Idle]
      /\ UNCHANGED server
  <2>1. Http!disconnect_callback(r) /\ UNCHANGED server
    BY DEF Http!Disconnected, Http!Lost
  <2>2. req \in [Fetches -> Fetch]
    BY DEF FetchInv, FetchType
  <2>. QED BY <2>1, <2>2 DEF Http!disconnect_callback, Http!Report, Http!Release
<1>2. /\ hLink[r].st # "none" /\ f \in Nat /\ failures <= f /\ (f = failures \/ f = failures + 1)
      /\ f = failures => hLink[r].st = "closing" \/ server[r].sent = server[r].of
  <2>1. failures \in Nat
    BY FetchFields
  <2>2. CASE Http!Disconnected(r)
    <3>1. UNCHANGED failures /\ (hLink[r].st = "closing" \/ (hLink[r].st = "up" /\ server[r].sent = server[r].of))
      BY <2>2 DEF Http!Disconnected, Http!Up
    <3>. QED BY <2>1, <3>1
  <2>3. CASE Http!Lost(r)
    <3>1. failures' = failures + 1 /\ hLink[r].st \in {"connecting", "up", "closing"}
      BY <2>3 DEF Http!Lost, Http!Fail
    <3>. QED BY <2>1, <3>1
  <2>. QED BY <2>2, <2>3
<1>3. result \in Outcome /\ ReportOK(result, server[r].of, failures, f)
  BY <1>2, FetchFields, Reported
<1>4. q \in Fetch /\ q.phase = "freed" /\ q.buffer = <<>>
  BY FetchFields, ReleaseFields
<1>5. FetchOK(q, Http!Idle.st, server[r], f)
  <2>1. FetchOK(req[r], hLink[r].st, server[r], failures) /\ Http!Idle.st = "none"
    BY FetchFields, FetchingFields
  <2>2. req[r].phase = "connect"
    BY <1>2, <2>1 DEF FetchOK
  <2>3. ~Begun(q.buffer)
    BY <1>4 DEF Begun
  <2>. HIDE DEF q, f
  <2>. QED BY <1>4, <2>1, <2>2, <2>3 DEF FetchOK
<1>. HIDE DEF result, q, f
<1>6. server' = [server EXCEPT ![r] = server[r]] /\ Http!Idle \in Fetching
  BY <1>1, FetchFields, FetchingFields
<1>7. failures' = f
  BY DEF f
<1>8. \E v \in Outcome : /\ outcome' = [outcome EXCEPT ![r] = Append(@, v)]
                         /\ ReportOK(v, server[r].of, failures, f)
  BY <1>1, <1>3
<1>9. server[r] \in Serving
  BY FetchFields
<1>. QED
  BY <1>1, <1>2, <1>4, <1>5, <1>6, <1>7, <1>8, <1>9, FetchStep

\* A request is made: its record, by how far the lookup is.
LEMMA NewRequest ==
    ASSUME NEW r \in Fetches, NEW post \in BOOLEAN, NEW phase \in {"lookup", "connect", "freed"}
    PROVE  LET new == [Http!Unborn EXCEPT !.phase = "lookup", !.headers = TRUE,
                                           !.post_data = IF post THEN Http!Content(r) ELSE <<>>]
               q   == [new EXCEPT !.phase = phase]
           IN  /\ q \in Fetch /\ q.phase = phase /\ q.buffer = <<>>
               /\ new \in Fetch /\ new.phase = "lookup" /\ new.buffer = <<>>
<1>. DEFINE none == <<>>
            contents == IF post THEN Http!Content(r) ELSE <<>>
            new == [Http!Unborn EXCEPT !.phase = "lookup", !.headers = TRUE, !.post_data = contents]
<1>1. none \in Seq(Nat) /\ contents \in Seq(Piece)
  <2>1. [of |-> r, part |-> "content"] \in Piece
    BY DEF Piece
  <2>2. Http!Content(r) \in Seq(Piece)
    <3>. DEFINE c == [of |-> r, part |-> "content"]
    <3>. HIDE DEF c
    <3>1. c \in Piece => <<c>> \in Seq(Piece)
      OBVIOUS
    <3>. QED BY <2>1, <3>1 DEF Http!Content, c
  <2>. QED BY <2>2
<1>2. Http!Unborn \in Fetch /\ Http!Unborn.buffer = none
  <2>1. Http!Unborn = [phase |-> "none", buffer |-> none, headers |-> FALSE, post_data |-> none]
    BY DEF Http!Unborn
  <2>2. none \in Seq(Piece)
    OBVIOUS
  <2>. HIDE DEF none
  <2>. QED BY <1>1, <2>1, <2>2 DEF Fetch
<1>. HIDE DEF none
<1>3. new \in Fetch /\ new.phase = "lookup" /\ new.buffer = none
  <2>. HIDE DEF contents
  <2>. QED BY <1>1, <1>2 DEF Fetch
<1>4. [new EXCEPT !.phase = phase] \in Fetch /\ [new EXCEPT !.phase = phase].phase = phase
      /\ [new EXCEPT !.phase = phase].buffer = new.buffer
  <2>. HIDE DEF new
  <2>. QED BY <1>3 DEF Fetch
<1>. QED
  BY <1>3, <1>4 DEF none

LEMMA RawRequestStep ==
    ASSUME FetchInv, ClientsAssumption, NEW r \in Fetches, NEW post \in BOOLEAN,
           Http!http_raw_request(r, post)
    PROVE  FetchInv' /\ ReportsOK
<1>. DEFINE new == [Http!Unborn EXCEPT !.phase = "lookup", !.headers = TRUE,
                                        !.post_data = IF post THEN Http!Content(r) ELSE <<>>]
            Asked(phase) == [new EXCEPT !.phase = phase]
            linked == Http!espconn_connect(hLink[r])
<1>1. /\ req[r].phase = "none" /\ hLink[r].st = "none"
      /\ failures \in Nat /\ server[r] \in Serving /\ server[r].of \in Nat
  BY FetchFields DEF Http!http_raw_request, FetchOK, Serving
<1>2. PICK n \in 1..Segments : server' = [server EXCEPT ![r] = [sent |-> 0, of |-> n, post |-> post]]
  BY DEF Http!http_raw_request
<1>3. n \in Nat /\ n > 0
  BY DEF ClientsAssumption, Http!HttpClientAssumption
<1>. DEFINE s == [sent |-> 0, of |-> n, post |-> post]
<1>4. s \in Serving /\ s.sent = 0 /\ s.of = n
  BY <1>3 DEF Serving
<1>5. \/ req' = [req EXCEPT ![r] = new] /\ UNCHANGED <<hLink, outcome, failures>>
      \/ /\ req' = [req EXCEPT ![r] = Asked("connect")] /\ hLink' = [hLink EXCEPT ![r] = linked]
         /\ UNCHANGED <<outcome, failures>>
      \/ /\ failures' = failures + 1 /\ req' = [req EXCEPT ![r] = Asked("freed")]
         /\ outcome' = [outcome EXCEPT ![r] = Append(@, Http!Failed)] /\ UNCHANGED hLink
  <2>1. hLink \in [Fetches -> Fetching]
    BY DEF FetchInv, FetchType
  <2>. QED BY <2>1 DEF Http!http_raw_request, Http!Fail, Http!Report
<1>6. /\ new \in Fetch /\ new.phase = "lookup" /\ new.buffer = <<>>
      /\ \A phase \in {"lookup", "connect", "freed"} :
            Asked(phase) \in Fetch /\ Asked(phase).phase = phase /\ Asked(phase).buffer = <<>>
  <2>1. \A phase \in {"lookup", "connect", "freed"} :
           LET q == [new EXCEPT !.phase = phase]
           IN  /\ q \in Fetch /\ q.phase = phase /\ q.buffer = <<>>
               /\ new \in Fetch /\ new.phase = "lookup" /\ new.buffer = <<>>
    BY NewRequest
  <2>. HIDE DEF new
  <2>. QED BY <2>1
<1>7. linked \in Fetching /\ linked.st = "connecting" /\ hLink[r] \in Fetching
  BY <1>1, FetchFields, FetchingFields
<1>8. ~Begun(<<>>) /\ Numbers(0) = <<>>
  BY NumbersProperties DEF Begun
<1>. HIDE DEF new, linked, s
<1>. DEFINE c == Asked("connect")
            d == Asked("freed")
<1>9. /\ c \in Fetch /\ c.phase = "connect" /\ c.buffer = <<>>
      /\ d \in Fetch /\ d.phase = "freed" /\ d.buffer = <<>>
  BY <1>6
<1>. HIDE DEF Asked, c, d
<1>10. server' = [server EXCEPT ![r] = s]
  BY <1>2 DEF s
<1>11. CASE req' = [req EXCEPT ![r] = new] /\ UNCHANGED <<hLink, outcome, failures>>
  <2>1. FetchOK(new, hLink[r].st, s, failures)
    BY <1>1, <1>3, <1>4, <1>6, <1>8 DEF FetchOK
  <2>2. hLink' = [hLink EXCEPT ![r] = hLink[r]] /\ failures' = failures /\ failures <= failures
    BY <1>1, <1>11, FetchFields
  <2>. QED BY <1>1, <1>4, <1>6, <1>7, <1>10, <1>11, <2>1, <2>2, FetchStep
<1>12. CASE /\ req' = [req EXCEPT ![r] = Asked("connect")] /\ hLink' = [hLink EXCEPT ![r] = linked]
            /\ UNCHANGED <<outcome, failures>>
  <2>1. FetchOK(c, linked.st, s, failures)
    BY <1>1, <1>3, <1>4, <1>7, <1>8, <1>9 DEF FetchOK
  <2>2. req' = [req EXCEPT ![r] = c] /\ failures' = failures /\ failures <= failures
    BY <1>1, <1>12 DEF c
  <2>. QED BY <1>1, <1>4, <1>7, <1>9, <1>10, <1>12, <2>1, <2>2, FetchStep
<1>13. CASE /\ failures' = failures + 1 /\ req' = [req EXCEPT ![r] = Asked("freed")]
            /\ outcome' = [outcome EXCEPT ![r] = Append(@, Http!Failed)] /\ UNCHANGED hLink
  <2>. DEFINE f == failures + 1
  <2>1. f \in Nat /\ failures <= f /\ f # failures /\ f # 0
    BY <1>1
  <2>2. failures' = f /\ req' = [req EXCEPT ![r] = d] /\ hLink' = [hLink EXCEPT ![r] = hLink[r]]
    BY <1>13, FetchFields DEF d
  <2>. HIDE DEF f
  <2>3. FetchOK(d, hLink[r].st, s, f)
    BY <1>1, <1>3, <1>4, <1>8, <1>9 DEF FetchOK
  <2>4. Http!Failed \in Outcome /\ ReportOK(Http!Failed, server[r].of, failures, f)
    <3>1. Http!Failed \in Outcome /\ Http!Failed.body = <<>>
      BY DEF Http!Failed, Outcome
    <3>2. Http!IsPrefix(<<>>, Numbers(server[r].of))
      <4>1. 0 \in 0..server[r].of
        BY <1>1
      <4>2. Http!IsPrefix(Numbers(0), Numbers(server[r].of))
        BY <1>1, <4>1, NumbersProperties
      <4>. QED BY <1>8, <4>2
    <3>. QED BY <2>1, <3>1, <3>2 DEF ReportOK
  <2>5. \E v \in Outcome : outcome' = [outcome EXCEPT ![r] = Append(@, v)] /\ ReportOK(v, server[r].of, failures, f)
    BY <1>13, <2>4
  <2>. QED BY <1>4, <1>7, <1>9, <1>10, <2>1, <2>2, <2>3, <2>5, FetchStep
<1>. QED
  BY <1>5, <1>11, <1>12, <1>13

LEMMA LookupStep ==
    ASSUME FetchInv, NEW r \in Fetches, Http!dns_callback(r)
    PROVE  FetchInv' /\ ReportsOK
<1>. DEFINE c == [req[r] EXCEPT !.phase = "connect"]
            d == [req[r] EXCEPT !.phase = "freed", !.buffer = <<>>]
            linked == Http!espconn_connect(hLink[r])
            s == server[r]
<1>1. /\ req[r] \in Fetch /\ hLink[r] \in Fetching /\ s \in Serving /\ failures \in Nat
      /\ s.of \in Nat /\ s.of > 0 /\ s.sent = 0
      /\ req[r].phase = "lookup" /\ req[r].buffer = <<>> /\ hLink[r].st = "none"
      /\ server' = [server EXCEPT ![r] = s]
  BY FetchFields DEF Http!dns_callback, FetchOK, Serving
<1>2. \/ /\ req' = [req EXCEPT ![r] = c] /\ hLink' = [hLink EXCEPT ![r] = linked]
         /\ UNCHANGED <<outcome, failures>>
      \/ /\ failures' = failures + 1 /\ req' = [req EXCEPT ![r] = d]
         /\ outcome' = [outcome EXCEPT ![r] = Append(@, Http!Failed)] /\ UNCHANGED hLink
  <2>1. hLink \in [Fetches -> Fetching] /\ req \in [Fetches -> Fetch]
    BY DEF FetchInv, FetchType
  <2>. QED BY <2>1 DEF Http!dns_callback, Http!Resolved, Http!Unresolved, Http!Fail, Http!Report, Http!Release
<1>3. c \in Fetch /\ c.phase = "connect" /\ c.buffer = <<>>
  BY <1>1 DEF Fetch
<1>4. d \in Fetch /\ d.phase = "freed" /\ d.buffer = <<>>
  BY <1>1, ReleaseFields
<1>5. linked \in Fetching /\ linked.st = "connecting"
  BY <1>1, FetchingFields
<1>8. ~Begun(<<>>) /\ Numbers(0) = <<>>
  BY NumbersProperties DEF Begun
<1>. HIDE DEF c, d, linked, s
<1>9. CASE /\ req' = [req EXCEPT ![r] = c] /\ hLink' = [hLink EXCEPT ![r] = linked]
           /\ UNCHANGED <<outcome, failures>>
  <2>1. FetchOK(c, linked.st, s, failures)
    BY <1>1, <1>3, <1>5, <1>8 DEF FetchOK
  <2>2. failures' = failures /\ failures <= failures
    BY <1>1, <1>9
  <2>. QED BY <1>1, <1>3, <1>5, <1>9, <2>1, <2>2, FetchStep
<1>10. CASE /\ failures' = failures + 1 /\ req' = [req EXCEPT ![r] = d]
            /\ outcome' = [outcome EXCEPT ![r] = Append(@, Http!Failed)] /\ UNCHANGED hLink
  <2>. DEFINE f == failures + 1
  <2>1. f \in Nat /\ failures <= f /\ f # failures /\ f # 0
    BY <1>1
  <2>2. failures' = f /\ hLink' = [hLink EXCEPT ![r] = hLink[r]]
    BY <1>10, FetchFields
  <2>. HIDE DEF f
  <2>3. FetchOK(d, hLink[r].st, s, f)
    BY <1>1, <1>4, <1>8 DEF FetchOK
  <2>4. Http!Failed \in Outcome /\ ReportOK(Http!Failed, s.of, failures, f)
    <3>1. Http!Failed \in Outcome /\ Http!Failed.body = <<>>
      BY DEF Http!Failed, Outcome
    <3>2. Http!IsPrefix(<<>>, Numbers(s.of))
      BY <1>1, <1>8, NumbersProperties
    <3>. QED BY <2>1, <3>1, <3>2 DEF ReportOK
  <2>5. \E v \in Outcome : outcome' = [outcome EXCEPT ![r] = Append(@, v)] /\ ReportOK(v, server[r].of, failures, f)
    BY <1>10, <2>4 DEF s
  <2>. QED BY <1>1, <1>4, <1>10, <2>1, <2>2, <2>3, <2>5, FetchStep
<1>. QED
  BY <1>2, <1>9, <1>10

LEMMA ConnectedStep ==
    ASSUME FetchInv, NEW r \in Fetches, Http!Connected(r)
    PROVE  FetchInv' /\ ReportsOK
<1>. DEFINE q == [req[r] EXCEPT !.headers = FALSE]
            l == Http!espconn_sent(Http!Opened(hLink[r]), Http!Headers(r))
            s == server[r]
<1>1. /\ req[r] \in Fetch /\ hLink[r] \in Fetching /\ s \in Serving /\ failures \in Nat
      /\ FetchOK(req[r], hLink[r].st, s, failures)
      /\ hLink[r].st = "connecting"
      /\ server' = [server EXCEPT ![r] = s] /\ UNCHANGED <<outcome, failures>>
  BY FetchFields DEF Http!Connected, Http!Connecting
<1>2. req' = [req EXCEPT ![r] = q] /\ hLink' = [hLink EXCEPT ![r] = l]
  <2>1. hLink \in [Fetches -> Fetching] /\ req \in [Fetches -> Fetch]
    BY DEF FetchInv, FetchType
  <2>. QED BY <2>1 DEF Http!Connected, Http!connect_callback
<1>3. q \in Fetch /\ q.phase = req[r].phase /\ q.buffer = req[r].buffer
  BY <1>1 DEF Fetch
<1>4. l \in Fetching /\ l.st = "up"
  <2>1. Http!Opened(hLink[r]) \in Fetching /\ Http!Opened(hLink[r]).st = "up"
    BY <1>1, FetchingFields
  <2>2. Http!Headers(r) \in Seq(Piece)
    <3>. DEFINE c == [of |-> r, part |-> "headers"]
    <3>1. c \in Piece
      BY DEF Piece
    <3>. HIDE DEF c
    <3>2. c \in Piece => <<c>> \in Seq(Piece)
      OBVIOUS
    <3>. QED BY <3>1, <3>2 DEF Http!Headers, c
  <2>. QED BY <2>1, <2>2, FetchingFields
<1>. HIDE DEF q, l, s
<1>5. FetchOK(q, l.st, s, failures)
  BY <1>1, <1>3, <1>4 DEF FetchOK
<1>6. failures' = failures /\ failures <= failures
  BY <1>1
<1>. QED
  BY <1>1, <1>2, <1>3, <1>4, <1>5, <1>6, FetchStep

LEMMA PartSentStep ==
    ASSUME FetchInv, NEW r \in Fetches, Http!Sent(r)
    PROVE  FetchInv' /\ ReportsOK
<1>. DEFINE q == [req[r] EXCEPT !.post_data = <<>>]
            a == Http!Acknowledged(hLink[r])
            l == IF req[r].post_data = <<>> THEN a ELSE Http!espconn_sent(a, req[r].post_data)
            s == server[r]
<1>1. /\ req[r] \in Fetch /\ hLink[r] \in Fetching /\ s \in Serving /\ failures \in Nat
      /\ FetchOK(req[r], hLink[r].st, s, failures)
      /\ server' = [server EXCEPT ![r] = s] /\ UNCHANGED <<outcome, failures>>
  BY FetchFields DEF Http!Sent
<1>2. req' = [req EXCEPT ![r] = q] /\ hLink' = [hLink EXCEPT ![r] = l]
  <2>1. hLink \in [Fetches -> Fetching] /\ req \in [Fetches -> Fetch]
    BY DEF FetchInv, FetchType
  <2>. QED BY <2>1 DEF Http!Sent, Http!sent_callback
<1>3. q \in Fetch /\ q.phase = req[r].phase /\ q.buffer = req[r].buffer
  <2>1. \A data \in Seq(Piece) : LET p == [req[r] EXCEPT !.post_data = data]
                                 IN  p \in Fetch /\ p.phase = req[r].phase /\ p.buffer = req[r].buffer
    BY <1>1 DEF Fetch
  <2>2. <<>> \in Seq(Piece)
    OBVIOUS
  <2>. QED BY <2>1, <2>2
<1>4. l \in Fetching /\ l.st = hLink[r].st
  <2>1. a \in Fetching /\ a.st = hLink[r].st
    BY <1>1, FetchingFields
  <2>2. req[r].post_data \in Seq(Piece)
    BY <1>1 DEF Fetch
  <2>. HIDE DEF a
  <2>. QED BY <2>1, <2>2, FetchingFields
<1>. HIDE DEF q, l, s
<1>5. FetchOK(q, l.st, s, failures)
  BY <1>1, <1>3, <1>4 DEF FetchOK
<1>6. failures' = failures /\ failures <= failures
  BY <1>1
<1>. QED
  BY <1>1, <1>2, <1>3, <1>4, <1>5, <1>6, FetchStep

\* A segment is appended; or nothing is, and the beginning is lost.
LEMMA Gathered ==
    ASSUME NEW buffer \in Seq(Nat), NEW n \in Nat, Begun(buffer) => buffer = Numbers(n)
    PROVE  LET longer == Append(buffer, n + 1)
           IN  /\ longer \in Seq(Nat)
               /\ Begun(longer) => longer = Numbers(n + 1)
               /\ Begun(longer) => Begun(buffer) \/ n = 0
               /\ buffer = Numbers(n) => longer = Numbers(n + 1)
               /\ Http!Discarded(buffer) \in Seq(Nat) /\ ~Begun(Http!Discarded(buffer))
<1>. DEFINE longer == Append(buffer, n + 1)
<1>1. longer \in Seq(Nat) /\ (buffer # <<>> => Head(longer) = Head(buffer))
      /\ (buffer = <<>> => Head(longer) = n + 1)
  <2>. DEFINE m == n + 1
  <2>1. m \in Nat
    OBVIOUS
  <2>. HIDE DEF m
  <2>2. CASE buffer = <<>>
    BY <2>1, <2>2
  <2>3. CASE buffer # <<>>
    <3>1. Append(buffer, m) \in Seq(Nat) /\ Len(Append(buffer, m)) = Len(buffer) + 1
          /\ Len(buffer) \in Nat /\ Len(buffer) > 0
      BY <2>1, <2>3
    <3>2. Append(buffer, m)[1] = buffer[1]
      BY <2>1, <3>1
    <3>. QED BY <2>3, <3>1, <3>2 DEF m
  <2>. QED BY <2>2, <2>3 DEF m
<1>2. Append(Numbers(n), n + 1) = Numbers(n + 1) /\ Numbers(0) = <<>>
  BY NumbersProperties
<1>3. Begun(longer) => Begun(buffer) \/ (n = 0 /\ buffer = <<>>)
  BY <1>1 DEF Begun
<1>4. Http!Discarded(buffer) \in Seq(Nat) /\ ~Begun(Http!Discarded(buffer))
  <2>1. CASE buffer = <<>>
    BY <2>1 DEF Begun, Http!Discarded
  <2>2. CASE buffer # <<>>
    <3>1. Tail(buffer) \in Seq(Nat) /\ <<0>> \in Seq(Nat) /\ Len(<<0>>) = 1 /\ <<0>>[1] = 0
      BY <2>2
    <3>. DEFINE t == Tail(buffer)
                z == <<0>>
    <3>. HIDE DEF t, z
    <3>2. t \in Seq(Nat) /\ z \in Seq(Nat) /\ Len(z) = 1 /\ z[1] = 0
      BY <3>1 DEF t, z
    <3>. DEFINE c == z \o t
    <3>3. c \in Seq(Nat) /\ c[1] = 0 /\ Len(c) > 0
      <4>1. t \in Seq(Nat) /\ z \in Seq(Nat)
        BY <3>2
      <4>2. /\ c \in Seq(Nat) /\ Len(c) = Len(z) + Len(t) /\ Len(z) \in Nat /\ Len(t) \in Nat
            /\ \A i \in 1..Len(z) : c[i] = z[i]
        BY <4>1, Concatenation
      <4>. HIDE DEF c
      <4>3. Len(z) = 1 /\ z[1] = 0 /\ 1 \in 1..Len(z)
        BY <3>2
      <4>. QED BY <4>2, <4>3
    <3>4. Head(c) = 0
      <4>. HIDE DEF c
      <4>. QED BY <3>3
    <3>5. Http!Discarded(buffer) = z \o t
      BY <2>2 DEF Http!Discarded, Http!Hole, t, z
    <3>. QED BY <3>3, <3>4, <3>5 DEF Begun
  <2>. QED BY <2>1, <2>2
<1>. QED
  BY <1>1, <1>2, <1>3, <1>4

LEMMA ReceivedStep ==
    ASSUME FetchInv, NEW r \in Fetches, Http!Received(r)
    PROVE  FetchInv' /\ ReportsOK
<1>. DEFINE buffer == req[r].buffer
            n == server[r].sent
            longer == Append(buffer, n + 1)
            less == Http!Discarded(buffer)
            q == [req[r] EXCEPT !.buffer = longer]
            d == [req[r] EXCEPT !.buffer = less]
            closing == Http!espconn_disconnect(hLink[r])
            s == [server[r] EXCEPT !.sent = n + 1]
            f == failures'
<1>1. /\ req[r] \in Fetch /\ hLink[r] \in Fetching /\ server[r] \in Serving /\ failures \in Nat
      /\ FetchOK(req[r], hLink[r].st, server[r], failures)
      /\ hLink[r].st \in {"up", "closing"} /\ n < server[r].of
      /\ UNCHANGED outcome
  BY FetchFields DEF Http!Received, Http!Live
<1>2. buffer \in Seq(Nat) /\ n \in Nat /\ n + 1 \in Nat /\ n + 1 > 0 /\ server[r].of \in Nat
  BY <1>1 DEF Fetch, Serving
<1>3. s \in Serving /\ s.sent = n + 1 /\ s.of = server[r].of /\ server' = [server EXCEPT ![r] = s]
  <2>1. server \in [Fetches -> Serving]
    BY DEF FetchInv, FetchType
  <2>2. server' = [server EXCEPT ![r] = s]
    BY <2>1 DEF Http!Received
  <2>3. s \in Serving /\ s.sent = n + 1 /\ s.of = server[r].of
    <3>. HIDE DEF n
    <3>. QED BY <1>1, <1>2 DEF Serving
  <2>. QED BY <2>2, <2>3
<1>4. f \in Nat /\ failures <= f /\ (f = failures \/ f # 0)
      /\ \/ /\ req' = [req EXCEPT ![r] = d] /\ hLink' = [hLink EXCEPT ![r] = closing]
            /\ (Len(buffer) + 1 > BUFFER_SIZE_MAX \/ f # 0)
         \/ /\ req' = [req EXCEPT ![r] = q] /\ UNCHANGED hLink
            /\ ~(Len(buffer) + 1 > BUFFER_SIZE_MAX)
  <2>1. hLink \in [Fetches -> Fetching] /\ req \in [Fetches -> Fetch]
    BY DEF FetchInv, FetchType
  <2>2. PICK allocated \in BOOLEAN :
            /\ Http!receive_callback(r, n + 1, allocated)
            /\ IF allocated THEN failures' = failures ELSE failures' = failures + 1
    BY DEF Http!Received, Http!Fail
  <2>3. f \in Nat /\ failures <= f /\ (f = failures \/ f # 0) /\ (~allocated => f # 0)
    BY <1>1, <2>2
  <2>. QED BY <2>1, <2>2, <2>3 DEF Http!receive_callback, Http!TooLong, Http!Appended
<1>5. /\ Begun(buffer) => buffer = Numbers(n) /\ n <= BUFFER_SIZE_MAX
      /\ req[r].phase = "connect"
      /\ hLink[r].st = "closing" => n > 0 /\ ~Begun(buffer)
      /\ failures = 0 /\ s.of <= BUFFER_SIZE_MAX => buffer = Numbers(n) /\ hLink[r].st # "closing"
  BY <1>1, <1>3 DEF FetchOK
<1>6. /\ longer \in Seq(Nat)
      /\ Begun(longer) => longer = Numbers(n + 1)
      /\ Begun(longer) => Begun(buffer) \/ n = 0
      /\ buffer = Numbers(n) => longer = Numbers(n + 1)
      /\ less \in Seq(Nat) /\ ~Begun(less)
  BY <1>2, <1>5, Gathered
<1>7. Len(Numbers(n)) = n /\ Len(Numbers(n + 1)) = n + 1
  BY <1>2, NumbersProperties
<1>8. Len(longer) = Len(buffer) + 1 /\ Len(buffer) \in Nat
  BY <1>2
<1>. HIDE DEF longer, less
<1>9. /\ q \in Fetch /\ q.phase = "connect" /\ q.buffer = longer
      /\ d \in Fetch /\ d.phase = "connect" /\ d.buffer = less
  BY <1>1, <1>5, <1>6 DEF Fetch
<1>10. closing \in Fetching /\ closing.st = "closing"
  BY <1>1, FetchingFields
<1>. HIDE DEF q, d, closing, s, f, n, buffer
<1>11. CASE /\ req' = [req EXCEPT ![r] = d] /\ hLink' = [hLink EXCEPT ![r] = closing]
            /\ (Len(buffer) + 1 > BUFFER_SIZE_MAX \/ f # 0)
  <2>1. ~(f = 0 /\ s.of <= BUFFER_SIZE_MAX)
    <3>. SUFFICES ASSUME f = 0, s.of <= BUFFER_SIZE_MAX PROVE FALSE
      OBVIOUS
    <3>1. failures = 0
      BY <1>4
    <3>2. buffer = Numbers(n)
      BY <1>5, <3>1
    <3>3. n + 1 <= s.of /\ Len(buffer) = n
      BY <1>1, <1>2, <1>3, <1>7, <3>2 DEF n
    <3>4. ~(n + 1 > BUFFER_SIZE_MAX)
      BY <1>2, <1>3, <3>3, ClientsAssumption DEF ClientsAssumption, Http!HttpClientAssumption
    <3>. QED BY <1>11, <3>3, <3>4
  <2>2. s.sent <= s.of /\ s.of > 0 /\ s.sent > 0
    BY <1>1, <1>2, <1>3 DEF n
  <2>3. FetchOK(d, closing.st, s, f)
    BY <1>6, <1>9, <1>10, <2>1, <2>2 DEF FetchOK
  <2>. QED BY <1>1, <1>3, <1>4, <1>9, <1>10, <1>11, <2>3, FetchStep DEF f
<1>12. CASE /\ req' = [req EXCEPT ![r] = q] /\ UNCHANGED hLink
            /\ ~(Len(buffer) + 1 > BUFFER_SIZE_MAX)
  <2>1. Begun(q.buffer) => q.buffer = Numbers(s.sent) /\ s.sent <= BUFFER_SIZE_MAX
    <3>. SUFFICES ASSUME Begun(q.buffer) PROVE q.buffer = Numbers(s.sent) /\ s.sent <= BUFFER_SIZE_MAX
      OBVIOUS
    <3>1. longer = Numbers(n + 1) /\ Len(longer) = n + 1
      BY <1>6, <1>7, <1>9
    <3>2. n + 1 = Len(buffer) + 1
      BY <1>8, <3>1
    <3>3. n + 1 <= BUFFER_SIZE_MAX
      BY <1>2, <1>12, <3>2, ClientsAssumption DEF ClientsAssumption, Http!HttpClientAssumption
    <3>. QED BY <1>3, <1>9, <3>1, <3>3
  <2>2. s.sent <= s.of /\ s.of > 0 /\ s.sent > 0
    BY <1>1, <1>2, <1>3 DEF n
  <2>3. hLink[r].st = "closing" => s.sent > 0 /\ ~Begun(q.buffer)
    BY <1>2, <1>5, <1>6, <1>9, <2>2
  <2>4. f = 0 /\ s.of <= BUFFER_SIZE_MAX => q.buffer = Numbers(s.sent) /\ hLink[r].st # "closing"
    BY <1>3, <1>4, <1>5, <1>6, <1>9
  <2>5. FetchOK(q, hLink[r].st, s, f)
    BY <1>9, <2>1, <2>2, <2>3, <2>4 DEF FetchOK
  <2>6. hLink' = [hLink EXCEPT ![r] = hLink[r]]
    BY <1>12, FetchFields
  <2>. QED BY <1>1, <1>3, <1>4, <1>9, <1>12, <2>5, <2>6, FetchStep DEF f
<1>. QED
  BY <1>4, <1>11, <1>12

\* However many requests are under way, whatever the lookup, the connection and
\* the memory do: disconnect_callback passes on what receive_callback gathered
\* only if that is the response from its beginning; and, unless the connection
\* was reset, all of it.
THEOREM WholeOrFailedHolds ==
    NetSpec => WholeOrFailed
<1>1. NetInit => FetchInv
  <2>. SUFFICES ASSUME NetInit PROVE FetchInv
    OBVIOUS
  <2>. DEFINE none == <<>>
              new == [phase |-> "none", buffer |-> none, headers |-> FALSE, post_data |-> none]
              link0 == [st |-> "none", out |-> none, unsent |-> 0]
              server0 == [sent |-> 0, of |-> 0, post |-> FALSE]
  <2>1. /\ req = [r \in Fetches |-> new] /\ hLink = [r \in Fetches |-> link0]
        /\ server = [r \in Fetches |-> server0] /\ outcome = [r \in Fetches |-> none]
        /\ failures = 0
    BY DEF NetInit, Http!Init, Http!Unborn, Http!Idle
  <2>2. none \in Seq(Nat) /\ none \in Seq(Piece) /\ none \in Seq(Outcome) /\ ~Begun(none)
    BY DEF Begun
  <2>. HIDE DEF none
  <2>3. /\ new \in Fetch /\ new.phase = "none" /\ new.buffer = none
        /\ link0 \in Fetching /\ link0.st = "none"
        /\ server0 \in Serving /\ server0.sent = 0 /\ server0.of = 0
    BY <2>2 DEF Fetch, Fetching, Serving
  <2>. HIDE DEF new, link0, server0
  <2>4. FetchOK(new, link0.st, server0, 0)
    BY <2>2, <2>3 DEF FetchOK
  <2>. QED BY <2>1, <2>2, <2>3, <2>4 DEF FetchInv, FetchType
<1>2. [NetNext]_netVars => [Http!Next]_(Http!vars)
  BY DEF NetNext, netVars, hVars, Http!vars
<1>3. FetchInv /\ [Http!Next]_(Http!vars) => FetchInv' /\ ReportsOK
  <2>1. ASSUME FetchInv, UNCHANGED Http!vars PROVE FetchInv' /\ ReportsOK
    BY <2>1 DEF Http!vars, FetchInv, FetchType, FetchOK, ReportsOK
  <2>. QED BY <2>1, RawRequestStep, LookupStep, ConnectedStep, PartSentStep, ReceivedStep, EndStep, ClientsAssumption
           DEF Http!Next, Http!Progress
<1>4. ReportsOK =>
        \A r \in Fetches :
         outcome'[r] # outcome[r] =>
            LET result == Http!Last(outcome'[r])
                fits == server[r].of <= BUFFER_SIZE_MAX
            IN  /\ failures' = failures /\ result # Http!Failed =>
                        fits /\ result.body = [i \in 1..server[r].of |-> i]
                /\ failures' = 0 /\ fits => result # Http!Failed
                /\ Http!IsPrefix(result.body, [i \in 1..server[r].of |-> i])
  BY DEF ReportsOK, ReportOK, Numbers
<1>. QED
  BY <1>1, <1>2, <1>3, <1>4, PTL DEF NetSpec, WholeOrFailed, Http!WholeOrFailed

-----------------------------------------------------------------------------
(* The Wi-Fi manager: the list of networks *)

ScanType ==
    [scanInProgress : BOOLEAN, phase : {"idle", "timer", "scanning", "lost"}, noAps : Nat, number : Nat]
ReplyType == [next : Nat, called : BOOLEAN, sent : Seq(Nat \X Nat), whole : BOOLEAN, since : Nat]

\* The first n places of a list, each from one of the scans since..number and
\* none from an older scan than the place before.
Listed(list, n, since, number) ==
    /\ list \in Seq(Nat \X Nat) /\ Len(list) = n
    /\ \A i \in 1..n :
          /\ list[i][2] = i /\ list[i][1] \in since..number
          /\ \A j \in i..n : list[i][1] <= list[j][1]

\* What has been sent of a reply that is not complete has come that far, of
\* however many scans.
ListInv ==
    /\ scan \in ScanType /\ reply \in ReplyType
    /\ reply.next > 0 =>
          ~reply.whole /\ reply.since <= scan.number /\ Listed(reply.sent, reply.next - 1, reply.since, scan.number)

ListStepOK ==
    reply'.whole /\ reply' # reply => Listed(reply'.sent, scan.noAps, reply.since, scan.number)

LEMMA ReplyFields ==
    ASSUME NEW next \in Nat, NEW called \in BOOLEAN, NEW list \in Seq(Nat \X Nat), NEW whole \in BOOLEAN,
           NEW since \in Nat
    PROVE  LET r == [next |-> next, called |-> called, sent |-> list, whole |-> whole, since |-> since]
           IN  /\ r \in ReplyType /\ r.next = next /\ r.called = called /\ r.sent = list /\ r.whole = whole
               /\ r.since = since
BY DEF ReplyType

LEMMA ListedLater ==
    ASSUME NEW list, NEW n \in Nat, NEW since \in Nat, NEW number \in Nat, NEW later \in Nat, number <= later,
           Listed(list, n, since, number)
    PROVE  Listed(list, n, since, later)
<1>1. \A x \in since..number : x \in since..later
  OBVIOUS
<1>. QED
  BY <1>1 DEF Listed

LEMMA Joined ==
    ASSUME NEW list \in Seq(Nat \X Nat), NEW more \in Seq(Nat \X Nat)
    PROVE  /\ list \o more \in Seq(Nat \X Nat) /\ Len(list \o more) = Len(list) + Len(more)
           /\ \A i \in 1..Len(list) : (list \o more)[i] = list[i]
           /\ \A i \in 1..Len(more) : (list \o more)[Len(list) + i] = more[i]
BY Concatenation

LEMMA ListedExtended ==
    ASSUME NEW list, NEW m \in Nat, NEW k \in Nat, NEW since \in Nat, NEW number \in Nat, since <= number,
           Listed(list, m, since, number)
    PROVE  Listed(list \o [i \in 1..k |-> <<number, m + i>>], m + k, since, number)
<1>. DEFINE b == [i \in 1..k |-> <<number, m + i>>]
            c == list \o b
<1>1. \A i \in Nat : m + i \in Nat
  OBVIOUS
<1>2. b \in Seq(Nat \X Nat) /\ Len(b) = k /\ \A i \in 1..k : b[i] = <<number, m + i>>
  <2>1. b \in [1..k -> Nat \X Nat]
    BY <1>1
  <2>. QED BY <2>1
<1>3. /\ list \in Seq(Nat \X Nat) /\ Len(list) = m
      /\ \A i \in 1..m : list[i][2] = i /\ list[i][1] \in since..number
      /\ \A i \in 1..m, j \in 1..m : i <= j => list[i][1] <= list[j][1]
  <2>1. \A i \in 1..m, j \in 1..m : i <= j => j \in i..m
    OBVIOUS
  <2>. QED BY <2>1 DEF Listed
<1>. HIDE DEF b
<1>4. /\ c \in Seq(Nat \X Nat) /\ Len(c) = m + k
      /\ \A i \in 1..m : c[i] = list[i]
      /\ \A i \in 1..k : c[m + i] = b[i]
  <2>. HIDE DEF c
  <2>1. list \in Seq(Nat \X Nat) /\ b \in Seq(Nat \X Nat) /\ Len(list) = m /\ Len(b) = k
    BY <1>2, <1>3
  <2>2. /\ list \o b \in Seq(Nat \X Nat) /\ Len(list \o b) = Len(list) + Len(b)
        /\ \A i \in 1..Len(list) : (list \o b)[i] = list[i]
        /\ \A i \in 1..Len(b) : (list \o b)[Len(list) + i] = b[i]
    BY <2>1, Joined, Zenon
  <2>3. c = list \o b
    BY DEF c
  <2>. QED BY <2>1, <2>2, <2>3
<1>. HIDE DEF c
<1>5. \A i \in 1..m : c[i][2] = i /\ c[i][1] \in since..number
  BY <1>3, <1>4
<1>6. \A i \in 1..m + k : i \notin 1..m => c[i][2] = i /\ c[i][1] = number
  <2>. SUFFICES ASSUME NEW i \in 1..m + k, i \notin 1..m PROVE c[i][2] = i /\ c[i][1] = number
    OBVIOUS
  <2>1. i - m \in 1..k /\ m + (i - m) = i
    OBVIOUS
  <2>2. c[m + (i - m)] = <<number, m + (i - m)>>
    BY <1>2, <1>4, <2>1
  <2>. QED BY <2>1, <2>2
<1>7. \A i \in 1..m + k : c[i][2] = i /\ c[i][1] \in since..number
  BY <1>5, <1>6
<1>8. \A i \in 1..m + k : \A j \in i..m + k : c[i][1] <= c[j][1]
  <2>. SUFFICES ASSUME NEW i \in 1..m + k, NEW j \in i..m + k PROVE c[i][1] <= c[j][1]
    OBVIOUS
  <2>1. j \in 1..m + k /\ i <= j
    OBVIOUS
  <2>2. CASE j \in 1..m
    <3>1. i \in 1..m
      BY <2>1, <2>2
    <3>. QED BY <1>3, <1>4, <2>1, <2>2, <3>1
  <2>3. CASE j \notin 1..m
    <3>1. c[j][1] = number
      BY <1>6, <2>1, <2>3
    <3>2. c[i][1] \in since..number
      BY <1>7
    <3>. QED BY <3>1, <3>2
  <2>. QED BY <2>2, <2>3
<1>. QED
  BY <1>4, <1>7, <1>8 DEF Listed, c, b

LEMMA MoreScanStep ==
    ASSUME ClientsAssumption, ListInv, Station!MoreScan
    PROVE  ListInv' /\ ListStepOK
<1>. DEFINE next == reply.next
            noAps == scan.noAps
            number == scan.number
            end == Station!End(next)
            pos == IF end >= next THEN end ELSE next - 1
            all == reply.sent \o (IF end >= next THEN Station!Entries(next) ELSE <<>>)
            called == end >= next
<1>1. /\ next > 0 /\ UNCHANGED scan
      /\ reply' = IF pos = noAps
                 THEN [reply EXCEPT !.next = 0, !.called = FALSE, !.sent = all, !.whole = TRUE]
                 ELSE [reply EXCEPT !.next = pos + 1, !.called = called, !.sent = all]
  BY DEF Station!MoreScan
<1>2. /\ next \in Nat /\ noAps \in Nat /\ number \in Nat /\ reply.since \in Nat /\ reply \in ReplyType
      /\ reply.since <= number /\ Listed(reply.sent, next - 1, reply.since, number) /\ ~reply.whole
  BY <1>1 DEF ListInv, ScanType, ReplyType
<1>3. /\ end = IF noAps <= next - 1 + ScanChunk THEN noAps ELSE next - 1 + ScanChunk
      /\ Station!Entries(next) = [i \in 1..end - (next - 1) |-> <<number, next - 1 + i>>]
  BY DEF Station!End, Station!Least, Station!Entries
<1>. HIDE DEF end
<1>4. end \in Nat /\ next - 1 \in Nat
  <2>1. ScanChunk \in Nat
    BY DEF ClientsAssumption, Station!WifiAssumption
  <2>2. next > 0 /\ next \in Nat /\ noAps \in Nat
        /\ end = IF noAps <= next - 1 + ScanChunk THEN noAps ELSE next - 1 + ScanChunk
    BY <1>1, <1>2, <1>3
  <2>. HIDE DEF next, noAps
  <2>3. next - 1 \in Nat
    BY <2>2
  <2>. QED BY <2>1, <2>2, <2>3
<1>5. pos \in Nat /\ called \in BOOLEAN
  BY <1>4
<1>6. Listed(all, pos, reply.since, number)
  <2>1. CASE end >= next
    <3>1. end - (next - 1) \in Nat /\ next - 1 + (end - (next - 1)) = end
      BY <1>2, <1>4, <2>1
    <3>. DEFINE k == end - (next - 1)
                m == next - 1
    <3>2. k \in Nat /\ m \in Nat /\ m + k = end /\ Listed(reply.sent, m, reply.since, number)
      BY <1>2, <1>4, <3>1
    <3>3. Listed(reply.sent \o [i \in 1..k |-> <<number, m + i>>], end, reply.since, number)
      <4>. HIDE DEF k, m
      <4>. QED BY <1>2, <3>2, ListedExtended
    <3>4. all = reply.sent \o [i \in 1..k |-> <<number, m + i>>] /\ pos = end
      BY <1>3, <2>1
    <3>. QED BY <3>3, <3>4
  <2>2. CASE ~(end >= next)
    <3>1. reply.sent \in Seq(Nat \X Nat)
      BY <1>2 DEF Listed
    <3>2. reply.sent \o <<>> = reply.sent
      BY <3>1
    <3>3. all = reply.sent
      BY <2>2, <3>2
    <3>4. pos = next - 1
      BY <2>2
    <3>. QED BY <1>2, <3>3, <3>4
  <2>. QED BY <2>1, <2>2
<1>. HIDE DEF all, pos, called
<1>7. all \in Seq(Nat \X Nat)
  BY <1>6 DEF Listed
<1>8. scan' = scan /\ scan \in ScanType
  BY <1>1 DEF ListInv
<1>9. CASE pos = noAps
  <2>1. reply' = [reply EXCEPT !.next = 0, !.called = FALSE, !.sent = all, !.whole = TRUE]
    BY <1>1, <1>9
  <2>2. reply' \in ReplyType /\ reply'.next = 0 /\ reply'.sent = all
    <3>. HIDE DEF next, noAps, number
    <3>. QED BY <1>2, <1>7, <2>1 DEF ReplyType
  <2>. QED BY <1>6, <1>8, <1>9, <2>2 DEF ListInv, ListStepOK
<1>10. CASE pos # noAps
  <2>1. reply' = [reply EXCEPT !.next = pos + 1, !.called = called, !.sent = all]
    BY <1>1, <1>10
  <2>2. pos + 1 \in Nat /\ pos + 1 - 1 = pos
    BY <1>5
  <2>. DEFINE n == pos + 1
  <2>3. n \in Nat
    BY <2>2
  <2>4. reply' = [reply EXCEPT !.next = n, !.called = called, !.sent = all]
    BY <2>1
  <2>5. reply' \in ReplyType /\ reply'.next = n /\ reply'.sent = all /\ reply'.since = reply.since
        /\ reply'.whole = reply.whole
    <3>. HIDE DEF next, noAps, number, n
    <3>. QED BY <1>2, <1>5, <1>7, <2>3, <2>4 DEF ReplyType
  <2>6. reply'.next - 1 = pos
    <3>1. reply'.next = pos + 1
      BY <2>5
    <3>. QED BY <1>5, <3>1
  <2>7. ~reply'.whole
    BY <1>2, <2>5
  <2>. QED BY <1>2, <1>6, <1>8, <2>5, <2>6, <2>7 DEF ListInv, ListStepOK
<1>. QED
  BY <1>9, <1>10

LEMMA ListStep ==
    ASSUME ClientsAssumption, ListInv, [Station!Next]_(Station!vars)
    PROVE  ListInv' /\ ListStepOK
<1>1. ASSUME UNCHANGED <<scan, reply>> PROVE ListInv' /\ ListStepOK
  BY <1>1 DEF ListInv, ListStepOK
<1>2. CASE Station!Events \/ Station!Timers
  BY <1>1, <1>2 DEF Station!Events, Station!Timers, Station!wifiHandleEventCb, Station!resetTimerCb,
     Station!reassTimerCb, Station!configWifiIP, Station!scanVars
\* A scan that starts or ends, while a reply is sent or not.
<1>3. ASSUME UNCHANGED reply, scan' \in ScanType, scan.number <= scan'.number PROVE ListInv' /\ ListStepOK
  <2>1. scan.number \in Nat /\ scan'.number \in Nat /\ reply.since \in Nat
    BY <1>3 DEF ListInv, ScanType, ReplyType
  <2>2. ASSUME reply.next > 0
        PROVE  ~reply.whole /\ reply.since <= scan'.number /\ Listed(reply.sent, reply.next - 1, reply.since, scan'.number)
    <3>1. /\ ~reply.whole /\ reply.since <= scan.number
          /\ Listed(reply.sent, reply.next - 1, reply.since, scan.number) /\ reply.next - 1 \in Nat
      BY <2>2 DEF ListInv, ReplyType
    <3>. QED BY <1>3, <2>1, <3>1, ListedLater
  <2>. QED BY <1>3, <2>2 DEF ListInv, ListStepOK
<1>4. ASSUME NEW page \in BOOLEAN, Station!wifiStartScan(page) PROVE ListInv' /\ ListStepOK
  <2>1. UNCHANGED reply /\ scan' \in ScanType /\ scan'.number = scan.number /\ scan.number \in Nat
    BY <1>4 DEF Station!wifiStartScan, ListInv, ScanType
  <2>. QED BY <1>3, <2>1
<1>5. CASE Station!scanStartCb
  <2>1. UNCHANGED reply /\ scan' \in ScanType /\ scan'.number = scan.number /\ scan.number \in Nat
    BY <1>5 DEF Station!scanStartCb, ListInv, ScanType
  <2>. QED BY <1>3, <2>1
<1>6. ASSUME NEW ok \in BOOLEAN, NEW n \in 0..MaxAps, Station!wifiScanDoneCb(ok, n)
      PROVE  ListInv' /\ ListStepOK
  <2>. DEFINE found == IF ok THEN n ELSE scan.noAps
              number == IF ok THEN scan.number + 1 ELSE scan.number
  <2>1. UNCHANGED reply
    BY <1>6 DEF Station!wifiScanDoneCb
  <2>2. n \in Nat
    BY DEF ClientsAssumption, Station!WifiAssumption
  <2>3. found \in Nat /\ number \in Nat /\ scan.number <= number
    BY <2>2 DEF ListInv, ScanType
  <2>4. scan' = [scan EXCEPT !.scanInProgress = FALSE, !.phase = "idle", !.noAps = found, !.number = number]
    BY <1>6 DEF Station!wifiScanDoneCb, ListInv, ScanType
  <2>. HIDE DEF found, number
  <2>5. scan' \in ScanType /\ scan'.number = number
    BY <2>3, <2>4 DEF ListInv, ScanType
  <2>. QED BY <1>3, <2>1, <2>3, <2>5
<1>7. CASE Station!GetScan \/ Station!GetScanAborted
  <2>1. UNCHANGED scan /\ reply' \in {Station!NotSent, Station!Begun}
    BY <1>7 DEF Station!GetScan, Station!GetScanAborted
  <2>2. scan \in ScanType /\ scan.number \in Nat
    BY DEF ListInv, ScanType
  <2>3. <<>> \in Seq(Nat \X Nat) /\ Len(<<>>) = 0
    OBVIOUS
  <2>4. CASE reply' = Station!NotSent
    <3>1. reply' \in ReplyType /\ reply'.next = 0 /\ ~reply'.whole
      BY <2>3, <2>4, ReplyFields DEF Station!NotSent
    <3>. QED BY <2>1, <2>2, <3>1 DEF ListInv, ListStepOK
  <2>5. CASE reply' = Station!Begun
    <3>1. /\ reply' \in ReplyType /\ reply'.next = 1 /\ ~reply'.whole /\ reply'.sent = <<>>
          /\ reply'.since = scan.number
      BY <2>2, <2>3, <2>5, ReplyFields DEF Station!Begun
    <3>2. Listed(<<>>, 1 - 1, scan.number, scan.number)
      BY <2>3 DEF Listed
    <3>3. reply'.next - 1 = 1 - 1
      BY <3>1
    <3>. QED BY <2>1, <2>2, <3>1, <3>2, <3>3 DEF ListInv, ListStepOK
  <2>. QED BY <2>1, <2>4, <2>5
<1>8. CASE Station!Pages
  BY <1>1, <1>4, <1>7, <1>8 DEF Station!Pages, Station!connectToNetwork, Station!cgiWiFiSpecial,
     Station!cgiApSettingsChange, Station!cgiWiFiSetMode, Station!printWifiInfo, Station!scanVars
<1>9. CASE UNCHANGED Station!vars
  BY <1>1, <1>9 DEF Station!vars, Station!scanVars
<1>. QED
  BY <1>2, <1>5, <1>6, <1>7, <1>8, <1>9, MoreScanStep DEF Station!Next, Station!ScanDone

\* Whatever is scanned for when and however the events of the Wi-Fi fall, and
\* although wifiScanDoneCb replaces cgiWifiAps between two pieces of a reply: one
\* of cgiWiFiGetScan that is complete has an entry for each place of the list as
\* it then is, once and in order, of the scan it began with or a later one, and
\* of no older scan after a newer.
THEOREM ListInOrderHolds ==
    NetSpec => ListInOrder
<1>1. NetInit => ListInv
  <2>. DEFINE none == [scanInProgress |-> FALSE, phase |-> "idle", noAps |-> 0, number |-> 0]
  <2>1. ASSUME NetInit PROVE scan = none /\ reply = Station!NotSent
    BY <2>1 DEF NetInit, Station!wifiInit
  <2>2. <<>> \in Seq(Nat \X Nat)
    OBVIOUS
  <2>3. Station!NotSent \in ReplyType /\ Station!NotSent.next = 0
    BY <2>2, ReplyFields DEF Station!NotSent
  <2>4. none \in ScanType
    BY DEF ScanType
  <2>. HIDE DEF none
  <2>. QED BY <2>1, <2>3, <2>4 DEF ListInv
<1>2. [NetNext]_netVars => [Station!Next]_(Station!vars)
  BY DEF NetNext, netVars, wVars, Station!vars, Station!wifiVars, Station!timerVars, Station!scanVars
<1>3. ListInv /\ [Station!Next]_(Station!vars) => ListInv' /\ ListStepOK
  BY ListStep, ClientsAssumption
<1>4. ListInv /\ [Station!Next]_(Station!vars) /\ ListStepOK =>
        (reply'.whole /\ reply' # reply =>
           /\ Len(reply'.sent) = scan.noAps
           /\ \A i \in 1..scan.noAps :
                /\ reply'.sent[i][2] = i
                /\ reply'.sent[i][1] \in reply.since..scan.number
                /\ \A j \in i..scan.noAps : reply'.sent[i][1] <= reply'.sent[j][1])
  BY DEF ListStepOK, Listed
<1>. QED
  BY <1>1, <1>2, <1>3, <1>4, PTL DEF NetSpec, ListInOrder, Station!ListInOrder

-----------------------------------------------------------------------------
(* The syslog client: what is lost *)

LogStates == {"NONE", "WAIT", "INIT", "INITDONE", "DNSWAIT", "READY", "SEND", "SENDING", "ERROR", "HALTED"}
Static ==
    [state : LogStates, queue : Seq(Nat), armed : BOOLEAN, posted : Nat, msgid : Nat, ready : BOOLEAN]

\* The messages up to Freed(s) have been taken off the queue; it holds the others.
Freed(s) == s.msgid - 1 - Len(s.queue)
Numbered(s) ==
    /\ s \in Static
    /\ Len(s.queue) < s.msgid
    /\ \A i \in 1..Len(s.queue) : s.queue[i] = Freed(s) + i

\* What a function of syslog.c other than the sent callback does: messages are
\* added at most.
Follows(t, s) == Numbered(t) /\ Freed(t) = Freed(s) /\ s.msgid <= t.msgid

\* The messages freed without having been sent.
Unsent(freed, done) == (1..freed) \ done

\* Of the queue at most the head was sent.  Each datagram in the air will free
\* a message: those that the ones sent a second time will free, or have freed,
\* are the messages lost.
Balanced(freed, done, n, repeated) ==
    /\ freed + 1 \in done => n >= 1 /\ Cardinality(Unsent(freed, done)) + n = repeated + 1
    /\ freed + 1 \notin done => Cardinality(Unsent(freed, done)) + n = repeated
LogInv ==
    /\ Numbered(sl) /\ host \in Logger!Hosts
    /\ inAir \in Nat /\ again \in Nat
    /\ sent \subseteq 1..Freed(sl) + 1 /\ sent \subseteq 1..sl.msgid - 1
    /\ Balanced(Freed(sl), sent, inAir, again)

LEMMA StaticFields ==
    ASSUME NEW s \in Static
    PROVE  /\ s.state \in LogStates /\ s.queue \in Seq(Nat) /\ s.armed \in BOOLEAN /\ s.posted \in Nat
           /\ s.msgid \in Nat /\ s.ready \in BOOLEAN
BY DEF Static

LEMMA NumberedFields ==
    ASSUME NEW s, Numbered(s)
    PROVE  /\ s \in Static /\ s.queue \in Seq(Nat) /\ s.msgid \in Nat /\ Len(s.queue) \in Nat
           /\ Freed(s) \in Nat /\ s.msgid = Freed(s) + 1 + Len(s.queue)
BY StaticFields DEF Numbered, Freed

\* With the same queue and the same next number.
LEMMA SameQueue ==
    ASSUME NEW s, NEW t \in Static, Numbered(s), t.queue = s.queue, t.msgid = s.msgid
    PROVE  Follows(t, s)
BY NumberedFields DEF Follows, Numbered, Freed

LEMMA FollowsAgain ==
    ASSUME NEW s, NEW t, NEW u, Numbered(s), Follows(t, s), Follows(u, t)
    PROVE  Follows(u, s)
BY NumberedFields DEF Follows

LEMMA Flags ==
    ASSUME NEW s, Numbered(s)
    PROVE  /\ Follows(s, s)
           /\ Follows(Logger!Arm(s), s)
           /\ Follows([s EXCEPT !.armed = FALSE], s)
           /\ Follows([s EXCEPT !.ready = TRUE], s)
           /\ Follows(Logger!syslog_send_udp(s), s)
           /\ s.posted > 0 => Follows([s EXCEPT !.posted = @ - 1], s)
           /\ \A state \in LogStates : Follows(Logger!Become(s, state), s)
<1>1. s \in Static /\ s.posted \in Nat /\ s.posted + 1 \in Nat
  BY NumberedFields, StaticFields
<1>2. /\ Logger!Arm(s) = [s EXCEPT !.armed = TRUE]
      /\ \A state \in LogStates : Logger!Become(s, state) = [s EXCEPT !.state = state]
  BY DEF Logger!Arm, Logger!Become
<1>3. Logger!syslog_send_udp(s) = [s EXCEPT !.posted = s.posted + 1]
  BY DEF Logger!syslog_send_udp
<1>4. [s EXCEPT !.posted = @ - 1] = [s EXCEPT !.posted = s.posted - 1]
  OBVIOUS
<1>5. Follows(s, s) /\ Follows([s EXCEPT !.armed = FALSE], s) /\ Follows([s EXCEPT !.armed = TRUE], s)
      /\ Follows([s EXCEPT !.ready = TRUE], s)
  <2>. DEFINE a == [s EXCEPT !.armed = FALSE]
              b == [s EXCEPT !.armed = TRUE]
              c == [s EXCEPT !.ready = TRUE]
  <2>1. a \in Static /\ a.queue = s.queue /\ a.msgid = s.msgid
    BY <1>1 DEF Static
  <2>2. b \in Static /\ b.queue = s.queue /\ b.msgid = s.msgid
    BY <1>1 DEF Static
  <2>3. c \in Static /\ c.queue = s.queue /\ c.msgid = s.msgid
    BY <1>1 DEF Static
  <2>. HIDE DEF a, b, c
  <2>4. Follows(s, s) /\ Follows(a, s) /\ Follows(b, s) /\ Follows(c, s)
    BY <1>1, <2>1, <2>2, <2>3, SameQueue
  <2>. QED BY <2>4 DEF a, b, c
<1>6. \A n \in Nat : Follows([s EXCEPT !.posted = n], s)
  <2>. SUFFICES ASSUME NEW n \in Nat PROVE Follows([s EXCEPT !.posted = n], s)
    OBVIOUS
  <2>. DEFINE t == [s EXCEPT !.posted = n]
  <2>1. t \in Static /\ t.queue = s.queue /\ t.msgid = s.msgid
    BY <1>1 DEF Static
  <2>. HIDE DEF t
  <2>2. Follows(t, s)
    BY <2>1, SameQueue
  <2>. QED BY <2>2 DEF t
<1>7. \A state \in LogStates : Follows([s EXCEPT !.state = state], s)
  <2>. SUFFICES ASSUME NEW state \in LogStates PROVE Follows([s EXCEPT !.state = state], s)
    OBVIOUS
  <2>. DEFINE t == [s EXCEPT !.state = state]
  <2>1. t \in Static /\ t.queue = s.queue /\ t.msgid = s.msgid
    BY <1>1 DEF Static
  <2>. HIDE DEF t
  <2>2. Follows(t, s)
    BY <2>1, SameQueue
  <2>. QED BY <2>2 DEF t
<1>8. s.posted > 0 => s.posted - 1 \in Nat
  BY <1>1
<1>. QED
  BY <1>1, <1>2, <1>3, <1>4, <1>5, <1>6, <1>7, <1>8

LEMMA Composed ==
    ASSUME NEW s, Numbered(s)
    PROVE  Follows(Logger!syslog_compose(s), s)
<1>. DEFINE longer == Append(s.queue, s.msgid)
            next == s.msgid + 1
            t == [s EXCEPT !.queue = longer, !.msgid = next]
<1>1. Logger!syslog_compose(s) = t
  BY DEF Logger!syslog_compose
<1>2. /\ s \in Static /\ s.queue \in Seq(Nat) /\ s.msgid \in Nat /\ Len(s.queue) \in Nat
      /\ Freed(s) \in Nat /\ s.msgid = Freed(s) + 1 + Len(s.queue)
  BY NumberedFields
<1>3. /\ longer \in Seq(Nat) /\ Len(longer) = Len(s.queue) + 1
      /\ \A i \in 1..Len(s.queue) : longer[i] = s.queue[i]
      /\ longer[Len(s.queue) + 1] = s.msgid
  BY <1>2
<1>4. next \in Nat
  BY <1>2
<1>. HIDE DEF longer, next
<1>5. t \in Static /\ t.queue = longer /\ t.msgid = next
  BY <1>2, <1>3, <1>4 DEF Static
<1>. HIDE DEF t
<1>6. Freed(t) = Freed(s) /\ Len(t.queue) < t.msgid /\ s.msgid <= t.msgid
  <2>1. t.msgid = s.msgid + 1 /\ Len(t.queue) = Len(s.queue) + 1
    BY <1>3, <1>5 DEF next
  <2>2. Freed(t) = t.msgid - 1 - Len(t.queue)
    BY DEF Freed
  <2>. QED BY <1>2, <2>1, <2>2
<1>7. \A i \in 1..Len(t.queue) : t.queue[i] = Freed(t) + i
  <2>. SUFFICES ASSUME NEW i \in 1..Len(s.queue) + 1 PROVE longer[i] = Freed(s) + i
    BY <1>3, <1>5, <1>6
  <2>1. CASE i \in 1..Len(s.queue)
    BY <1>3, <2>1 DEF Numbered
  <2>2. CASE i = Len(s.queue) + 1
    BY <1>2, <1>3, <2>2
  <2>. QED BY <1>2, <2>1, <2>2
<1>. QED
  BY <1>1, <1>5, <1>6, <1>7 DEF Follows, Numbered

LEMMA CheckStatus ==
    ASSUME NEW s, Numbered(s)
    PROVE  Follows(Logger!syslog_chk_status(s), s)
<1>. DEFINE t == [s EXCEPT !.armed = FALSE]
            u == Logger!syslog_chk_status(s)
            states == {"INIT", "SEND", "ERROR"}
<1>1. Follows(t, s) /\ Numbered(t)
  BY Flags DEF Follows
<1>2. /\ gWifi = "GOT_IP" => u = Logger!Connected(t)
      /\ gWifi # "GOT_IP" /\ gWifi = "FAILED" => u = Logger!Become(t, "ERROR")
      /\ gWifi # "GOT_IP" /\ gWifi # "FAILED" => u = Logger!Arm(t)
  BY DEF Logger!syslog_chk_status
<1>. HIDE DEF t
<1>3. \/ \E state \in states : Logger!Connected(t) = Logger!Arm(Logger!Become(t, state))
      \/ Logger!Connected(t) \in {t, Logger!Arm(t), Logger!syslog_send_udp(t)}
  BY DEF Logger!Connected
<1>4. states \subseteq LogStates
  BY DEF LogStates
<1>5. \A state \in states : Follows(Logger!Become(t, state), t) /\ Follows(Logger!Arm(Logger!Become(t, state)), t)
  <2>. SUFFICES ASSUME NEW state \in states
                PROVE  Follows(Logger!Become(t, state), t) /\ Follows(Logger!Arm(Logger!Become(t, state)), t)
    OBVIOUS
  <2>. DEFINE v == Logger!Become(t, state)
  <2>1. Follows(v, t) /\ Numbered(v)
    BY <1>1, <1>4, Flags DEF Follows
  <2>. HIDE DEF v
  <2>2. Follows(Logger!Arm(v), v)
    BY <2>1, Flags
  <2>3. Follows(Logger!Arm(v), t)
    BY <1>1, <2>1, <2>2, FollowsAgain
  <2>. QED BY <2>1, <2>3 DEF v
<1>6. Follows(t, t) /\ Follows(Logger!Arm(t), t) /\ Follows(Logger!syslog_send_udp(t), t)
  BY <1>1, Flags
<1>7. "ERROR" \in states
  OBVIOUS
<1>. HIDE DEF u, states
<1>8. Follows(u, t)
  BY <1>2, <1>3, <1>5, <1>6, <1>7
<1>9. Follows(u, s)
  BY <1>1, <1>8, FollowsAgain
<1>. QED
  BY <1>9 DEF u

LEMMA LogCall ==
    ASSUME NEW s, NEW h, NEW low \in BOOLEAN, Numbered(s)
    PROVE  Follows(Logger!syslog(s, h, low), s)
<1>. DEFINE added == Logger!syslog_compose(s)
            last == Logger!syslog_compose(added)
            sending == Logger!syslog_send_udp(last)
            entered == Logger!syslog_add_entry(s, low)
            woken == IF entered.state = "NONE" THEN Logger!Become(entered, "WAIT") ELSE entered
            t == Logger!syslog(s, h, low)
<1>1. Follows(added, s) /\ Numbered(added)
  BY Composed DEF Follows
<1>2. Follows(last, s) /\ Numbered(last)
  <2>. HIDE DEF added
  <2>1. Follows(last, added)
    BY <1>1, Composed
  <2>. HIDE DEF last
  <2>. QED BY <1>1, <2>1, FollowsAgain DEF Follows
<1>3. Follows(sending, s) /\ Numbered(sending)
  <2>. HIDE DEF last
  <2>1. Follows(sending, last)
    BY <1>2, Flags
  <2>. HIDE DEF sending
  <2>. QED BY <1>2, <2>1, FollowsAgain DEF Follows
<1>4. entered \in {added, Logger!Become(last, "HALTED"), Logger!Become(sending, "HALTED")}
  BY DEF Logger!syslog_add_entry
<1>5. \/ t = s
      \/ t = IF woken.armed THEN woken ELSE Logger!syslog_chk_status(woken)
  BY DEF Logger!syslog
<1>. HIDE DEF added, last, sending, entered, t
<1>6. Follows(entered, s) /\ Numbered(entered)
  <2>. DEFINE a == Logger!Become(last, "HALTED")
              b == Logger!Become(sending, "HALTED")
  <2>1. "HALTED" \in LogStates
    BY DEF LogStates
  <2>2. Follows(a, last) /\ Follows(b, sending)
    BY <1>2, <1>3, <2>1, Flags
  <2>. HIDE DEF a, b
  <2>3. Follows(a, s) /\ Follows(b, s)
    BY <1>2, <1>3, <2>2, FollowsAgain
  <2>. QED BY <1>1, <1>4, <2>3 DEF Follows, a, b
<1>7. Follows(woken, s) /\ Numbered(woken)
  <2>. DEFINE a == Logger!Become(entered, "WAIT")
  <2>1. "WAIT" \in LogStates
    BY DEF LogStates
  <2>2. Follows(a, entered)
    BY <1>6, <2>1, Flags
  <2>3. woken \in {a, entered}
    OBVIOUS
  <2>. HIDE DEF a, woken
  <2>4. Follows(a, s)
    BY <1>6, <2>2, FollowsAgain
  <2>. QED BY <1>6, <2>3, <2>4 DEF Follows
<1>. HIDE DEF woken
<1>8. Follows(Logger!syslog_chk_status(woken), s)
  <2>. DEFINE a == Logger!syslog_chk_status(woken)
  <2>1. Follows(a, woken)
    BY <1>7, CheckStatus
  <2>. HIDE DEF a
  <2>2. Follows(a, s)
    BY <1>7, <2>1, FollowsAgain
  <2>. QED BY <2>2 DEF a
<1>9. Follows(s, s)
  BY Flags
<1>. QED
  BY <1>5, <1>7, <1>8, <1>9 DEF t

LEMMA InitCall ==
    ASSUME NEW s, NEW h \in Logger!Hosts, NEW low \in BOOLEAN, Numbered(s)
    PROVE  Follows(Logger!syslog_init(s, h, low), s)
<1>. DEFINE r == [s EXCEPT !.ready = TRUE]
            named == Logger!syslog(r, h, low)
            off == Logger!Become(s, "HALTED")
            known == Logger!Become(named, "READY")
            waiting == Logger!Become(named, "DNSWAIT")
            asking == Logger!syslog(waiting, h, low)
<1>1. Follows(r, s) /\ Numbered(r)
  BY Flags DEF Follows
<1>2. {"HALTED", "READY", "DNSWAIT"} \subseteq LogStates
  BY DEF LogStates
<1>3. Logger!syslog_init(s, h, low) \in {off, known, asking}
  BY DEF Logger!syslog_init, Logger!Hosts
<1>4. Follows(off, s)
  BY <1>2, Flags
<1>5. Follows(named, s) /\ Numbered(named)
  <2>. HIDE DEF r
  <2>1. Follows(named, r)
    BY <1>1, LogCall
  <2>. HIDE DEF named
  <2>. QED BY <1>1, <2>1, FollowsAgain DEF Follows
<1>. HIDE DEF r, named
<1>6. Follows(known, named) /\ Follows(waiting, named)
  BY <1>2, <1>5, Flags
<1>. HIDE DEF off, known, waiting
<1>7. Follows(known, s) /\ Follows(waiting, s) /\ Numbered(waiting)
  BY <1>5, <1>6, FollowsAgain DEF Follows
<1>8. Follows(asking, waiting)
  BY <1>7, LogCall
<1>. HIDE DEF asking
<1>9. Follows(asking, s)
  BY <1>7, <1>8, FollowsAgain
<1>. QED
  BY <1>3, <1>4, <1>7, <1>9

\* A step that adds messages at most, and sends and frees none.
LEMMA FollowsStep ==
    ASSUME LogInv, Follows(sl', sl), host' \in Logger!Hosts, UNCHANGED <<inAir, sent, again>>
    PROVE  LogInv'
<1>1. Numbered(sl') /\ Freed(sl') = Freed(sl) /\ sl.msgid <= sl'.msgid
      /\ sl.msgid \in Nat /\ sl'.msgid \in Nat
  BY NumberedFields DEF LogInv, Follows
<1>2. sent \subseteq 1..sl'.msgid - 1
  BY <1>1 DEF LogInv
<1>. QED
  BY <1>1, <1>2 DEF LogInv

LEMMA CallStep ==
    ASSUME LogInv,
           \/ Logger!TimerFires \/ Logger!Log \/ Logger!SetHost \/ Logger!syslog_gethostbyname_cb
    PROVE  LogInv'
<1>1. Numbered(sl) /\ host \in Logger!Hosts
  BY DEF LogInv
<1>2. UNCHANGED <<inAir, sent, again>> /\ host' \in Logger!Hosts
  BY <1>1 DEF Logger!TimerFires, Logger!Log, Logger!SetHost, Logger!syslog_gethostbyname_cb
<1>3. CASE Logger!TimerFires
  <2>1. CASE sl' = Logger!syslog_chk_status(sl)
    BY <1>1, <1>2, <2>1, CheckStatus, FollowsStep
  <2>2. ASSUME NEW low \in BOOLEAN,
               sl' = Logger!Arm(Logger!syslog_init([sl EXCEPT !.armed = FALSE, !.state = "INITDONE"], host, low))
        PROVE  LogInv'
    <3>. DEFINE r == [sl EXCEPT !.armed = FALSE, !.state = "INITDONE"]
                t == Logger!syslog_init(r, host, low)
    <3>1. r \in Static /\ r.queue = sl.queue /\ r.msgid = sl.msgid
      BY <1>1 DEF Numbered, Static, LogStates
    <3>. HIDE DEF r
    <3>2. Follows(r, sl) /\ Numbered(r)
      BY <1>1, <3>1, SameQueue DEF Follows
    <3>3. Follows(t, r)
      BY <1>1, <3>2, InitCall
    <3>. HIDE DEF t
    <3>4. Follows(t, sl) /\ Numbered(t)
      BY <1>1, <3>2, <3>3, FollowsAgain DEF Follows
    <3>5. Follows(Logger!Arm(t), t)
      BY <3>4, Flags
    <3>6. sl' = Logger!Arm(t)
      BY <2>2 DEF t, r
    <3>7. Follows(sl', sl)
      BY <1>1, <3>4, <3>5, <3>6, FollowsAgain
    <3>. QED BY <1>2, <3>7, FollowsStep
  <2>. QED BY <1>3, <2>1, <2>2 DEF Logger!TimerFires
<1>4. CASE Logger!Log
  <2>1. PICK low \in BOOLEAN : sl' = Logger!syslog(sl, host, low)
    BY <1>4 DEF Logger!Log
  <2>. QED BY <1>1, <1>2, <2>1, LogCall, FollowsStep
<1>5. CASE Logger!SetHost
  <2>1. PICK low \in BOOLEAN : sl' = Logger!syslog_init(sl, host', low)
    BY <1>5 DEF Logger!SetHost
  <2>. QED BY <1>1, <1>2, <2>1, InitCall, FollowsStep
<1>6. CASE Logger!syslog_gethostbyname_cb
  <2>0. {"READY", "ERROR"} \subseteq LogStates
    BY DEF LogStates
  <2>1. CASE sl' = Logger!Become(sl, "ERROR")
    BY <1>1, <1>2, <2>0, <2>1, Flags, FollowsStep
  <2>2. ASSUME NEW low \in BOOLEAN, sl' = Logger!Become(Logger!syslog(sl, host, low), "READY")
        PROVE  LogInv'
    <3>. DEFINE t == Logger!syslog(sl, host, low)
    <3>1. Follows(t, sl) /\ Numbered(t)
      BY <1>1, LogCall DEF Follows
    <3>. HIDE DEF t
    <3>2. Follows(Logger!Become(t, "READY"), t)
      BY <2>0, <3>1, Flags
    <3>3. sl' = Logger!Become(t, "READY")
      BY <2>2 DEF t
    <3>4. Follows(sl', sl)
      BY <1>1, <3>1, <3>2, <3>3, FollowsAgain
    <3>. QED BY <1>2, <3>4, FollowsStep
  <2>. QED BY <1>6, <2>1, <2>2 DEF Logger!syslog_gethostbyname_cb
<1>. QED
  BY <1>3, <1>4, <1>5, <1>6

LEMMA UnsentFinite ==
    ASSUME NEW freed \in Nat, NEW done
    PROVE  IsFiniteSet(Unsent(freed, done)) /\ Cardinality(Unsent(freed, done)) \in Nat
<1>1. IsFiniteSet(1..freed)
  BY FS_Interval
<1>. QED
  BY <1>1, FS_Difference, FS_CardinalityType DEF Unsent

\* The head is the first message that has not been freed.
LEMMA TaskStep ==
    ASSUME LogInv, Logger!syslog_udp_send_event
    PROVE  LogInv'
<1>. DEFINE s == [sl EXCEPT !.posted = @ - 1]
            head == Freed(sl) + 1
<1>1. Numbered(sl) /\ UNCHANGED host /\ host \in Logger!Hosts /\ sl.posted > 0
  BY DEF LogInv, Logger!syslog_udp_send_event
<1>2. Follows(s, sl) /\ Numbered(s)
  BY <1>1, Flags DEF Follows
<1>3. s.queue = sl.queue /\ s.msgid = sl.msgid
  BY <1>1, NumberedFields DEF Static
<1>4. \/ s.queue = <<>> /\ sl' = Logger!Become(s, "READY") /\ UNCHANGED <<inAir, sent, again>>
      \/ s.queue # <<>> /\ sl' = s /\ UNCHANGED <<inAir, sent, again>>
      \/ /\ s.queue # <<>> /\ sl' = s /\ inAir' = inAir + 1 /\ sent' = sent \cup {Head(s.queue)}
         /\ again' = IF Head(s.queue) \in sent THEN again + 1 ELSE again
  BY DEF Logger!syslog_udp_send_event
<1>. HIDE DEF s
<1>5. CASE s.queue = <<>> /\ sl' = Logger!Become(s, "READY") /\ UNCHANGED <<inAir, sent, again>>
  <2>1. "READY" \in LogStates
    BY DEF LogStates
  <2>2. Follows(sl', s)
    BY <1>2, <1>5, <2>1, Flags
  <2>3. Follows(sl', sl)
    BY <1>1, <1>2, <2>2, FollowsAgain
  <2>. QED BY <1>1, <1>5, <2>3, FollowsStep
<1>6. CASE s.queue # <<>> /\ sl' = s /\ UNCHANGED <<inAir, sent, again>>
  BY <1>1, <1>2, <1>6, FollowsStep
<1>7. CASE /\ s.queue # <<>> /\ sl' = s /\ inAir' = inAir + 1 /\ sent' = sent \cup {Head(s.queue)}
           /\ again' = IF Head(s.queue) \in sent THEN again + 1 ELSE again
  <2>1. /\ sl.queue \in Seq(Nat) /\ sl.msgid \in Nat /\ Freed(sl) \in Nat
        /\ Len(sl.queue) \in Nat /\ sl.msgid = Freed(sl) + 1 + Len(sl.queue)
    BY <1>1, NumberedFields
  <2>2. Len(sl.queue) >= 1 /\ Head(s.queue) = head
    BY <1>1, <1>3, <1>7, <2>1 DEF Numbered
  <2>3. Freed(sl') = Freed(sl) /\ sl'.msgid = sl.msgid /\ Numbered(sl')
    BY <1>2, <1>3, <1>7 DEF Follows
  <2>4. /\ sent \subseteq 1..Freed(sl) + 1 /\ sent \subseteq 1..sl.msgid - 1
        /\ Balanced(Freed(sl), sent, inAir, again) /\ inAir \in Nat /\ again \in Nat
    BY DEF LogInv
  <2>5. sent' \subseteq 1..Freed(sl') + 1 /\ sent' \subseteq 1..sl'.msgid - 1
    <3>1. head \in 1..Freed(sl) + 1 /\ head \in 1..sl.msgid - 1
      BY <2>1, <2>2
    <3>2. sent' = sent \cup {head}
      BY <1>7, <2>2
    <3>. QED BY <2>3, <2>4, <3>1, <3>2
  <2>6. Unsent(Freed(sl), sent') = Unsent(Freed(sl), sent)
    BY <1>7, <2>1, <2>2 DEF Unsent
  <2>7. Cardinality(Unsent(Freed(sl), sent)) \in Nat
    BY <2>1, UnsentFinite
  <2>8. head \in sent' /\ inAir' \in Nat /\ again' \in Nat /\ inAir' >= 1
    BY <1>7, <2>2, <2>4
  <2>9. Cardinality(Unsent(Freed(sl), sent)) + inAir' = again' + 1
    <3>1. CASE head \in sent
      BY <1>7, <2>2, <2>4, <2>7, <3>1 DEF Balanced
    <3>2. CASE head \notin sent
      BY <1>7, <2>2, <2>4, <2>7, <3>2 DEF Balanced
    <3>. QED BY <3>1, <3>2
  <2>10. Balanced(Freed(sl'), sent', inAir', again')
    BY <2>3, <2>6, <2>8, <2>9 DEF Balanced
  <2>. QED BY <1>1, <2>3, <2>5, <2>8, <2>10 DEF LogInv
<1>. QED
  BY <1>4, <1>5, <1>6, <1>7

LEMMA TailNumbered ==
    ASSUME NEW s, Numbered(s), s.queue # <<>>
    PROVE  LET t == [s EXCEPT !.queue = Tail(@)]
           IN  Numbered(t) /\ Freed(t) = Freed(s) + 1 /\ t.msgid = s.msgid
<1>. DEFINE rest == Tail(s.queue)
            t == [s EXCEPT !.queue = rest]
<1>1. /\ s \in Static /\ s.queue \in Seq(Nat) /\ s.msgid \in Nat /\ Len(s.queue) \in Nat
      /\ Freed(s) \in Nat /\ s.msgid = Freed(s) + 1 + Len(s.queue)
  BY NumberedFields
<1>2. /\ rest \in Seq(Nat) /\ Len(rest) = Len(s.queue) - 1 /\ Len(s.queue) >= 1
      /\ \A i \in 1..Len(s.queue) - 1 : rest[i] = s.queue[i + 1]
  BY <1>1
<1>3. [s EXCEPT !.queue = Tail(@)] = t
  BY <1>1 DEF Static
<1>. HIDE DEF rest
<1>4. t \in Static /\ t.queue = rest /\ t.msgid = s.msgid
  BY <1>1, <1>2 DEF Static
<1>. HIDE DEF t
<1>5. Freed(t) = Freed(s) + 1 /\ Len(t.queue) < t.msgid
  <2>1. Freed(t) = t.msgid - 1 - Len(t.queue)
    BY DEF Freed
  <2>2. t.msgid = Freed(s) + 1 + Len(s.queue) /\ Len(t.queue) = Len(s.queue) - 1
    BY <1>1, <1>2, <1>4
  <2>3. Freed(s) \in Nat /\ Len(s.queue) \in Nat
    BY <1>1
  <2>. QED BY <2>1, <2>2, <2>3
<1>6. \A i \in 1..Len(t.queue) : t.queue[i] = Freed(t) + i
  <2>. SUFFICES ASSUME NEW i \in 1..Len(s.queue) - 1 PROVE rest[i] = Freed(s) + 1 + i
    BY <1>2, <1>4, <1>5
  <2>1. i + 1 \in 1..Len(s.queue)
    BY <1>1
  <2>2. rest[i] = s.queue[i + 1]
    BY <1>2
  <2>3. s.queue[i + 1] = Freed(s) + (i + 1)
    BY <2>1 DEF Numbered
  <2>. QED BY <1>1, <2>2, <2>3
<1>. QED
  BY <1>3, <1>4, <1>5, <1>6 DEF Numbered

\* The message that is freed is the head, sent or not; the next was not sent.
LEMMA DatagramSentStep ==
    ASSUME LogInv, Logger!syslog_udp_sent_cb, sl.queue # <<>>
    PROVE  LogInv'
<1>. DEFINE s == [sl EXCEPT !.queue = Tail(@)]
            t == Logger!Become(s, "SENDING")
            head == Freed(sl) + 1
            unsent == Unsent(Freed(sl), sent)
<1>1. Numbered(sl) /\ host' \in Logger!Hosts /\ UNCHANGED <<sent, again>> /\ inAir > 0 /\ inAir' = inAir - 1
  BY DEF LogInv, Logger!syslog_udp_sent_cb
<1>2. Numbered(s) /\ Freed(s) = head /\ s.msgid = sl.msgid
  BY <1>1, TailNumbered
<1>3. \/ sl' = Logger!Become(s, "READY")
      \/ sl' = t
      \/ sl' = Logger!syslog_chk_status(t)
  BY DEF Logger!syslog_udp_sent_cb, Logger!SentNext
<1>. HIDE DEF s
<1>4. Follows(sl', s)
  <2>1. {"READY", "SENDING"} \subseteq LogStates
    BY DEF LogStates
  <2>2. Follows(Logger!Become(s, "READY"), s) /\ Follows(t, s) /\ Numbered(t)
    BY <1>2, <2>1, Flags DEF Follows
  <2>. HIDE DEF t
  <2>3. Follows(Logger!syslog_chk_status(t), t)
    BY <2>2, CheckStatus
  <2>4. Follows(Logger!syslog_chk_status(t), s)
    BY <1>2, <2>2, <2>3, FollowsAgain
  <2>. QED BY <1>3, <2>2, <2>4
<1>5. Numbered(sl') /\ Freed(sl') = head /\ sl.msgid <= sl'.msgid
  BY <1>2, <1>4 DEF Follows
<1>6. /\ sent \subseteq 1..head /\ sent \subseteq 1..sl.msgid - 1 /\ Freed(sl) \in Nat
      /\ Balanced(Freed(sl), sent, inAir, again) /\ inAir \in Nat /\ again \in Nat
      /\ sl.msgid \in Nat /\ sl'.msgid \in Nat
  BY <1>1, <1>5, NumberedFields DEF LogInv
<1>7. sent' \subseteq 1..Freed(sl') + 1 /\ sent' \subseteq 1..sl'.msgid - 1 /\ head + 1 \notin sent'
  BY <1>1, <1>5, <1>6
<1>8. IsFiniteSet(unsent) /\ Cardinality(unsent) \in Nat /\ head \notin unsent
  <2>1. IsFiniteSet(unsent) /\ Cardinality(unsent) \in Nat
    BY <1>6, UnsentFinite
  <2>2. head \notin 1..Freed(sl)
    BY <1>6
  <2>. QED BY <2>1, <2>2 DEF Unsent
<1>9. Cardinality(Unsent(head, sent)) + inAir' = again
  <2>1. CASE head \in sent
    <3>1. Unsent(head, sent) = unsent
      BY <1>6, <2>1 DEF Unsent
    <3>. QED BY <1>1, <1>6, <1>8, <2>1, <3>1 DEF Balanced
  <2>2. CASE head \notin sent
    <3>1. Unsent(head, sent) = unsent \cup {head}
      BY <1>6, <2>2 DEF Unsent
    <3>2. Cardinality(unsent) + inAir = again
      BY <1>6, <2>2 DEF Balanced
    <3>. HIDE DEF unsent, head
    <3>3. Cardinality(unsent \cup {head}) = Cardinality(unsent) + 1
      BY <1>8, FS_AddElement
    <3>. QED BY <1>1, <1>6, <1>8, <3>1, <3>2, <3>3
  <2>. QED BY <2>1, <2>2
<1>10. Balanced(Freed(sl'), sent', inAir', again')
  BY <1>1, <1>5, <1>7, <1>9 DEF Balanced
<1>11. inAir' \in Nat /\ again' \in Nat
  BY <1>1, <1>6
<1>. QED
  BY <1>1, <1>5, <1>7, <1>10, <1>11 DEF LogInv

LEMMA StartBalanced ==
    /\ Numbered(Logger!Start) /\ Freed(Logger!Start) = 0
    /\ Balanced(0, {}, 0, 0)
<1>1. Logger!Start \in Static /\ Logger!Start.queue = <<>> /\ Logger!Start.msgid = 1
  BY DEF Logger!Start, Static, LogStates
<1>2. Unsent(0, {}) = {} /\ Cardinality(Unsent(0, {})) = 0
  BY FS_EmptySet DEF Unsent
<1>3. Balanced(0, {}, 0, 0)
  BY <1>2 DEF Balanced
<1>4. Freed(Logger!Start) = 0 /\ Len(Logger!Start.queue) = 0
  <2>1. Len(Logger!Start.queue) = 0
    BY <1>1
  <2>2. Freed(Logger!Start) = Logger!Start.msgid - 1 - Len(Logger!Start.queue)
    BY DEF Freed
  <2>. QED BY <1>1, <2>1, <2>2
<1>. QED
  BY <1>1, <1>3, <1>4 DEF Numbered

\* The callback found the queue empty.
LEMMA ResetStep ==
    ASSUME LogInv, Logger!syslog_udp_sent_cb, sl.queue = <<>>
    PROVE  LogInv'
<1>1. host' \in Logger!Hosts /\ sl' = Logger!Start /\ inAir' = 0 /\ sent' = {} /\ again' = 0
  BY DEF LogInv, Logger!syslog_udp_sent_cb, Logger!Reset
<1>. QED
  BY <1>1, StartBalanced DEF LogInv

\* A message that is neither sent nor in the queue was freed.
LEMMA LostIsUnsent ==
    ASSUME LogInv
    PROVE  Logger!LossBounded
<1>1. /\ Numbered(sl) /\ sl.msgid \in Nat /\ Freed(sl) \in Nat /\ Len(sl.queue) \in Nat
      /\ sl.msgid = Freed(sl) + 1 + Len(sl.queue)
  BY NumberedFields DEF LogInv
<1>2. Logger!Lost = Unsent(Freed(sl), sent)
  <2>1. ASSUME NEW m \in Logger!Lost PROVE m \in Unsent(Freed(sl), sent)
    <3>1. m \in 1..sl.msgid - 1 /\ m \notin sent /\ \A i \in 1..Len(sl.queue) : sl.queue[i] # m
      BY <2>1 DEF Logger!Lost
    <3>2. CASE m <= Freed(sl)
      BY <1>1, <3>1, <3>2 DEF Unsent
    <3>3. CASE ~(m <= Freed(sl))
      <4>1. m - Freed(sl) \in 1..Len(sl.queue) /\ Freed(sl) + (m - Freed(sl)) = m
        BY <1>1, <3>1, <3>3
      <4>2. sl.queue[m - Freed(sl)] = m
        BY <1>1, <4>1 DEF Numbered
      <4>. QED BY <3>1, <4>1, <4>2
    <3>. QED BY <3>2, <3>3
  <2>2. ASSUME NEW m \in Unsent(Freed(sl), sent) PROVE m \in Logger!Lost
    <3>1. m \in 1..Freed(sl) /\ m \notin sent
      BY <2>2 DEF Unsent
    <3>2. \A i \in 1..Len(sl.queue) : sl.queue[i] # m
      BY <1>1, <3>1 DEF Numbered
    <3>. QED BY <1>1, <3>1, <3>2 DEF Logger!Lost
  <2>. QED BY <2>1, <2>2
<1>3. Cardinality(Unsent(Freed(sl), sent)) \in Nat
  BY <1>1, UnsentFinite
<1>4. Cardinality(Unsent(Freed(sl), sent)) <= again
  BY <1>3 DEF LogInv, Balanced
<1>5. Logger!Cardinality(Unsent(Freed(sl), sent)) = Cardinality(Unsent(Freed(sl), sent))
  BY DEF Logger!Cardinality, Cardinality
<1>. QED
  BY <1>2, <1>4, <1>5 DEF Logger!LossBounded

\* Whatever is logged, set and refused, and whatever the order of the timer, the
\* task, the sent callback, the resolver and the Wi-Fi: no more messages are
\* freed by syslog_udp_sent_cb without having been sent than
\* syslog_udp_send_event has sent datagrams of messages sent before.
THEOREM LossBoundedHolds ==
    NetSpec => []LossBounded
<1>1. NetInit => LogInv
  <2>1. NetInit => sl = Logger!Start /\ inAir = 0 /\ again = 0 /\ sent = {} /\ host \in Logger!Hosts
    BY DEF NetInit, Logger!Init
  <2>. QED BY <2>1, StartBalanced DEF LogInv
<1>2. [NetNext]_netVars => [Logger!Next]_(Logger!vars)
  BY DEF NetNext, netVars, gVars, Logger!vars
<1>3. LogInv /\ [Logger!Next]_(Logger!vars) => LogInv'
  <2>1. ASSUME LogInv, UNCHANGED <<sl, host, inAir, sent, again>> PROVE LogInv'
    BY <2>1 DEF LogInv
  <2>2. Logger!GotIP \/ Logger!LostWifi \/ UNCHANGED Logger!vars => UNCHANGED <<sl, host, inAir, sent, again>>
    BY DEF Logger!GotIP, Logger!LostWifi, Logger!vars
  <2>. QED BY <2>1, <2>2, CallStep, TaskStep, DatagramSentStep, ResetStep DEF Logger!Next, Logger!Awaited
<1>4. LogInv => LossBounded
  BY LostIsUnsent DEF LossBounded
<1>. QED
  BY <1>1, <1>2, <1>3, <1>4, PTL DEF NetSpec
=============================================================================
