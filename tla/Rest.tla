------------------------------- MODULE Rest -------------------------------
(***************************************************************************)
(* rest/rest.c: the microcontroller (MCU) has HTTP requests made for it.   *)
(* REST_Setup takes the next place of a pool, round robin, and gives back  *)
(* its number; REST_Request makes a request with it; what the server       *)
(* answers goes to the callback named at set-up.  The MCU never gives a    *)
(* place back: it may restart at any time and set up anew.                 *)
(*                                                                         *)
(* A request is a sequence of units, the first of which stands for its     *)
(* head and says, as Content-Length does, how long it is.  The callback of *)
(* a set-up is its number.                                                 *)
(***************************************************************************)
EXTENDS Espconn, FiniteSets, SequencesExt

CONSTANTS
    MAX_REST,    \* places in the pool
    CHUNK,       \* units handed to the connection first, 1400 bytes in the code
    Lengths,     \* lengths of requests
    Prompt,      \* whether the MCU may ask again before an answered request is closed
    MaxSetups,   \* bound on the set-ups
    MaxRequests  \* bound on the requests

RestAssumption ==
    /\ MAX_REST \in Nat \ {0} /\ CHUNK \in Nat \ {0}
    /\ Lengths \subseteq Nat \ {0} /\ Prompt \in BOOLEAN /\ MaxSetups \in Nat /\ MaxRequests \in Nat

VARIABLES
    restClient,  \* the pool
    restNum,     \* the next place
    link,        \* the connection of each place
    lookup,      \* whether a lookup for a place is under way
    mcu,         \* the set-ups of this life of the MCU: its callbacks and their places
    requests,    \* history: the requests made, each with its callback and units
    answers,     \* answers the MCU got
    setups       \* how many set-ups there have been

vars == <<restClient, restNum, link, lookup, mcu, requests, answers, setups>>

Places == 0..MAX_REST - 1
Free == [pCon |-> FALSE, byName |-> FALSE, ip |-> 0, header |-> 0, data |-> <<>>,
         data_sent |-> 0, data_len |-> 0, resp_cb |-> 0]

-----------------------------------------------------------------------------
(* Commands of the MCU.  One with wrong arguments is refused and changes   *)
(* nothing.                                                                *)

NextPlace == (restNum + 1) % MAX_REST

\* "The attached MCU should really use at most as many REST connections as there
\* are slots in the pool": those of this life of it are counted.
PoolSuffices == Cardinality(mcu) < MAX_REST

\* An assumption of the model, which neither the comment nor the code makes: the
\* MCU, restarted, comes round to a place only when the request of its earlier
\* life there is over.  REST_Setup frees a connection that is still open, and
\* what its callbacks then do with the freed memory is not modelled.
PlaceIdle == link[restNum].st = "none" /\ ~lookup[restNum]

REST_Setup(byName) ==
    /\ setups < MaxSetups
    /\ PoolSuffices /\ PlaceIdle
    /\ setups' = setups + 1
    /\ restClient' = [restClient EXCEPT ![restNum] =
                        [Free EXCEPT !.pCon = TRUE, !.byName = byName, !.resp_cb = setups + 1]]
    /\ restNum' = NextPlace
    /\ mcu' = mcu \cup {[cb |-> setups + 1, place |-> restNum]}
    /\ UNCHANGED <<link, lookup, requests, answers>>

REST_SetHeader(c) ==
    /\ restClient' = [restClient EXCEPT ![c.place].header = 1]
    /\ UNCHANGED <<restNum, link, lookup, mcu, requests, answers, setups>>

Units(r, header, len) ==
    [i \in 1..len |-> IF i = 1 THEN [of |-> r, header |-> header, len |-> len] ELSE [of |-> r, i |-> i]]

\* The MCU has one request under way with a client.
Quiet(c) ==
    /\ ~lookup[c.place]
    /\ link[c.place].st \in IF Prompt THEN {"none", "closing"} ELSE {"none"}

\* The data of an earlier request is replaced.  A name in the cache of the
\* resolver (ESPCONN_OK) is answered without the callback that connects.
REST_Request(c, len) ==
    /\ Len(requests) < MaxRequests
    /\ Quiet(c)
    /\ LET client == restClient[c.place]
           units  == Units(Len(requests) + 1, client.header, len)
           asked  == [client EXCEPT !.data = units, !.data_len = len]
       IN  /\ requests' = Append(requests, [cb |-> c.cb, units |-> units])
           /\ \/ /\ ~client.byName
                 /\ link' = [link EXCEPT ![c.place] = espconn_connect(@)]
                 /\ restClient' = [restClient EXCEPT ![c.place] = asked]
                 /\ UNCHANGED lookup
              \/ /\ client.byName
                 /\ lookup' = [lookup EXCEPT ![c.place] = TRUE]
                 /\ restClient' = [restClient EXCEPT ![c.place] = asked]
                 /\ UNCHANGED link
              \/ /\ client.byName
                 /\ restClient' = [restClient EXCEPT ![c.place] = [asked EXCEPT !.ip = 1]]
                 /\ UNCHANGED <<link, lookup>>
    /\ UNCHANGED <<restNum, mcu, answers, setups>>

McuRestarts ==
    /\ mcu # {}
    /\ mcu' = {}
    /\ UNCHANGED <<restClient, restNum, link, lookup, requests, answers, setups>>

-----------------------------------------------------------------------------
(* Callbacks of place p *)

rest_dns_found(p, found) ==
    /\ lookup[p]
    /\ lookup' = [lookup EXCEPT ![p] = FALSE]
    /\ link' = IF found /\ restClient[p].ip = 0
               THEN [link EXCEPT ![p] = espconn_connect(@)] ELSE link
    /\ UNCHANGED <<restClient, restNum, mcu, requests, answers, setups>>

\* The first n units, or what is at address 0 if the data has been freed.
Handed(data, n) ==
    IF data = <<>> THEN <<[of |-> 0, header |-> 0, len |-> 1]>> ELSE SubSeq(data, 1, n)
FirstPart(client) == IF client.data_len <= CHUNK THEN client.data_len ELSE CHUNK

tcpclient_connect_cb(p) ==
    /\ Connecting(link[p])
    /\ LET n == FirstPart(restClient[p])
       IN  /\ restClient' = [restClient EXCEPT ![p].data_sent = n]
           /\ link' = [link EXCEPT ![p] = espconn_sent(Opened(@), Handed(restClient[p].data, n))]
    /\ UNCHANGED <<restNum, lookup, mcu, requests, answers, setups>>

RemainderFromStart(client) == client.data \* mutant: begins at the beginning again
Remainder(client) == SubSeq(client.data, client.data_sent + 1, client.data_len)

tcpclient_sent_cb(p) ==
    LET client == restClient[p]
    IN  /\ Live(link[p]) /\ link[p].unsent > 0
        /\ IF client.data_sent # client.data_len
           THEN /\ link' = [link EXCEPT ![p] = espconn_sent(Acknowledged(@), Remainder(client))]
                /\ restClient' = [restClient EXCEPT ![p].data_sent = client.data_len]
           ELSE /\ link' = [link EXCEPT ![p] = Acknowledged(@)]
                /\ restClient' = [restClient EXCEPT ![p].data = <<>>]
        /\ UNCHANGED <<restNum, lookup, mcu, requests, answers, setups>>

\* The server has as many units as the first one promised.
HasRequest(units) == units # <<>> /\ Len(units) >= Head(units).len

\* The response comes in one piece, as the code assumes.
tcpclient_recv(p) ==
    /\ Up(link[p]) /\ HasRequest(link[p].out)
    /\ answers' = answers \cup {[cb |-> restClient[p].resp_cb, got |-> link[p].out]}
    /\ link' = [link EXCEPT ![p] = espconn_disconnect(@)]
    /\ UNCHANGED <<restClient, restNum, lookup, mcu, requests, setups>>

\* tcpclient_discon_cb and tcpclient_recon_cb: closed or refused.
Closed(p) ==
    /\ link[p].st # "none"
    /\ link' = [link EXCEPT ![p] = Idle]
    /\ restClient' = [restClient EXCEPT ![p].data = <<>>]
    /\ UNCHANGED <<restNum, lookup, mcu, requests, answers, setups>>

Init ==
    /\ restClient = [p \in Places |-> Free]
    /\ restNum = 0
    /\ link = [p \in Places |-> Idle]
    /\ lookup = [p \in Places |-> FALSE]
    /\ mcu = {} /\ requests = <<>> /\ answers = {} /\ setups = 0

Callback(p) ==
    \/ \E found \in BOOLEAN : rest_dns_found(p, found)
    \/ tcpclient_connect_cb(p) \/ tcpclient_sent_cb(p) \/ tcpclient_recv(p) \/ Closed(p)

Next ==
    \/ \E byName \in BOOLEAN : REST_Setup(byName)
    \/ \E c \in mcu : REST_SetHeader(c) \/ \E len \in Lengths : REST_Request(c, len)
    \/ McuRestarts
    \/ \E p \in Places : Callback(p)

Spec == Init /\ [][Next]_vars
-----------------------------------------------------------------------------
(* Properties *)

\* An answer goes to the callback of the client the request was made with,
\* and is an answer to that request as a whole: what the server had received
\* is what was asked for, head and body, although it is handed over in parts
\* while other clients, and set-ups after a restart of the MCU, use the pool.
RightAnswer ==
    \A a \in answers :
        LET r == Head(a.got).of
        IN  r \in DOMAIN requests /\ a.cb = requests[r].cb /\ a.got = requests[r].units
=============================================================================
