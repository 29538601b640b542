------------------------------- MODULE Httpd -------------------------------
(***************************************************************************)
(* The web server: httpd/httpd.c with three of the handlers (CGI functions)*)
(* it calls: cgiEspFsHook of httpdespfs.c, which sends a file, cgiUpload-  *)
(* Firmware of cgiflash.c, which writes a POST to flash, and WEB_CgiJson-  *)
(* Hook of web-server.c, which lets the microcontroller (MCU) answer.      *)
(*                                                                         *)
(* A handler is called when a request or a full buffer of its POST data is *)
(* there, again whenever something has been sent while it says MORE, from  *)
(* outside when the MCU has answered, and a last time, without connection, *)
(* to clean up.  DONE ends its calls, and what has been sent then is       *)
(* followed by the end of the connection.                                  *)
(*                                                                         *)
(* Data comes in units: a header is one, and a POST has req.clen more.     *)
(***************************************************************************)
EXTENDS Integers, Sequences, FiniteSets, FiniteSetsExt

CONSTANTS
    Socks,    \* the browsers' ends of connections: addresses and ports
    NoSock,
    MAX_CONN, \* places in the connection pool
    MAX_POST, \* units of POST data that are buffered
    CHUNK,    \* units of a file that are sent at a time
    FileLen,  \* FileLen[url] is the length of the file of that name
    SEC_SIZE, \* units in a flash sector
    Requests  \* Requests[s] is what a browser asks for: [url, auth, clen, body]

Min2(a, b) == IF a < b THEN a ELSE b
FIRMWARE_SIZE == Max({r.clen : r \in UNION {Requests[s] : s \in Socks}} \cup {1})
Addresses == 0 .. FIRMWARE_SIZE - 1
Slots == 1..MAX_CONN
NoSlot == 0
NULL == -1

ASSUME HttpdAssumption ==
    /\ NoSock \notin Socks
    /\ {MAX_CONN, MAX_POST, CHUNK, SEC_SIZE} \subseteq Nat \ {0}
    /\ SEC_SIZE % MAX_POST = 0
    /\ \A s \in Socks : \A req \in Requests[s] : req.clen \in Nat
    /\ "/user.html" \in DOMAIN FileLen /\ \A url \in DOMAIN FileLen : FileLen[url] \in Nat

VARIABLES
    slot,  \* connData, connPostData
    sock,  \* the connections as the SDK and the browsers see them
    unread, \* how many units have still to arrive on each
    flash, \* the partition for new firmware: what each unit holds
    files, \* how many files are open
    mcu    \* whether the MCU has registered; the connections it has been asked for

vars == <<slot, sock, unread, flash, files, mcu>>

NoRequest == [url |-> "", auth |-> FALSE, clen |-> 0, body |-> "none"]
FreeSlot == [conn |-> NoSock, req |-> NoRequest, cgi |-> "NULL", data |-> NULL, priv |-> FALSE,
             len |-> NULL, buff |-> <<>>, buffSize |-> 0, received |-> 0]
IdleSock == [st |-> "idle", req |-> NoRequest, sent |-> 0, reverse |-> NoSlot, answers |-> <<>>]

\* A callback works on all of it, and on what it has put into the send
\* buffer; r is what the handler returned last.
World == [slot |-> slot, sock |-> sock, flash |-> flash, files |-> files, mcu |-> mcu,
          out |-> <<>>, r |-> "DONE", response |-> FALSE]
Become(w) ==
    /\ slot' = w.slot /\ sock' = w.sock /\ flash' = w.flash /\ files' = w.files /\ mcu' = w.mcu

Returns(w, r) == [w EXCEPT !.r = r]

-----------------------------------------------------------------------------
(* Sending *)

httpdSend(w, answer) == [w EXCEPT !.out = Append(@, answer)]

espconn_sent(w, i, data) ==
    LET s == w.slot[i].conn
    IN  [w EXCEPT !.sock[s].sent = @ + 1, !.sock[s].answers = @ \o data]

httpdFlush(w, i) == IF w.out = <<>> THEN w ELSE [espconn_sent(w, i, w.out) EXCEPT !.out = <<>>]

\* The page goes to the first connection of the pool, whichever is meant:
\* the parameter is conn, and the body uses connData.
httpdForbidden(w, i) == IF i = 1 THEN httpdSend(w, "401") ELSE w

-----------------------------------------------------------------------------
(* Handlers *)

espFsClose(w, file) == IF file = NULL THEN w ELSE [w EXCEPT !.files = @ - 1]

\* Mutant: only a read of nothing ends the file.
cgiEspFsHookToEnd(w, i) ==
    LET q == w.slot[i]
        n == Min2(CHUNK, FileLen[q.req.url] - q.data)
        read == [(IF n > 0 THEN espconn_sent(w, i, <<n>>) ELSE w) EXCEPT !.slot[i].data = @ + n]
    IN  CASE q.conn = NoSock -> Returns(espFsClose(w, q.data), "DONE")
          [] q.conn # NoSock /\ q.data = NULL ->
                Returns(httpdSend([w EXCEPT !.files = @ + 1, !.slot[i].data = 0], "200"), "MORE")
          [] q.conn # NoSock /\ q.data # NULL /\ n = 0 -> Returns(espFsClose(read, q.data), "DONE")
          [] OTHER -> Returns(read, "MORE")

cgiEspFsHook(w, i) ==
    LET q == w.slot[i]
        n == Min2(CHUNK, FileLen[q.req.url] - q.data)
        read == [(IF n > 0 THEN espconn_sent(w, i, <<n>>) ELSE w) EXCEPT !.slot[i].data = @ + n]
    IN  CASE q.conn = NoSock -> Returns(espFsClose(w, q.data), "DONE")
          [] q.conn # NoSock /\ q.data = NULL ->
                Returns(httpdSend([w EXCEPT !.files = @ + 1, !.slot[i].data = 0], "200"), "MORE")
          [] q.conn # NoSock /\ q.data # NULL /\ n # CHUNK -> Returns(espFsClose(read, q.data), "DONE")
          [] OTHER -> Returns(read, "MORE")

Erased == <<"erased">>
\* What flash memory holds after data is written to it from address on: the
\* sector is erased first if the address is its start.
Written(f, address, data, erases) ==
    [a \in DOMAIN f |->
        LET erased == IF erases /\ a \div SEC_SIZE = address \div SEC_SIZE THEN Erased ELSE f[a]
        IN  IF a \in address .. address + Len(data) - 1
            THEN IF erased = Erased THEN data[a - address + 1] ELSE <<"garbage">>
            ELSE erased]

\* Mutant: the sector is not erased.
cgiUploadFirmwareNoErase(w, i) ==
    LET q == w.slot[i]
        offset == q.received - Len(q.buff)
        w1 == IF offset = 0 THEN [w EXCEPT !.slot[i].priv = FALSE] ELSE w
    IN  CASE q.conn = NoSock -> Returns(w, "DONE")
          [] q.conn # NoSock /\ offset # 0 /\ q.priv -> Returns(w, "DONE")
          [] q.conn # NoSock /\ (offset = 0 \/ ~q.priv) /\
                (q.len = 0 \/ (offset = 0 /\ q.buff[1][1] = "bad")) ->
                Returns(httpdSend([w1 EXCEPT !.slot[i].priv = TRUE], "400"), "DONE")
          [] OTHER -> LET w2 == [w1 EXCEPT !.flash = Written(@, offset, q.buff, offset = 0)]
                      IN  IF q.received = q.len THEN Returns(httpdSend(w2, "200"), "DONE")
                          ELSE Returns(w2, "MORE")

\* A buffer of POST data is written where it belongs.  An upload that is no
\* POST or does not begin like firmware is refused.
cgiUploadFirmware(w, i) ==
    LET q == w.slot[i]
        offset == q.received - Len(q.buff)
        w1 == IF offset = 0 THEN [w EXCEPT !.slot[i].priv = FALSE] ELSE w
    IN  CASE q.conn = NoSock -> Returns(w, "DONE")
          [] q.conn # NoSock /\ offset # 0 /\ q.priv -> Returns(w, "DONE")
          [] q.conn # NoSock /\ (offset = 0 \/ ~q.priv) /\
                (q.len = 0 \/ (offset = 0 /\ q.buff[1][1] = "bad")) ->
                Returns(httpdSend([w1 EXCEPT !.slot[i].priv = TRUE], "400"), "DONE")
          [] OTHER -> LET w2 == [w1 EXCEPT !.flash = Written(@, offset, q.buff, offset % SEC_SIZE = 0)]
                      IN  IF q.received = q.len THEN Returns(httpdSend(w2, "200"), "DONE")
                          ELSE Returns(w2, "MORE")

\* The MCU is told, with the address and port to answer to.  A form that is
\* submitted is passed on whole or not at all, and needs no answer.
WEB_handleJSONRequest(w, i) ==
    LET q == w.slot[i]
        tell == [w EXCEPT !.mcu.asked = @ \cup {q.conn}]
    IN  CASE ~w.mcu.cb -> Returns(httpdSend(w, "500"), "DONE")
          [] w.mcu.cb /\ q.req.body # "submit" -> Returns(tell, "MORE")
          [] w.mcu.cb /\ q.req.body = "submit" ->
                IF q.received < q.len THEN Returns(httpdSend(w, "400"), "DONE")
                ELSE Returns(httpdSend(w, "204"), "DONE")

WEB_CgiJsonHook(w, i) ==
    LET q == w.slot[i]
    IN  CASE q.conn = NoSock -> Returns(w, "DONE")
          [] q.conn # NoSock /\ q.data = NULL -> WEB_handleJSONRequest([w EXCEPT !.slot[i].data = 1], i)
          [] q.conn # NoSock /\ q.data # NULL /\ w.response -> Returns(httpdSend(w, "200"), "DONE")
          [] OTHER -> Returns(w, "MORE")

CallCgi(w, i) ==
    CASE w.slot[i].cgi = "file"     -> cgiEspFsHook(w, i)
      [] w.slot[i].cgi = "firmware" -> cgiUploadFirmware(w, i)
      [] w.slot[i].cgi = "json"     -> WEB_CgiJsonHook(w, i)

-----------------------------------------------------------------------------
(* Requests *)

\* builtInUrls: the handler of a URL, and whether it wants a login.  The
\* first entry that matches counts; the one for files, "*", is the last.
builtInUrls(url) ==
    CASE url = "/flash/upload"        -> [cgi |-> "firmware", auth |-> FALSE]
      [] url = "/some.json"           -> [cgi |-> "json", auth |-> FALSE]
      [] url = "/user.html"           -> [cgi |-> "file", auth |-> TRUE]
      [] url \in DOMAIN FileLen \ {"/flash/upload", "/some.json", "/user.html"} ->
            [cgi |-> "file", auth |-> FALSE]
      [] OTHER                        -> [cgi |-> "NULL", auth |-> FALSE]

\* Mutant: the rest of the POST data is not skipped.
FinishedReadsOn(w, i) == [w EXCEPT !.slot[i].cgi = "NULL"]

\* The end of a request: cgi is marked for destruction, and what is still
\* to be received is skipped.
Finished(w, i) == [w EXCEPT !.slot[i].cgi = "NULL", !.slot[i].len = 0]

httpdProcessRequest(w, i) ==
    LET q == w.slot[i]
        found == builtInUrls(q.req.url)
        w1 == IF q.cgi # "NULL" THEN w
              ELSE [w EXCEPT !.slot[i].data = NULL, !.slot[i].cgi = found.cgi]
        called == CallCgi(w1, i)
    IN  CASE q.cgi = "NULL" /\ found.auth /\ ~q.req.auth -> Finished(httpdFlush(httpdForbidden(w, i), i), i)
          [] q.cgi = "NULL" /\ found.cgi = "NULL" -> Finished(httpdFlush(httpdSend(w, "404"), i), i)
          [] OTHER -> IF called.r = "MORE" THEN httpdFlush(called, i)
                      ELSE Finished(httpdFlush(called, i), i)

\* httpdParseHeader for every line of the header
httpdParseHeader(w, i, req) ==
    [w EXCEPT !.slot[i] = [@ EXCEPT !.req = req, !.len = req.clen, !.buff = <<>>,
                                    !.buffSize = Min2(req.clen, MAX_POST)]]

\* One unit of data: the header, POST data, or what is skipped.
Receive(w, i, unit) ==
    LET q == w.slot[i]
        head == httpdParseHeader(w, i, unit)
        post == [w EXCEPT !.slot[i].buff = Append(@, unit), !.slot[i].received = @ + 1]
        full == Len(q.buff) + 1 >= q.buffSize \/ q.received + 1 = q.len
    IN  CASE q.len < 0 -> IF head.slot[i].len = 0 THEN httpdProcessRequest(head, i) ELSE head
          [] q.len > 0 -> IF full THEN [httpdProcessRequest(post, i) EXCEPT !.slot[i].buff = <<>>] ELSE post
          [] q.len = 0 -> w

Unit(req, k) == IF k = 1 THEN req ELSE <<req.body, k - 1>>

-----------------------------------------------------------------------------
(* Callbacks of the SDK *)

\* A browser connects.  One upload of firmware is sent at a time, and a
\* port is not used again as long as the MCU may answer to it.
httpdConnectCb(s) ==
    LET free == {i \in Slots : slot[i].conn = NoSock}
        i == Min(free)
    IN  \E req \in Requests[s] :
          /\ sock[s].st = "idle" /\ s \notin mcu.asked
          /\ req.url = "/flash/upload" =>
                \A t \in Socks : sock[t].st = "idle" \/ sock[t].req.url # "/flash/upload"
                                 \/ unread[t] = 0
          /\ IF free = {}
             THEN sock' = [sock EXCEPT ![s] = [IdleSock EXCEPT !.st = "closing", !.req = req]] /\ UNCHANGED slot
             ELSE /\ sock' = [sock EXCEPT ![s] = [IdleSock EXCEPT !.st = "up", !.req = req, !.reverse = i]]
                  /\ slot' = [slot EXCEPT ![i] = [@ EXCEPT !.conn = s, !.buff = <<>>, !.received = 0, !.len = NULL]]
          /\ unread' = [unread EXCEPT ![s] = IF free = {} THEN 0 ELSE 1 + req.clen]
          /\ UNCHANGED <<flash, files, mcu>>

httpdRecvCb(s) ==
    /\ sock[s].reverse # NoSlot
    /\ \E n \in 1..unread[s] :
          LET at == 1 + sock[s].req.clen - unread[s]
              w[k \in 0..n] == IF k = 0 THEN World
                               ELSE Receive(w[k - 1], sock[s].reverse, Unit(sock[s].req, at + k))
          IN  Become(w[n]) /\ unread' = [unread EXCEPT ![s] = @ - n]

httpdSentCb(s) ==
    /\ sock[s].sent > 0 /\ UNCHANGED unread
    /\ LET i == sock[s].reverse
           w == [World EXCEPT !.sock[s].sent = @ - 1]
           called == CallCgi(w, i)
       IN  Become(CASE i = NoSlot -> w
                    [] i # NoSlot /\ slot[i].cgi = "NULL" -> [w EXCEPT !.sock[s].st = "closing"]
                    [] OTHER -> httpdFlush(IF called.r = "MORE" THEN called
                                           ELSE [called EXCEPT !.slot[i].cgi = "NULL"], i))

\* Mutant: the handler is not called to clean up.
httpdRetireConnForgets(w, i) ==
    [w EXCEPT !.slot[i] = FreeSlot]

\* What else is left of the request is not used for the next.
httpdRetireConn(w, i) ==
    LET w1 == [w EXCEPT !.slot[i].conn = NoSock]
        w2 == IF w1.slot[i].cgi = "NULL" THEN w1 ELSE CallCgi(w1, i)
    IN  [w2 EXCEPT !.slot[i] = FreeSlot]

\* httpdDisconCb and httpdReconCb: the connection was closed by either end,
\* or is lost.
httpdDisconCb(s) ==
    /\ sock[s].st # "idle"
    /\ unread' = [unread EXCEPT ![s] = 0]
    /\ LET w == [World EXCEPT !.sock[s] = IdleSock]
       IN  Become(IF sock[s].reverse = NoSlot THEN w ELSE httpdRetireConn(w, sock[s].reverse))

-----------------------------------------------------------------------------
(* The MCU *)

WEB_Setup ==
    /\ ~mcu.cb /\ mcu' = [mcu EXCEPT !.cb = TRUE]
    /\ UNCHANGED <<slot, sock, unread, flash, files>>

httpdLookUpConn(s) == {i \in Slots : slot[i].conn = s /\ slot[i].cgi # "NULL"}

httpdSetCGIResponse(w, i) ==
    [httpdProcessRequest([w EXCEPT !.response = TRUE], i) EXCEPT !.response = FALSE]

\* The MCU answers; it may do so again.
WEB_Data(s) ==
    /\ s \in mcu.asked /\ UNCHANGED unread
    /\ \E asked \in {mcu.asked, mcu.asked \ {s}} :
          LET w == [World EXCEPT !.mcu.asked = asked]
              i == Min(httpdLookUpConn(s))
          IN  Become(IF httpdLookUpConn(s) # {} /\ slot[i].cgi = "json" THEN httpdSetCGIResponse(w, i) ELSE w)

-----------------------------------------------------------------------------
Init ==
    /\ slot = [i \in Slots |-> FreeSlot]
    /\ sock = [s \in Socks |-> IdleSock]
    /\ unread = [s \in Socks |-> 0]
    /\ flash = [a \in Addresses |-> <<"old">>]
    /\ files = 0
    /\ mcu = [cb |-> FALSE, asked |-> {}]

Next ==
    \/ WEB_Setup
    \/ \E s \in Socks : httpdConnectCb(s) \/ httpdRecvCb(s) \/ httpdSentCb(s) \/ httpdDisconCb(s) \/ WEB_Data(s)

Spec == Init /\ [][Next]_vars

\* Data arrives and is sent, a connection that is closed goes away, the MCU
\* answers: weak fairness of the callbacks, that of httpdRecvCb stated of what
\* it changes, of the others with the condition that enables them.
FairSpec ==
    /\ Spec
    /\ \A s \in Socks :
          /\ WF_unread(\E n \in 0 .. unread[s] - 1 : unread' = [unread EXCEPT ![s] = n])
          /\ []<>(sock[s].sent = 0) \/ []<><<httpdSentCb(s)>>_vars
          /\ []<>(s \notin mcu.asked) \/ []<><<WEB_Data(s)>>_vars
          /\ []<>(sock[s].st # "closing") \/ []<><<httpdDisconCb(s)>>_vars

-----------------------------------------------------------------------------
(* Properties *)

(* A place in the pool belongs to the connection that points to it, and    *)
(* every open file to a place whose handler will still be called: however  *)
(* a connection ends, its file is closed once and its place is free again. *)
Owned ==
    /\ \A i \in Slots, s \in Socks : slot[i].conn = s <=> sock[s].reverse = i
    /\ \A i \in Slots : slot[i].conn = NoSock => slot[i].cgi = "NULL"
    /\ files = Cardinality({i \in Slots : slot[i].cgi = "file" /\ slot[i].data # NULL})

(* Nothing is sent before the last has been; a request has one answer, the *)
(* right one, in its order, and it is complete when the server closes the  *)
(* connection: whatever else arrives, is sent or is answered by the MCU.   *)
Chunks(n) == [k \in 1 .. (n + CHUNK - 1) \div CHUNK |-> Min2(CHUNK, n - (k - 1) * CHUNK)]
Answers(req) ==
    LET found == builtInUrls(req.url)
    IN  CASE found.auth /\ ~req.auth  -> {<<"401">>}
          [] found.cgi = "NULL"       -> {<<"404">>}
          [] found.cgi = "firmware"   -> {IF req.clen = 0 \/ req.body = "bad" THEN <<"400">> ELSE <<"200">>}
          [] found.cgi = "json"       -> IF req.body # "submit" THEN {<<"200">>, <<"500">>}
                                         ELSE {IF req.clen > MAX_POST THEN <<"400">> ELSE <<"204">>, <<"500">>}
          [] found.cgi = "file" /\ (req.auth \/ ~found.auth) -> {<<"200">> \o Chunks(FileLen[req.url])}
RightAnswers ==
    \A s \in Socks : sock[s].reverse # NoSlot =>
        /\ sock[s].sent <= 1
        /\ \E answer \in Answers(sock[s].req) :
              \/ sock[s].answers = answer
              \/ sock[s].st = "up" /\ sock[s].answers = SubSeq(answer, 1, Len(sock[s].answers))

(* An upload that is answered with success is in flash, every unit in its  *)
(* place and none written over another, whatever broken uploads preceded.  *)
UploadIntact ==
    [][\A s \in Socks :
          /\ sock[s].answers = <<>> /\ sock'[s].answers = <<"200">>
          /\ sock[s].req.url = "/flash/upload"
          => \A k \in 1..sock[s].req.clen : flash'[k - 1] = <<sock[s].req.body, k>>]_vars

(* A request that has arrived is answered and the connection is closed.    *)
Served == \A s \in Socks :
    (sock[s].st = "up" /\ unread[s] = 0) ~> sock[s].st # "up"
=============================================================================
