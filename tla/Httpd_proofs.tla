---------------------------- MODULE Httpd_proofs ----------------------------
(***************************************************************************)
(* A place in the pool of the web server and the connection it belongs to  *)
(* point to each other, and every open file is one of a handler that will  *)
(* be called again: for every pool, buffer and file, any number of         *)
(* browsers, and whatever they ask for and break off.                      *)
(*                                                                         *)
(* That no file is left open, nor closed twice, is a matter of what a      *)
(* handler is called for.  A file is held by a place whose handler is set  *)
(* and has data; the invariant, HttpdInv, counts those places.  It has to  *)
(* know that a header is parsed once, before a handler is set: it would    *)
(* change the name of the file that is being sent.                         *)
(*                                                                         *)
(* That an answer is the one of its request, and that an upload answered   *)
(* with 200 is in flash, rests on AnswerInv, which says how far every      *)
(* request is: Fresh, Collecting its POST in the buffer, Storing an upload *)
(* buffer by buffer, Asking the MCU, Sending a file, or Over.  A unit that *)
(* arrives, a handler that is called and a packet that is confirmed lead   *)
(* from one of these to another (Outcome, GoesOn), and by an induction     *)
(* over its units so does a packet that holds many (PiecesGoOn).  An       *)
(* upload that is being stored has all before the buffer in its place, and *)
(* the rest of the sector erased (Stored), because a full buffer never     *)
(* crosses the end of a sector and one upload is arriving at a time.       *)
(*                                                                         *)
(* ShortPosts: a POST to a file that is longer than the buffer is outside  *)
(* the theorems.  Its handler is called for every full buffer and sends a  *)
(* part each time, before the part that was sent last is confirmed.        *)
(***************************************************************************)
EXTENDS Httpd, FiniteSetTheorems, SequenceTheorems, SequenceLemmas

-----------------------------------------------------------------------------
(* The invariant *)

Asked == (UNION {Requests[s] : s \in Socks}) \cup {NoRequest}
Units == Asked \cup {<<r.body, k>> : r \in Asked, k \in Nat}
Cells == Units \cup {Erased, <<"old">>, <<"garbage">>}
Codes == {"200", "204", "400", "401", "404", "500"}
Answer == Codes \cup Int

Slot ==
    [conn : Socks \cup {NoSock}, req : Asked, cgi : {"NULL", "file", "firmware", "json"},
     data : Int, priv : BOOLEAN, len : Int, buff : Seq(Units), buffSize : Int, received : Int]
Sock ==
    [st : {"idle", "up", "closing"}, req : Asked, sent : Int, reverse : Slots \cup {NoSlot},
     answers : Seq(Answer)]
Mcu == [cb : BOOLEAN, asked : SUBSET (Socks \cup {NoSock})]
Worlds ==
    [slot : [Slots -> Slot], sock : [Socks -> Sock], flash : [Addresses -> Cells], files : Int,
     mcu : Mcu, out : Seq(Answer), r : {"DONE", "MORE"}, response : BOOLEAN]

HttpdType ==
    /\ slot \in [Slots -> Slot]
    /\ sock \in [Socks -> Sock]
    /\ unread \in [Socks -> Nat]
    /\ flash \in [Addresses -> Cells]
    /\ files \in Int
    /\ mcu \in Mcu

\* A place that holds a file holds one that is, and has not been read beyond
\* its end; and a header is read before there is a handler.
SlotOK(q) ==
    /\ q.cgi = "file" =>
          /\ FileLen[q.req.url] \in Nat
          /\ q.data = NULL \/ q.data \in 0..FileLen[q.req.url]
    /\ q.len < 0 => q.cgi = "NULL"

Linked(sl, so) == \A i \in Slots, s \in Socks : sl[i].conn = s <=> so[s].reverse = i
Attended(sl) == \A i \in Slots : sl[i].conn = NoSock => sl[i].cgi = "NULL"
Holds(q) == q.cgi = "file" /\ q.data # NULL
Holders(sl) == {i \in Slots : Holds(sl[i])}

\* The pool and the connections are in order.
PoolOK(sl, so, open) ==
    /\ Linked(sl, so)
    /\ Attended(sl)
    /\ \A i \in Slots : SlotOK(sl[i])
    /\ open = Cardinality(Holders(sl))

\* Of the connection s: the header has been parsed if it has arrived.
Heard(q, so, left) ==
    /\ so.req.clen \in Nat /\ left \in 0 .. 1 + so.req.clen
    /\ q.len < 0 <=> left = 1 + so.req.clen

HttpdInv ==
    /\ HttpdType
    /\ PoolOK(slot, sock, files)
    /\ \A s \in Socks : sock[s].reverse # NoSlot =>
          /\ sock[s].st # "idle"
          /\ Heard(slot[sock[s].reverse], sock[s], unread[s])

-----------------------------------------------------------------------------
(* What sending and setting a place do to a world *)

\* The browsers' ends are where they were.
SameEnds(w, v) ==
    \A s \in Socks : /\ v.sock[s].reverse = w.sock[s].reverse /\ v.sock[s].req = w.sock[s].req
                     /\ v.sock[s].st = w.sock[s].st

\* v is w after something was sent or the MCU told something.
OnlySends(w, v) ==
    /\ v \in Worlds
    /\ v.slot = w.slot /\ v.files = w.files /\ v.r = w.r
    /\ SameEnds(w, v)

LEMMA WorldParts ==
    ASSUME NEW w \in Worlds
    PROVE  /\ w.slot \in [Slots -> Slot] /\ w.sock \in [Socks -> Sock]
           /\ w.flash \in [Addresses -> Cells] /\ w.files \in Int /\ w.mcu \in Mcu
           /\ w.out \in Seq(Answer) /\ w.r \in {"DONE", "MORE"} /\ w.response \in BOOLEAN
           /\ \A i \in Slots : w.slot[i] \in Slot
           /\ \A s \in Socks : w.sock[s] \in Sock
BY DEF Worlds

LEMMA SlotParts ==
    ASSUME NEW q \in Slot
    PROVE  /\ q.conn \in Socks \cup {NoSock} /\ q.req \in Asked
           /\ q.cgi \in {"NULL", "file", "firmware", "json"} /\ q.data \in Int /\ q.priv \in BOOLEAN
           /\ q.len \in Int /\ q.buff \in Seq(Units) /\ q.buffSize \in Int /\ q.received \in Int
BY DEF Slot

LEMMA AskedParts == \A r \in Asked : r.clen \in Nat /\ r \in Units
<1>. SUFFICES ASSUME NEW r \in Asked PROVE r.clen \in Nat /\ r \in Units
  OBVIOUS
<1>1. r \in Units
  BY DEF Units
<1>2. r.clen \in Nat
  <2>1. CASE r = NoRequest
    BY <2>1 DEF NoRequest
  <2>2. CASE r # NoRequest
    <3>1. r \in UNION {Requests[s] : s \in Socks}
      <4>. DEFINE All == UNION {Requests[s] : s \in Socks}
      <4>1. r \in All \cup {NoRequest}
        BY DEF Asked
      <4>. HIDE DEF All
      <4>2. r \in All
        BY <2>2, <4>1
      <4>. QED BY <4>2 DEF All
    <3>2. PICK s \in Socks : r \in Requests[s]
      BY <3>1, Zenon
    <3>. QED BY <3>2, HttpdAssumption
  <2>. QED BY <2>1, <2>2
<1>. QED
  BY <1>1, <1>2

SlotPut(w, i, q) == [w EXCEPT !.slot = [w.slot EXCEPT ![i] = q]]

LEMMA SlotSet ==
    ASSUME NEW w \in Worlds, NEW i \in Slots, NEW q \in Slot
    PROVE  LET v == SlotPut(w, i, q)
           IN  /\ v \in Worlds /\ v.slot[i] = q
               /\ \A j \in Slots : j # i => v.slot[j] = w.slot[j]
               /\ v.sock = w.sock /\ v.files = w.files /\ v.r = w.r /\ v.response = w.response
               /\ v.mcu = w.mcu /\ v.out = w.out
BY DEF Worlds, SlotPut

LEMMA FilesSet ==
    ASSUME NEW w \in Worlds, NEW n \in Int, NEW v, v = [w EXCEPT !.files = n]
    PROVE  /\ v \in Worlds /\ v.files = n /\ v.slot = w.slot /\ v.sock = w.sock /\ v.r = w.r
           /\ v.response = w.response
BY DEF Worlds

LEMMA ReturnsSet ==
    ASSUME NEW w \in Worlds, NEW r \in {"DONE", "MORE"}
    PROVE  /\ Returns(w, r) \in Worlds /\ Returns(w, r).r = r
           /\ Returns(w, r).slot = w.slot /\ Returns(w, r).files = w.files
           /\ Returns(w, r).sock = w.sock
BY DEF Worlds, Returns

LEMMA SendOnly ==
    ASSUME NEW w \in Worlds, NEW answer \in Codes
    PROVE  OnlySends(w, httpdSend(w, answer))
<1>1. Append(w.out, answer) \in Seq(Answer)
  BY WorldParts DEF Answer
<1>. QED
  BY <1>1 DEF OnlySends, httpdSend, Worlds, SameEnds

LEMMA SentOnly ==
    ASSUME NEW w \in Worlds, NEW i \in Slots, NEW data \in Seq(Answer)
    PROVE  OnlySends(w, espconn_sent(w, i, data))
<1>. DEFINE s == w.slot[i].conn
            so == [w.sock[s] EXCEPT !.sent = @ + 1, !.answers = @ \o data]
            v == espconn_sent(w, i, data)
<1>1. v = [w EXCEPT !.sock = [w.sock EXCEPT ![s] = so]]
  BY DEF espconn_sent, Worlds
<1>2. w.sock \in [Socks -> Sock] /\ \A t \in Socks : w.sock[t] \in Sock
  BY WorldParts
<1>3. s \in Socks =>
         /\ so \in Sock /\ so.reverse = w.sock[s].reverse
         /\ so.req = w.sock[s].req /\ so.st = w.sock[s].st
  <2>. SUFFICES ASSUME s \in Socks
                PROVE  /\ so \in Sock /\ so.reverse = w.sock[s].reverse
                       /\ so.req = w.sock[s].req /\ so.st = w.sock[s].st
    OBVIOUS
  <2>1. \A t \in Sock, n \in Int, a \in Seq(Answer) :
           LET new == [t EXCEPT !.sent = n, !.answers = a]
           IN  new \in Sock /\ new.reverse = t.reverse /\ new.req = t.req /\ new.st = t.st
    BY DEF Sock
  <2>2. w.sock[s] \in Sock
    BY <1>2
  <2>3. w.sock[s].sent + 1 \in Int /\ w.sock[s].answers \in Seq(Answer)
    BY <2>2 DEF Sock
  <2>4. w.sock[s].answers \o data \in Seq(Answer)
    BY <2>3
  <2>. HIDE DEF s
  <2>. DEFINE n == w.sock[s].sent + 1
              a == w.sock[s].answers \o data
              t == w.sock[s]
  <2>5. n \in Int /\ a \in Seq(Answer) /\ t \in Sock
    BY <2>2, <2>3, <2>4
  <2>6. so = [t EXCEPT !.sent = n, !.answers = a]
    OBVIOUS
  <2>7. t = w.sock[s]
    OBVIOUS
  <2>. HIDE DEF n, a, t, so
  <2>8. so \in Sock /\ so.reverse = t.reverse /\ so.req = t.req /\ so.st = t.st
    BY <2>1, <2>5, <2>6
  <2>. QED BY <2>7, <2>8
<1>. HIDE DEF so, s, v
<1>4. [w.sock EXCEPT ![s] = so] \in [Socks -> Sock]
  BY <1>2, <1>3
<1>. QED
  BY <1>1, <1>2, <1>3, <1>4 DEF OnlySends, Worlds, v, SameEnds

LEMMA FlushOnly ==
    ASSUME NEW w \in Worlds, NEW i \in Slots
    PROVE  OnlySends(w, httpdFlush(w, i))
<1>. DEFINE u == espconn_sent(w, i, w.out)
<1>1. OnlySends(w, u)
  BY WorldParts, SentOnly
<1>2. CASE w.out = <<>>
  BY <1>2 DEF httpdFlush, OnlySends, SameEnds
<1>3. CASE w.out # <<>>
  <2>1. httpdFlush(w, i) = [u EXCEPT !.out = <<>>]
    BY <1>3 DEF httpdFlush
  <2>2. <<>> \in Seq(Answer)
    OBVIOUS
  <2>. HIDE DEF u
  <2>. QED BY <1>1, <2>1, <2>2 DEF OnlySends, Worlds, SameEnds
<1>. QED
  BY <1>2, <1>3

LEMMA OnlySendsTwice ==
    ASSUME NEW w, NEW u, NEW v, OnlySends(w, u), OnlySends(u, v)
    PROVE  OnlySends(w, v)
BY DEF OnlySends, SameEnds

-----------------------------------------------------------------------------
(* The handlers *)

Own(q) == IF Holds(q) THEN 1 ELSE 0

\* v is w after the handler of place i was called: a file it has opened is
\* counted if it wants to be called again, and closed if not.
Handled(w, v, i) ==
    /\ v \in Worlds
    /\ \A j \in Slots : j # i => v.slot[j] = w.slot[j]
    /\ SameEnds(w, v)
    /\ v.slot[i].conn = w.slot[i].conn /\ v.slot[i].req = w.slot[i].req
    /\ v.slot[i].len = w.slot[i].len /\ v.slot[i].cgi = w.slot[i].cgi
    /\ SlotOK(v.slot[i])
    /\ w.slot[i].conn = NoSock => v.r = "DONE"
    /\ v.files = w.files - Own(w.slot[i]) + (IF v.r = "MORE" THEN Own(v.slot[i]) ELSE 0)

\* u is w after a handler that does not deal with files has done something.
Keeps(w, u, i) ==
    /\ u \in Worlds /\ u.files = w.files
    /\ \A j \in Slots : j # i => u.slot[j] = w.slot[j]
    /\ SameEnds(w, u)
    /\ u.slot[i].conn = w.slot[i].conn /\ u.slot[i].req = w.slot[i].req
    /\ u.slot[i].len = w.slot[i].len /\ u.slot[i].cgi = w.slot[i].cgi

LEMMA KeepsSlot ==
    ASSUME NEW w \in Worlds, NEW i \in Slots, NEW q \in Slot,
           q.conn = w.slot[i].conn, q.req = w.slot[i].req,
           q.len = w.slot[i].len, q.cgi = w.slot[i].cgi
    PROVE  Keeps(w, SlotPut(w, i, q), i)
<1>. DEFINE u == SlotPut(w, i, q)
<1>1. /\ u \in Worlds /\ u.slot[i] = q /\ \A j \in Slots : j # i => u.slot[j] = w.slot[j]
      /\ u.sock = w.sock /\ u.files = w.files
  BY SlotSet
<1>. HIDE DEF u
<1>2. Keeps(w, u, i)
  BY <1>1 DEF Keeps, SameEnds
<1>. QED
  BY <1>2 DEF u

LEMMA KeepsSends ==
    ASSUME NEW w \in Worlds, NEW i \in Slots, NEW u, Keeps(w, u, i), NEW v, OnlySends(u, v)
    PROVE  Keeps(w, v, i)
BY DEF Keeps, OnlySends, SameEnds

LEMMA KeepsItself == \A w \in Worlds, i \in Slots : Keeps(w, w, i)
BY DEF Keeps, SameEnds

LEMMA Unheld ==
    ASSUME NEW w \in Worlds, NEW i \in Slots, w.slot[i].cgi # "file", SlotOK(w.slot[i]),
           NEW u, Keeps(w, u, i), NEW r \in {"DONE", "MORE"}, w.slot[i].conn = NoSock => r = "DONE"
    PROVE  Handled(w, Returns(u, r), i)
<1>. DEFINE v == Returns(u, r)
<1>1. v \in Worlds /\ v.slot = u.slot /\ v.files = u.files /\ v.r = r /\ v.sock = u.sock
  BY ReturnsSet DEF Keeps, SameEnds
<1>. HIDE DEF v
<1>2. ~Holds(w.slot[i]) /\ ~Holds(v.slot[i])
  BY <1>1 DEF Holds, Keeps, SameEnds
<1>3. Own(w.slot[i]) = 0 /\ Own(v.slot[i]) = 0 /\ w.files \in Int
  BY <1>2, WorldParts DEF Own
<1>4. SlotOK(v.slot[i])
  BY <1>1 DEF SlotOK, Keeps, SameEnds
<1>5. v.files = w.files - Own(w.slot[i]) + (IF v.r = "MORE" THEN Own(v.slot[i]) ELSE 0)
  BY <1>1, <1>3 DEF Keeps, SameEnds
<1>6. Handled(w, v, i)
  BY <1>1, <1>4, <1>5 DEF Handled, Keeps, SameEnds
<1>. QED
  BY <1>6 DEF v

LEMMA FilesHandled ==
    ASSUME NEW w \in Worlds, NEW i \in Slots, w.slot[i].cgi = "file", SlotOK(w.slot[i])
    PROVE  Handled(w, cgiEspFsHook(w, i), i)
<1>. DEFINE q == w.slot[i]
            n == Min2(CHUNK, FileLen[q.req.url] - q.data)
            sent == IF n > 0 THEN espconn_sent(w, i, <<n>>) ELSE w
            read == [sent EXCEPT !.slot[i].data = @ + n]
            v == cgiEspFsHook(w, i)
<1>. SUFFICES Handled(w, v, i)
  OBVIOUS
<1>1. q \in Slot /\ q.data \in Int /\ w.files \in Int /\ q.cgi = "file"
  BY WorldParts, SlotParts
<1>2. SlotOK(q) /\ FileLen[q.req.url] \in Nat /\ (q.data = NULL \/ q.data \in 0..FileLen[q.req.url])
  BY DEF SlotOK
<1>3. CHUNK \in Nat \ {0}
  BY HttpdAssumption
<1>4. w.slot[i] = q
  OBVIOUS
<1>5. CASE q.conn = NoSock
  <2>. DEFINE u == espFsClose(w, q.data)
  <2>1. v = Returns(u, "DONE")
    BY <1>5 DEF cgiEspFsHook
  <2>. HIDE DEF v, q
  <2>2. u \in Worlds /\ u.slot = w.slot /\ u.sock = w.sock /\ u.files = w.files - Own(q)
    <3>1. CASE q.data = NULL
      BY <1>1, <3>1 DEF espFsClose, Own, Holds
    <3>2. CASE q.data # NULL
      <4>1. u = [w EXCEPT !.files = w.files - 1] /\ Own(q) = 1 /\ w.files - 1 \in Int
        BY <1>1, <3>2 DEF espFsClose, Own, Holds
      <4>. HIDE DEF u
      <4>. QED BY <4>1, FilesSet
    <3>. QED BY <3>1, <3>2
  <2>. HIDE DEF u
  <2>3. /\ v \in Worlds /\ v.slot = w.slot /\ v.sock = w.sock /\ v.files = w.files - Own(q)
        /\ v.r = "DONE"
    BY <2>1, <2>2, ReturnsSet
  <2>4. v.files = w.files - Own(q) + (IF v.r = "MORE" THEN Own(v.slot[i]) ELSE 0)
    BY <1>1, <2>3 DEF Own
  <2>. QED BY <1>2, <1>4, <2>3, <2>4 DEF Handled, SameEnds
<1>6. CASE q.conn # NoSock /\ q.data = NULL
  <2>. DEFINE new == [q EXCEPT !.data = 0]
              u1 == [w EXCEPT !.files = w.files + 1]
              u2 == [u1 EXCEPT !.slot = [u1.slot EXCEPT ![i] = new]]
              u3 == httpdSend(u2, "200")
  <2>1. v = Returns(u3, "MORE")
    <3>1. u2 = [w EXCEPT !.files = @ + 1, !.slot[i].data = 0]
      BY DEF Worlds
    <3>2. v = Returns(httpdSend([w EXCEPT !.files = @ + 1, !.slot[i].data = 0], "200"), "MORE")
      BY <1>6 DEF cgiEspFsHook
    <3>. QED BY <3>1, <3>2
  <2>. HIDE DEF v, q
  <2>2. new \in Slot /\ new.data = 0 /\ new.conn = q.conn /\ new.req = q.req /\ new.len = q.len
        /\ new.cgi = q.cgi
    BY <1>1 DEF Slot
  <2>3. u1 \in Worlds /\ u1.files = w.files + 1 /\ u1.slot = w.slot /\ u1.sock = w.sock
    <3>1. w.files + 1 \in Int
      BY <1>1
    <3>. QED BY <3>1, FilesSet
  <2>4. u2 = SlotPut(u1, i, new)
    BY DEF SlotPut
  <2>. HIDE DEF u1, u2, new
  <2>5. /\ u2 \in Worlds /\ u2.slot[i] = new /\ \A j \in Slots : j # i => u2.slot[j] = w.slot[j]
        /\ u2.sock = w.sock /\ u2.files = w.files + 1
    BY <2>2, <2>3, <2>4, SlotSet
  <2>6. "200" \in Codes
    BY DEF Codes
  <2>7. OnlySends(u2, u3)
    BY <2>5, <2>6, SendOnly
  <2>. HIDE DEF u3
  <2>8. /\ v \in Worlds /\ v.slot = u2.slot /\ v.files = u2.files /\ v.r = "MORE"
        /\ SameEnds(w, v)
    BY <2>1, <2>5, <2>7, ReturnsSet DEF OnlySends, SameEnds
  <2>9. SlotOK(new)
    BY <1>2, <2>2 DEF SlotOK
  <2>10. Own(q) = 0 /\ Own(new) = 1
    BY <1>1, <1>6, <2>2 DEF Own, Holds, NULL
  <2>11. v.files = w.files - Own(q) + (IF v.r = "MORE" THEN Own(v.slot[i]) ELSE 0)
    BY <1>1, <2>5, <2>8, <2>10
  <2>. QED BY <1>4, <1>6, <2>2, <2>5, <2>8, <2>9, <2>11 DEF Handled, SameEnds
<1>7. CASE q.conn # NoSock /\ q.data # NULL
  <2>. DEFINE new == [q EXCEPT !.data = q.data + n]
  <2>1. n \in Nat /\ q.data + n \in 0..FileLen[q.req.url]
    BY <1>2, <1>3, <1>7 DEF Min2
  <2>2. OnlySends(w, sent)
    <3>1. <<n>> \in Seq(Answer)
      BY <2>1 DEF Answer
    <3>2. OnlySends(w, w)
      BY DEF OnlySends, SameEnds
    <3>. HIDE DEF n
    <3>. QED BY <3>1, <3>2, SentOnly
  <2>3. \/ v = Returns(espFsClose(read, q.data), "DONE")
        \/ v = Returns(read, "MORE")
    BY <1>7 DEF cgiEspFsHook
  <2>4. q.data + n \in Int
    BY <2>1, <1>1
  <2>. HIDE DEF v, n
  <2>5. new \in Slot /\ new.data = q.data + n /\ new.conn = q.conn /\ new.req = q.req
        /\ new.len = q.len /\ new.cgi = q.cgi
    BY <1>1, <2>4 DEF Slot
  <2>6. read = SlotPut(sent, i, new)
    <3>1. sent \in Worlds /\ sent.slot = w.slot
      BY <2>2 DEF OnlySends, SameEnds
    <3>. HIDE DEF sent
    <3>. QED BY <3>1 DEF Worlds, SlotPut
  <2>. HIDE DEF sent, new, q, read
  <2>7. /\ read \in Worlds /\ read.slot[i] = new /\ read.files = w.files
        /\ \A j \in Slots : j # i => read.slot[j] = w.slot[j]
        /\ SameEnds(w, read)
    <3>1. sent \in Worlds
      BY <2>2 DEF OnlySends, SameEnds
    <3>2. /\ read \in Worlds /\ read.slot[i] = new
          /\ \A j \in Slots : j # i => read.slot[j] = sent.slot[j]
          /\ read.sock = sent.sock /\ read.files = sent.files
      BY <2>5, <2>6, <3>1, SlotSet
    <3>. QED BY <2>2, <3>2 DEF OnlySends, SameEnds
  <2>8. SlotOK(new) /\ Own(q) = 1 /\ Own(new) = 1
    BY <1>1, <1>2, <1>7, <2>1, <2>5 DEF SlotOK, Own, Holds, NULL
  <2>9. CASE v = Returns(read, "MORE")
    <3>1. /\ v \in Worlds /\ v.slot = read.slot /\ v.sock = read.sock
          /\ v.files = w.files /\ v.r = "MORE"
      BY <2>7, <2>9, ReturnsSet
    <3>2. v.files = w.files - Own(q) + (IF v.r = "MORE" THEN Own(v.slot[i]) ELSE 0)
      BY <1>1, <2>7, <2>8, <3>1
    <3>. QED BY <1>4, <1>7, <2>5, <2>7, <2>8, <3>1, <3>2 DEF Handled, SameEnds
  <2>10. CASE v = Returns(espFsClose(read, q.data), "DONE")
    <3>. DEFINE u == [read EXCEPT !.files = read.files - 1]
    <3>1. espFsClose(read, q.data) = u
      BY <1>7 DEF espFsClose
    <3>2. u \in Worlds /\ u.files = w.files - 1 /\ u.slot = read.slot /\ u.sock = read.sock
      <4>1. read.files - 1 \in Int
        BY <1>1, <2>7
      <4>. QED BY <2>7, <4>1, FilesSet
    <3>. HIDE DEF u
    <3>3. /\ v \in Worlds /\ v.slot = read.slot /\ v.sock = read.sock
          /\ v.files = w.files - 1 /\ v.r = "DONE"
      BY <2>10, <3>1, <3>2, ReturnsSet
    <3>4. v.files = w.files - Own(q) + (IF v.r = "MORE" THEN Own(v.slot[i]) ELSE 0)
      BY <1>1, <2>7, <2>8, <3>3
    <3>. QED BY <1>4, <1>7, <2>5, <2>7, <2>8, <3>3, <3>4 DEF Handled, SameEnds
  <2>. QED BY <2>3, <2>9, <2>10
<1>. QED
  BY <1>5, <1>6, <1>7

LEMMA WrittenCells ==
    ASSUME NEW f \in [Addresses -> Cells], NEW a \in Int, NEW data \in Seq(Units), NEW e \in BOOLEAN
    PROVE  Written(f, a, data, e) \in [Addresses -> Cells]
<1>1. \A k \in Addresses : k \in Int
  OBVIOUS
<1>. QED
  BY <1>1 DEF Written, Cells

LEMMA FirmwareHandled ==
    ASSUME NEW w \in Worlds, NEW i \in Slots, w.slot[i].cgi = "firmware", SlotOK(w.slot[i])
    PROVE  Handled(w, cgiUploadFirmware(w, i), i)
<1>. DEFINE q == w.slot[i]
            offset == q.received - Len(q.buff)
            w1 == IF offset = 0 THEN [w EXCEPT !.slot[i].priv = FALSE] ELSE w
            refused == [w1 EXCEPT !.slot[i].priv = TRUE]
            f == Written(w1.flash, offset, q.buff, offset % SEC_SIZE = 0)
            w2 == [w1 EXCEPT !.flash = f]
            v == cgiUploadFirmware(w, i)
<1>. SUFFICES Handled(w, v, i)
  OBVIOUS
<1>1. \/ v = Returns(w, "DONE")
      \/ v = Returns(httpdSend(refused, "400"), "DONE")
      \/ q.conn # NoSock /\ v = Returns(httpdSend(w2, "200"), "DONE")
      \/ q.conn # NoSock /\ v = Returns(w2, "MORE")
  BY DEF cgiUploadFirmware
<1>. HIDE DEF v
<1>2. q \in Slot /\ offset \in Int /\ q.buff \in Seq(Units)
  BY WorldParts, SlotParts
<1>3. Keeps(w, w1, i) /\ w1 \in Worlds
  <2>. DEFINE new == [q EXCEPT !.priv = FALSE]
  <2>1. new \in Slot /\ new.conn = q.conn /\ new.req = q.req /\ new.len = q.len /\ new.cgi = q.cgi
    BY <1>2 DEF Slot
  <2>2. [w EXCEPT !.slot[i].priv = FALSE] = SlotPut(w, i, new)
    BY DEF SlotPut, Worlds
  <2>. HIDE DEF new
  <2>3. Keeps(w, SlotPut(w, i, new), i)
    BY <2>1, KeepsSlot
  <2>. QED BY <2>2, <2>3, KeepsItself DEF Keeps, SameEnds
<1>. HIDE DEF w1
<1>4. Keeps(w, refused, i) /\ refused \in Worlds
  <2>. DEFINE new == [w1.slot[i] EXCEPT !.priv = TRUE]
  <2>1. w1.slot[i] \in Slot
    BY <1>3, WorldParts
  <2>2. /\ new \in Slot /\ new.conn = w1.slot[i].conn /\ new.req = w1.slot[i].req
        /\ new.len = w1.slot[i].len /\ new.cgi = w1.slot[i].cgi
    BY <2>1 DEF Slot
  <2>3. refused = SlotPut(w1, i, new)
    BY <1>3 DEF SlotPut, Worlds
  <2>. HIDE DEF new, refused
  <2>4. Keeps(w1, refused, i)
    BY <1>3, <2>2, <2>3, KeepsSlot
  <2>. QED BY <1>3, <2>4 DEF Keeps, SameEnds
<1>5. Keeps(w, w2, i) /\ w2 \in Worlds
  <2>1. (offset % SEC_SIZE = 0) \in BOOLEAN /\ w1.flash \in [Addresses -> Cells]
    BY <1>3, WorldParts
  <2>2. f \in [Addresses -> Cells]
    BY <1>2, <2>1, WrittenCells
  <2>. HIDE DEF f
  <2>3. w2 \in Worlds /\ w2.slot = w1.slot /\ w2.files = w1.files /\ w2.sock = w1.sock
    BY <1>3, <2>2 DEF Worlds
  <2>. HIDE DEF w2
  <2>. QED BY <1>3, <2>3 DEF Keeps, SameEnds
<1>. HIDE DEF refused, w2
<1>6. Keeps(w, httpdSend(refused, "400"), i) /\ Keeps(w, httpdSend(w2, "200"), i)
  BY <1>4, <1>5, SendOnly, KeepsSends DEF Codes
<1>7. Keeps(w, w, i) /\ w.slot[i].cgi # "file" /\ q = w.slot[i]
  BY KeepsItself
<1>. HIDE DEF q
<1>. QED
  BY <1>1, <1>5, <1>6, <1>7, Unheld

LEMMA JsonHandled ==
    ASSUME NEW w \in Worlds, NEW i \in Slots, w.slot[i].cgi = "json", SlotOK(w.slot[i])
    PROVE  Handled(w, WEB_CgiJsonHook(w, i), i)
<1>. DEFINE q == w.slot[i]
            w1 == [w EXCEPT !.slot[i].data = 1]
            tell == [w1 EXCEPT !.mcu.asked = @ \cup {w1.slot[i].conn}]
            v == WEB_CgiJsonHook(w, i)
<1>. SUFFICES Handled(w, v, i)
  OBVIOUS
<1>1. \/ v = Returns(w, "DONE")
      \/ q.conn # NoSock /\ v = WEB_handleJSONRequest(w1, i)
      \/ q.conn # NoSock /\ v = Returns(httpdSend(w, "200"), "DONE")
      \/ q.conn # NoSock /\ v = Returns(w, "MORE")
  BY DEF WEB_CgiJsonHook
<1>2. \/ WEB_handleJSONRequest(w1, i) = Returns(httpdSend(w1, "500"), "DONE")
      \/ WEB_handleJSONRequest(w1, i) = Returns(tell, "MORE")
      \/ WEB_handleJSONRequest(w1, i) = Returns(httpdSend(w1, "400"), "DONE")
      \/ WEB_handleJSONRequest(w1, i) = Returns(httpdSend(w1, "204"), "DONE")
  <2>. HIDE DEF w1
  <2>1. tell = [w1 EXCEPT !.mcu.asked = @ \cup {w1.slot[i].conn}]
    OBVIOUS
  <2>. HIDE DEF tell
  <2>. QED BY <2>1, Zenon DEF WEB_handleJSONRequest
<1>. HIDE DEF v
<1>3. q \in Slot
  BY WorldParts
<1>4. Keeps(w, w1, i) /\ w1 \in Worlds
  <2>. DEFINE new == [q EXCEPT !.data = 1]
  <2>1. new \in Slot /\ new.conn = q.conn /\ new.req = q.req /\ new.len = q.len /\ new.cgi = q.cgi
    BY <1>3 DEF Slot
  <2>2. w1 = SlotPut(w, i, new)
    BY DEF SlotPut, Worlds
  <2>. HIDE DEF new, w1
  <2>3. Keeps(w, w1, i)
    BY <2>1, <2>2, KeepsSlot
  <2>. QED BY <2>3 DEF Keeps, SameEnds
<1>. HIDE DEF w1
<1>5. Keeps(w, tell, i)
  <2>. DEFINE m == [w1.mcu EXCEPT !.asked = @ \cup {w1.slot[i].conn}]
  <2>1. w1.mcu \in Mcu /\ w1.slot[i].conn \in Socks \cup {NoSock}
    BY <1>4, WorldParts, SlotParts
  <2>2. m \in Mcu
    BY <2>1 DEF Mcu
  <2>3. tell = [w1 EXCEPT !.mcu = m]
    BY <1>4 DEF Worlds
  <2>. HIDE DEF m, tell
  <2>4. tell \in Worlds /\ tell.slot = w1.slot /\ tell.sock = w1.sock /\ tell.files = w1.files
    BY <1>4, <2>2, <2>3 DEF Worlds
  <2>. QED BY <1>4, <2>4 DEF Keeps, SameEnds
<1>. HIDE DEF tell
<1>6. \A code \in Codes : Keeps(w, httpdSend(w1, code), i) /\ Keeps(w, httpdSend(w, code), i)
  BY <1>4, SendOnly, KeepsSends, KeepsItself
<1>7. Keeps(w, w, i) /\ w.slot[i].cgi # "file" /\ q = w.slot[i]
  BY KeepsItself
<1>8. {"200", "204", "400", "500"} \subseteq Codes
  BY DEF Codes
<1>. HIDE DEF q
<1>. QED
  BY <1>1, <1>2, <1>5, <1>6, <1>7, <1>8, Unheld

LEMMA CgiHandled ==
    ASSUME NEW w \in Worlds, NEW i \in Slots, w.slot[i].cgi # "NULL", SlotOK(w.slot[i])
    PROVE  Handled(w, CallCgi(w, i), i)
<1>1. w.slot[i].cgi \in {"file", "firmware", "json"}
  BY WorldParts, SlotParts
<1>2. CASE w.slot[i].cgi = "file"
  BY <1>2, FilesHandled DEF CallCgi
<1>3. CASE w.slot[i].cgi = "firmware"
  BY <1>3, FirmwareHandled DEF CallCgi
<1>4. CASE w.slot[i].cgi = "json"
  BY <1>4, JsonHandled DEF CallCgi
<1>. QED
  BY <1>1, <1>2, <1>3, <1>4

-----------------------------------------------------------------------------
(* Requests *)

\* v is w after place i was served: what is open beside its own file is what it was.
ServedAt(w, v, i) ==
    /\ v \in Worlds
    /\ \A j \in Slots : j # i => v.slot[j] = w.slot[j]
    /\ SameEnds(w, v)
    /\ v.slot[i].conn = w.slot[i].conn
    /\ SlotOK(v.slot[i])
    /\ v.files - Own(v.slot[i]) = w.files - Own(w.slot[i])

LEMMA FinishedSet ==
    ASSUME NEW w \in Worlds, NEW i \in Slots
    PROVE  LET v == Finished(w, i)
           IN  /\ v \in Worlds /\ v.files = w.files /\ v.sock = w.sock
               /\ \A j \in Slots : j # i => v.slot[j] = w.slot[j]
               /\ v.slot[i].conn = w.slot[i].conn /\ v.slot[i].len = 0 /\ v.slot[i].cgi = "NULL"
<1>. DEFINE new == [w.slot[i] EXCEPT !.cgi = "NULL", !.len = 0]
            v == Finished(w, i)
<1>1. w.slot[i] \in Slot
  BY WorldParts
<1>2. \A q \in Slot, cgi \in {"NULL"}, n \in Int :
         LET p == [q EXCEPT !.cgi = cgi, !.len = n]
         IN  p \in Slot /\ p.conn = q.conn /\ p.cgi = cgi /\ p.len = n
  BY DEF Slot
<1>3. new \in Slot /\ new.conn = w.slot[i].conn /\ new.cgi = "NULL" /\ new.len = 0
  <2>1. "NULL" \in {"NULL"} /\ 0 \in Int
    OBVIOUS
  <2>2. LET p == [w.slot[i] EXCEPT !.cgi = "NULL", !.len = 0]
        IN  p \in Slot /\ p.conn = w.slot[i].conn /\ p.cgi = "NULL" /\ p.len = 0
    BY <1>1, <1>2, <2>1, Zenon
  <2>. QED BY <2>2
<1>4. v = SlotPut(w, i, new)
  BY DEF Finished, SlotPut, Worlds
<1>. HIDE DEF new, v
<1>5. /\ v \in Worlds /\ v.files = w.files /\ v.sock = w.sock
      /\ \A j \in Slots : j # i => v.slot[j] = w.slot[j]
      /\ v.slot[i].conn = w.slot[i].conn /\ v.slot[i].len = 0 /\ v.slot[i].cgi = "NULL"
  BY <1>3, <1>4, SlotSet
<1>. QED
  BY <1>5 DEF v

LEMMA UrlParts ==
    ASSUME NEW url
    PROVE  /\ builtInUrls(url).cgi \in {"NULL", "file", "firmware", "json"}
           /\ builtInUrls(url).cgi = "file" => FileLen[url] \in Nat
<1>1. FileLen["/user.html"] \in Nat /\ \A u \in DOMAIN FileLen : FileLen[u] \in Nat
  BY HttpdAssumption
<1>. QED
  BY <1>1 DEF builtInUrls

\* A place without handler that is answered and finished.
LEMMA FinishedUnheard ==
    ASSUME NEW w \in Worlds, NEW i \in Slots, w.slot[i].cgi = "NULL", NEW u, OnlySends(w, u)
    PROVE  ServedAt(w, Finished(u, i), i) /\ Finished(u, i).slot[i].len >= 0
<1>. DEFINE v == Finished(u, i)
<1>1. u \in Worlds /\ u.slot = w.slot /\ u.files = w.files
  BY DEF OnlySends, SameEnds
<1>2. /\ v \in Worlds /\ v.files = u.files /\ v.sock = u.sock
      /\ \A j \in Slots : j # i => v.slot[j] = u.slot[j]
      /\ v.slot[i].conn = u.slot[i].conn /\ v.slot[i].len = 0 /\ v.slot[i].cgi = "NULL"
  BY <1>1, FinishedSet
<1>. HIDE DEF v
<1>3. SlotOK(v.slot[i])
  BY <1>2 DEF SlotOK
<1>4. Own(v.slot[i]) = 0 /\ Own(w.slot[i]) = 0
  BY <1>2 DEF Own, Holds
<1>5. v.files - Own(v.slot[i]) = w.files - Own(w.slot[i])
  BY <1>1, <1>2, <1>4
<1>6. ServedAt(w, v, i)
  BY <1>1, <1>2, <1>3, <1>5 DEF ServedAt, OnlySends, SameEnds
<1>7. v.slot[i].len >= 0
  BY <1>2
<1>. QED
  BY <1>6, <1>7 DEF v

\* A handler that was called, what is sent then, and the end of the request
\* if it has no more to do.
LEMMA FinishedHandled ==
    ASSUME NEW w \in Worlds, NEW i \in Slots, w.slot[i].len >= 0,
           NEW called, Handled(w, called, i), NEW u, OnlySends(called, u)
    PROVE  /\ called.r = "MORE" => ServedAt(w, u, i) /\ u.slot[i].len >= 0
           /\ called.r # "MORE" => ServedAt(w, Finished(u, i), i) /\ Finished(u, i).slot[i].len >= 0
<1>1. /\ u \in Worlds /\ u.slot = called.slot /\ u.files = called.files
      /\ SameEnds(w, u)
  BY DEF OnlySends, Handled, SameEnds
<1>2. Own(w.slot[i]) \in Int /\ Own(called.slot[i]) \in Int /\ w.files \in Int
  BY WorldParts DEF Own
<1>3. ASSUME called.r = "MORE" PROVE ServedAt(w, u, i) /\ u.slot[i].len >= 0
  <2>1. u.files - Own(u.slot[i]) = w.files - Own(w.slot[i])
    BY <1>1, <1>2, <1>3 DEF Handled, SameEnds
  <2>2. ServedAt(w, u, i)
    BY <1>1, <2>1 DEF ServedAt, Handled, SameEnds
  <2>3. u.slot[i].len >= 0
    BY <1>1 DEF Handled, SameEnds
  <2>. QED BY <2>2, <2>3
<1>4. ASSUME called.r # "MORE"
      PROVE  ServedAt(w, Finished(u, i), i) /\ Finished(u, i).slot[i].len >= 0
  <2>. DEFINE v == Finished(u, i)
  <2>1. /\ v \in Worlds /\ v.files = u.files /\ v.sock = u.sock
        /\ \A j \in Slots : j # i => v.slot[j] = u.slot[j]
        /\ v.slot[i].conn = u.slot[i].conn /\ v.slot[i].len = 0 /\ v.slot[i].cgi = "NULL"
    BY <1>1, FinishedSet
  <2>. HIDE DEF v
  <2>2. SlotOK(v.slot[i])
    BY <2>1 DEF SlotOK
  <2>3. Own(v.slot[i]) = 0
    BY <2>1 DEF Own, Holds
  <2>4. v.files = w.files - Own(w.slot[i])
    BY <1>1, <1>2, <1>4, <2>1 DEF Handled, SameEnds
  <2>5. v.files - Own(v.slot[i]) = w.files - Own(w.slot[i])
    BY <1>2, <2>3, <2>4
  <2>6. ServedAt(w, v, i)
    BY <1>1, <2>1, <2>2, <2>5 DEF ServedAt, Handled, SameEnds
  <2>7. v.slot[i].len >= 0
    BY <2>1
  <2>. QED BY <2>6, <2>7 DEF v
<1>. QED
  BY <1>3, <1>4

\* A place that is about to be given a handler.
LEMMA HandlerSet ==
    ASSUME NEW w \in Worlds, NEW i \in Slots, w.slot[i].cgi = "NULL", w.slot[i].len >= 0
    PROVE  LET found == builtInUrls(w.slot[i].req.url)
               v == [w EXCEPT !.slot[i].data = NULL, !.slot[i].cgi = found.cgi]
           IN  ServedAt(w, v, i) /\ v.slot[i].cgi = found.cgi /\ v.slot[i].len >= 0
<1>. DEFINE q == w.slot[i]
            found == builtInUrls(q.req.url)
            new == [q EXCEPT !.data = NULL, !.cgi = found.cgi]
            v == [w EXCEPT !.slot[i].data = NULL, !.slot[i].cgi = found.cgi]
<1>. SUFFICES ServedAt(w, v, i) /\ v.slot[i].cgi = found.cgi /\ v.slot[i].len >= 0
  OBVIOUS
<1>1. q \in Slot /\ q.cgi = "NULL" /\ q.len \in Int /\ q.len >= 0
  BY WorldParts, SlotParts
<1>2. \A p \in Slot, n \in Int :
         LET r == [p EXCEPT !.data = n]
         IN  r \in Slot /\ r.conn = p.conn /\ r.req = p.req /\ r.len = p.len /\ r.data = n
  BY DEF Slot
<1>3. /\ found.cgi \in {"NULL", "file", "firmware", "json"} /\ NULL \in Int
      /\ found.cgi = "file" => FileLen[q.req.url] \in Nat
  BY UrlParts DEF NULL
<1>4. v = SlotPut(w, i, new)
  BY DEF SlotPut, Worlds
<1>. HIDE DEF v, found
<1>5. /\ new \in Slot /\ new.conn = q.conn /\ new.req = q.req /\ new.len = q.len
      /\ new.cgi = found.cgi /\ new.data = NULL
  <2>. DEFINE cleared == [q EXCEPT !.data = NULL]
  <2>1. /\ cleared \in Slot /\ cleared.conn = q.conn /\ cleared.req = q.req
        /\ cleared.len = q.len /\ cleared.data = NULL
    BY <1>1, <1>2, <1>3
  <2>2. new = [cleared EXCEPT !.cgi = found.cgi]
    BY <1>1 DEF Slot
  <2>. HIDE DEF new, cleared, q
  <2>. QED BY <1>3, <2>1, <2>2 DEF Slot
<1>. HIDE DEF new, q
<1>6. /\ v \in Worlds /\ v.files = w.files /\ v.sock = w.sock /\ v.slot[i] = new
      /\ \A j \in Slots : j # i => v.slot[j] = w.slot[j]
  BY <1>4, <1>5, SlotSet DEF q
<1>7. SlotOK(new)
  BY <1>1, <1>3, <1>5 DEF SlotOK
<1>8. Own(new) = 0 /\ Own(q) = 0
  BY <1>1, <1>5 DEF Own, Holds
<1>9. ServedAt(w, v, i)
  BY <1>5, <1>6, <1>7, <1>8 DEF ServedAt, q, SameEnds
<1>10. v.slot[i].cgi = found.cgi /\ v.slot[i].len >= 0
  BY <1>1, <1>5, <1>6
<1>. QED
  BY <1>9, <1>10

LEMMA Processed ==
    ASSUME NEW w \in Worlds, NEW i \in Slots, SlotOK(w.slot[i]), w.slot[i].len >= 0
    PROVE  LET v == httpdProcessRequest(w, i) IN ServedAt(w, v, i) /\ v.slot[i].len >= 0
<1>. DEFINE q == w.slot[i]
            found == builtInUrls(q.req.url)
            set == [w EXCEPT !.slot[i].data = NULL, !.slot[i].cgi = found.cgi]
            w1 == IF q.cgi # "NULL" THEN w ELSE set
            called == CallCgi(w1, i)
            shut == httpdFlush(httpdForbidden(w, i), i)
            missing == httpdFlush(httpdSend(w, "404"), i)
            flushed == httpdFlush(called, i)
            v == httpdProcessRequest(w, i)
<1>. SUFFICES ServedAt(w, v, i) /\ v.slot[i].len >= 0
  OBVIOUS
<1>1. \/ q.cgi = "NULL" /\ v = Finished(shut, i)
      \/ q.cgi = "NULL" /\ v = Finished(missing, i)
      \/ /\ q.cgi # "NULL" \/ found.cgi # "NULL"
         /\ v = IF called.r = "MORE" THEN flushed ELSE Finished(flushed, i)
  BY DEF httpdProcessRequest
<1>. HIDE DEF v
<1>2. /\ w1 \in Worlds /\ SlotOK(w1.slot[i]) /\ w1.slot[i].len >= 0 /\ ServedAt(w, w1, i)
      /\ q.cgi # "NULL" \/ found.cgi # "NULL" => w1.slot[i].cgi # "NULL"
  <2>1. CASE q.cgi # "NULL"
    BY <2>1 DEF ServedAt, SameEnds
  <2>2. CASE q.cgi = "NULL"
    <3>1. w1 = set
      BY <2>2
    <3>2. ServedAt(w, set, i) /\ set.slot[i].cgi = found.cgi /\ set.slot[i].len >= 0
      BY <2>2, HandlerSet
    <3>. HIDE DEF w1, set
    <3>. QED BY <2>2, <3>1, <3>2 DEF ServedAt, SameEnds
  <2>. QED BY <2>1, <2>2
<1>. HIDE DEF w1
<1>3. CASE q.cgi = "NULL" /\ v = Finished(shut, i)
  <2>1. OnlySends(w, httpdForbidden(w, i))
    BY SendOnly DEF httpdForbidden, OnlySends, Codes, SameEnds
  <2>2. OnlySends(w, shut)
    <3>1. OnlySends(httpdForbidden(w, i), shut)
      BY <2>1, FlushOnly DEF OnlySends, SameEnds
    <3>. HIDE DEF shut
    <3>. QED BY <2>1, <3>1, OnlySendsTwice
  <2>. HIDE DEF shut
  <2>. QED BY <1>3, <2>2, FinishedUnheard
<1>4. CASE q.cgi = "NULL" /\ v = Finished(missing, i)
  <2>1. OnlySends(w, httpdSend(w, "404"))
    BY SendOnly DEF Codes
  <2>2. OnlySends(w, missing)
    <3>1. OnlySends(httpdSend(w, "404"), missing)
      BY <2>1, FlushOnly DEF OnlySends, SameEnds
    <3>. HIDE DEF missing
    <3>. QED BY <2>1, <3>1, OnlySendsTwice
  <2>. HIDE DEF missing
  <2>. QED BY <1>4, <2>2, FinishedUnheard
<1>5. CASE /\ q.cgi # "NULL" \/ found.cgi # "NULL"
           /\ v = IF called.r = "MORE" THEN flushed ELSE Finished(flushed, i)
  <2>1. Handled(w1, called, i)
    BY <1>2, <1>5, CgiHandled
  <2>2. OnlySends(called, flushed)
    BY <2>1, FlushOnly DEF Handled, SameEnds
  <2>. HIDE DEF called, flushed
  <2>3. ServedAt(w1, v, i) /\ v.slot[i].len >= 0
    BY <1>2, <1>5, <2>1, <2>2, FinishedHandled
  <2>. QED BY <1>2, <2>3 DEF ServedAt, SameEnds
<1>. QED
  BY <1>1, <1>3, <1>4, <1>5

LEMMA ServedTwice ==
    ASSUME NEW w, NEW u, NEW v, NEW i \in Slots, ServedAt(w, u, i), ServedAt(u, v, i)
    PROVE  ServedAt(w, v, i)
BY DEF ServedAt, SameEnds

\* The place is changed, but not what it holds.
LEMMA ServedSlot ==
    ASSUME NEW w \in Worlds, NEW i \in Slots, NEW q \in Slot, q.conn = w.slot[i].conn,
           SlotOK(q), Own(q) = Own(w.slot[i])
    PROVE  ServedAt(w, SlotPut(w, i, q), i) /\ SlotPut(w, i, q).slot[i] = q
<1>. DEFINE v == SlotPut(w, i, q)
<1>1. /\ v \in Worlds /\ v.slot[i] = q /\ \A j \in Slots : j # i => v.slot[j] = w.slot[j]
      /\ v.sock = w.sock /\ v.files = w.files
  BY SlotSet
<1>. HIDE DEF v
<1>2. ServedAt(w, v, i)
  BY <1>1 DEF ServedAt, SameEnds
<1>. QED
  BY <1>1, <1>2 DEF v

LEMMA HeaderParsed ==
    ASSUME NEW w \in Worlds, NEW i \in Slots, w.slot[i].cgi = "NULL", NEW req \in Asked
    PROVE  LET v == httpdParseHeader(w, i, req)
           IN  ServedAt(w, v, i) /\ v.slot[i].len = req.clen
<1>. DEFINE q == w.slot[i]
            size == Min2(req.clen, MAX_POST)
            new == [q EXCEPT !.req = req, !.len = req.clen, !.buff = <<>>, !.buffSize = size]
            v == httpdParseHeader(w, i, req)
<1>. SUFFICES ServedAt(w, v, i) /\ v.slot[i].len = req.clen
  OBVIOUS
<1>1. q \in Slot /\ q.cgi = "NULL"
  BY WorldParts
<1>2. req.clen \in Nat
  BY AskedParts
<1>3. size \in Int /\ <<>> \in Seq(Units)
  BY <1>2, HttpdAssumption DEF Min2
<1>4. v = SlotPut(w, i, new)
  BY DEF httpdParseHeader, SlotPut, Worlds
<1>. HIDE DEF v, size
<1>5. new \in Slot /\ new.conn = q.conn /\ new.cgi = "NULL" /\ new.len = req.clen
  <2>. DEFINE a == [q EXCEPT !.req = req]
              b == [a EXCEPT !.len = req.clen]
              c == [b EXCEPT !.buff = <<>>]
              d == [c EXCEPT !.buffSize = size]
  <2>1. new = d
    BY <1>1 DEF Slot
  <2>. HIDE DEF q, new
  <2>2. a \in Slot /\ a.conn = q.conn /\ a.cgi = "NULL"
    BY <1>1 DEF Slot
  <2>. HIDE DEF a
  <2>3. b \in Slot /\ b.conn = q.conn /\ b.cgi = "NULL" /\ b.len = req.clen
    BY <1>2, <2>2 DEF Slot
  <2>. HIDE DEF b
  <2>4. c \in Slot /\ c.conn = q.conn /\ c.cgi = "NULL" /\ c.len = req.clen
    BY <1>3, <2>3 DEF Slot
  <2>. HIDE DEF c
  <2>5. d \in Slot /\ d.conn = q.conn /\ d.cgi = "NULL" /\ d.len = req.clen
    BY <1>3, <2>4 DEF Slot
  <2>. QED BY <2>1, <2>5
<1>. HIDE DEF new
<1>6. SlotOK(new) /\ Own(new) = Own(q)
  BY <1>1, <1>2, <1>5 DEF SlotOK, Own, Holds
<1>7. ServedAt(w, SlotPut(w, i, new), i) /\ SlotPut(w, i, new).slot[i] = new
  BY <1>5, <1>6, ServedSlot
<1>. QED
  BY <1>4, <1>5, <1>7

LEMMA BufferSet ==
    ASSUME NEW w \in Worlds, NEW i \in Slots, SlotOK(w.slot[i]), NEW b \in Seq(Units), NEW n \in Int
    PROVE  LET v == [w EXCEPT !.slot[i].buff = b, !.slot[i].received = n]
               u == [w EXCEPT !.slot[i].buff = b]
           IN  /\ ServedAt(w, v, i) /\ v.slot[i].len = w.slot[i].len
               /\ ServedAt(w, u, i) /\ u.slot[i].len = w.slot[i].len
<1>. DEFINE q == w.slot[i]
            one == [q EXCEPT !.buff = b]
            two == [one EXCEPT !.received = n]
            u == [w EXCEPT !.slot[i].buff = b]
            v == [w EXCEPT !.slot[i].buff = b, !.slot[i].received = n]
<1>. SUFFICES /\ ServedAt(w, v, i) /\ v.slot[i].len = q.len
              /\ ServedAt(w, u, i) /\ u.slot[i].len = q.len
  OBVIOUS
<1>1. q \in Slot /\ SlotOK(q)
  BY WorldParts
<1>2. u = SlotPut(w, i, one) /\ v = SlotPut(w, i, two)
  BY DEF SlotPut, Worlds
<1>. HIDE DEF u, v
<1>3. one \in Slot /\ one.conn = q.conn /\ one.len = q.len /\ SlotOK(one) /\ Own(one) = Own(q)
  BY <1>1 DEF Slot, SlotOK, Own, Holds
<1>4. two \in Slot /\ two.conn = q.conn /\ two.len = q.len /\ SlotOK(two) /\ Own(two) = Own(q)
  <2>. HIDE DEF one
  <2>. QED BY <1>3 DEF Slot, SlotOK, Own, Holds
<1>. HIDE DEF one, two
<1>5. /\ ServedAt(w, SlotPut(w, i, one), i) /\ SlotPut(w, i, one).slot[i] = one
      /\ ServedAt(w, SlotPut(w, i, two), i) /\ SlotPut(w, i, two).slot[i] = two
  BY <1>3, <1>4, ServedSlot
<1>. QED
  BY <1>2, <1>3, <1>4, <1>5

LEMMA Received ==
    ASSUME NEW w \in Worlds, NEW i \in Slots, SlotOK(w.slot[i]), NEW unit \in Units,
           w.slot[i].len < 0 => unit \in Asked
    PROVE  LET v == Receive(w, i, unit) IN ServedAt(w, v, i) /\ v.slot[i].len >= 0
<1>. DEFINE q == w.slot[i]
            head == httpdParseHeader(w, i, unit)
            post == [w EXCEPT !.slot[i].buff = Append(@, unit), !.slot[i].received = @ + 1]
            passed == httpdProcessRequest(post, i)
            emptied == [passed EXCEPT !.slot[i].buff = <<>>]
            full == Len(q.buff) + 1 >= q.buffSize \/ q.received + 1 = q.len
            v == Receive(w, i, unit)
<1>. SUFFICES ServedAt(w, v, i) /\ v.slot[i].len >= 0
  OBVIOUS
<1>1. q \in Slot /\ q.len \in Int /\ q.buff \in Seq(Units) /\ q.received \in Int /\ SlotOK(q)
  BY WorldParts, SlotParts
<1>2. /\ q.len < 0 => v = IF head.slot[i].len = 0 THEN httpdProcessRequest(head, i) ELSE head
      /\ q.len = 0 => v = w
      /\ q.len > 0 => v = IF full THEN emptied ELSE post
  <2>1. v = CASE q.len < 0 -> IF head.slot[i].len = 0 THEN httpdProcessRequest(head, i) ELSE head
              [] q.len > 0 -> IF full THEN emptied ELSE post
              [] q.len = 0 -> w
    BY DEF Receive
  <2>. HIDE DEF v, head, post, emptied, full, q
  <2>. QED BY <1>1, <2>1
<1>3. CASE q.len < 0
  <2>1. v = IF head.slot[i].len = 0 THEN httpdProcessRequest(head, i) ELSE head
    BY <1>2, <1>3
  <2>2. q.cgi = "NULL" /\ unit \in Asked /\ unit.clen \in Nat
    BY <1>1, <1>3, AskedParts DEF SlotOK
  <2>3. ServedAt(w, head, i) /\ head.slot[i].len = unit.clen
    BY <2>2, HeaderParsed
  <2>. HIDE DEF head, v
  <2>4. head \in Worlds /\ SlotOK(head.slot[i]) /\ head.slot[i].len >= 0
    BY <2>2, <2>3 DEF ServedAt, SameEnds
  <2>5. /\ ServedAt(head, httpdProcessRequest(head, i), i)
        /\ httpdProcessRequest(head, i).slot[i].len >= 0
    BY <2>4, Processed
  <2>. QED BY <2>1, <2>3, <2>4, <2>5, ServedTwice
<1>4. CASE q.len = 0
  <2>1. v = w
    BY <1>2, <1>4
  <2>. QED BY <1>1, <1>4, <2>1 DEF ServedAt, SameEnds
<1>5. CASE q.len > 0
  <2>1. v = emptied \/ v = post
    <3>. HIDE DEF v, emptied, post
    <3>. QED BY <1>2, <1>5
  <2>. HIDE DEF v
  <2>2. ServedAt(w, post, i) /\ post.slot[i].len = q.len
    <3>. DEFINE b == Append(q.buff, unit)
                n == q.received + 1
                p == [w EXCEPT !.slot[i].buff = b, !.slot[i].received = n]
    <3>1. b \in Seq(Units) /\ n \in Int
      BY <1>1
    <3>2. post = p
      OBVIOUS
    <3>. HIDE DEF b, n, post
    <3>3. ServedAt(w, p, i) /\ p.slot[i].len = q.len
      BY <1>1, <3>1, BufferSet
    <3>. QED BY <3>2, <3>3
  <2>. HIDE DEF post
  <2>3. post \in Worlds /\ SlotOK(post.slot[i]) /\ post.slot[i].len >= 0
    BY <1>1, <1>5, <2>2 DEF ServedAt, SameEnds
  <2>4. ServedAt(post, passed, i) /\ passed.slot[i].len >= 0
    BY <2>3, Processed
  <2>. HIDE DEF passed
  <2>5. ServedAt(passed, emptied, i) /\ emptied.slot[i].len = passed.slot[i].len
    <3>1. passed \in Worlds /\ SlotOK(passed.slot[i]) /\ <<>> \in Seq(Units) /\ 0 \in Int
      BY <2>4 DEF ServedAt, SameEnds
    <3>. QED BY <3>1, BufferSet
  <2>. HIDE DEF emptied
  <2>6. ServedAt(w, emptied, i) /\ emptied.slot[i].len >= 0
    BY <2>2, <2>4, <2>5, ServedTwice
  <2>. QED BY <2>1, <2>2, <2>3, <2>6
<1>. QED
  BY <1>1, <1>3, <1>4, <1>5

\* g are the worlds in which n units of request req have arrived at place i,
\* one after the other, after the first at of them.
Pieces(g, w, i, req, at, n) ==
    g = [k \in 0..n |-> IF k = 0 THEN w ELSE Receive(g[k - 1], i, Unit(req, at + k))]
LastPiece(w, i, req, at, n) == (CHOOSE g : Pieces(g, w, i, req, at, n))[n]

LEMMA PiecesGot ==
    ASSUME NEW w, NEW i, NEW req, NEW at, NEW n \in Nat
    PROVE  Pieces(CHOOSE g : Pieces(g, w, i, req, at, n), w, i, req, at, n)
<1>. DEFINE T == {k \in Nat : \E g : Pieces(g, w, i, req, at, k)}
<1>1. 0 \in T
  <2>1. Pieces([k \in 0..0 |-> w], w, i, req, at, 0)
    BY DEF Pieces
  <2>. QED BY <2>1
<1>2. \A k \in T : k + 1 \in T
  <2>. SUFFICES ASSUME NEW k \in T PROVE k + 1 \in T
    OBVIOUS
  <2>. PICK g : Pieces(g, w, i, req, at, k)
    OBVIOUS
  <2>. DEFINE h == [m \in 0..k + 1 |-> IF m = 0 THEN w ELSE Receive(g[m - 1], i, Unit(req, at + m))]
  <2>1. \A m \in 0..k : h[m] = g[m]
    BY DEF Pieces
  <2>2. \A m \in 0..k + 1 : m # 0 => m - 1 \in 0..k
    OBVIOUS
  <2>3. Pieces(h, w, i, req, at, k + 1)
    BY <2>1, <2>2 DEF Pieces
  <2>4. k + 1 \in Nat
    OBVIOUS
  <2>5. \E f : Pieces(f, w, i, req, at, k + 1)
    <3>. HIDE DEF h
    <3>. QED BY <2>3
  <2>. QED BY <2>4, <2>5
<1>3. T = Nat
  <2>1. T \subseteq Nat
    OBVIOUS
  <2>. HIDE DEF T
  <2>. QED BY <1>1, <1>2, <2>1, Induction
<1>4. \E g : Pieces(g, w, i, req, at, n)
  BY <1>3
<1>. QED
  BY <1>4

LEMMA PiecesReceived ==
    ASSUME NEW w \in Worlds, NEW i \in Slots, SlotOK(w.slot[i]), NEW req \in Asked,
           NEW at \in Nat, NEW n \in Nat, w.slot[i].len < 0 <=> at = 0
    PROVE  LET v == LastPiece(w, i, req, at, n)
           IN  ServedAt(w, v, i) /\ (v.slot[i].len < 0 <=> at + n = 0)
<1>. DEFINE got == CHOOSE g : Pieces(g, w, i, req, at, n)
            Good(k) == ServedAt(w, got[k], i) /\ (got[k].slot[i].len < 0 <=> at + k = 0)
            U == {k \in Nat : k <= n => Good(k)}
<1>1. Pieces(got, w, i, req, at, n)
  BY PiecesGot
<1>. HIDE DEF got
<1>2. 0 \in U
  <2>1. got[0] = w
    BY <1>1 DEF Pieces
  <2>2. ServedAt(w, w, i)
    BY DEF ServedAt, SameEnds
  <2>. QED BY <2>1, <2>2
<1>3. \A k \in U : k + 1 \in U
  <2>. SUFFICES ASSUME NEW k \in Nat, k + 1 <= n, Good(k) PROVE Good(k + 1)
    OBVIOUS
  <2>1. got[k + 1] = Receive(got[k], i, Unit(req, at + (k + 1)))
    BY <1>1 DEF Pieces
  <2>2. got[k] \in Worlds /\ SlotOK(got[k].slot[i])
    BY DEF ServedAt, SameEnds
  <2>3. /\ Unit(req, at + (k + 1)) \in Units
        /\ got[k].slot[i].len < 0 => Unit(req, at + (k + 1)) \in Asked
    <3>1. at + (k + 1) \in Nat /\ at + (k + 1) - 1 \in Nat
      OBVIOUS
    <3>2. Unit(req, at + (k + 1)) \in Units
      BY <3>1 DEF Unit, Units
    <3>3. got[k].slot[i].len < 0 => at + (k + 1) = 1
      OBVIOUS
    <3>. QED BY <3>2, <3>3 DEF Unit
  <2>4. ServedAt(got[k], got[k + 1], i) /\ got[k + 1].slot[i].len >= 0
    BY <2>1, <2>2, <2>3, Received
  <2>5. ServedAt(w, got[k + 1], i)
    BY <2>4, ServedTwice
  <2>6. got[k + 1].slot[i].len \in Int
    BY <2>5, WorldParts, SlotParts DEF ServedAt, SameEnds
  <2>. QED BY <2>4, <2>5, <2>6
<1>4. U = Nat
  <2>1. U \subseteq Nat
    OBVIOUS
  <2>. HIDE DEF U
  <2>. QED BY <1>2, <1>3, <2>1, Induction
<1>5. Good(n)
  <2>1. n \in U
    BY <1>4
  <2>. QED BY <2>1
<1>. QED
  BY <1>5 DEF got, LastPiece

-----------------------------------------------------------------------------
(* The pool *)

LEMMA HoldersCount ==
    ASSUME NEW sl \in [Slots -> Slot], NEW i \in Slots
    PROVE  /\ IsFiniteSet(Holders(sl)) /\ Cardinality(Holders(sl)) \in Nat
           /\ Cardinality(Holders(sl)) = Cardinality(Holders(sl) \ {i}) + Own(sl[i])
           /\ Cardinality(Holders(sl) \ {i}) \in Nat
<1>1. IsFiniteSet(Slots)
  <2>1. MAX_CONN \in Nat
    BY HttpdAssumption
  <2>. QED BY <2>1, FS_Interval DEF Slots
<1>2. IsFiniteSet(Holders(sl)) /\ IsFiniteSet(Holders(sl) \ {i})
  BY <1>1, FS_Subset DEF Holders
<1>3. Cardinality(Holders(sl)) \in Nat /\ Cardinality(Holders(sl) \ {i}) \in Nat
  BY <1>2, FS_CardinalityType
<1>4. Cardinality(Holders(sl) \ {i}) =
        IF i \in Holders(sl) THEN Cardinality(Holders(sl)) - 1 ELSE Cardinality(Holders(sl))
  BY <1>2, FS_RemoveElement
<1>5. i \in Holders(sl) <=> Holds(sl[i])
  BY DEF Holders
<1>. QED
  BY <1>2, <1>3, <1>4, <1>5 DEF Own

\* A place is changed, and what is open beside its own file is not.
LEMMA PoolChanged ==
    ASSUME NEW w \in Worlds, NEW v \in Worlds, NEW i \in Slots,
           w.files = Cardinality(Holders(w.slot)),
           \A j \in Slots : j # i => v.slot[j] = w.slot[j],
           v.files - Own(v.slot[i]) = w.files - Own(w.slot[i])
    PROVE  v.files = Cardinality(Holders(v.slot))
<1>1. w.slot \in [Slots -> Slot] /\ v.slot \in [Slots -> Slot] /\ v.files \in Int
  BY WorldParts
<1>2. Holders(w.slot) \ {i} = Holders(v.slot) \ {i}
  BY DEF Holders
<1>3. Own(w.slot[i]) \in Int /\ Own(v.slot[i]) \in Int
  BY DEF Own
<1>4. /\ Cardinality(Holders(w.slot)) = Cardinality(Holders(w.slot) \ {i}) + Own(w.slot[i])
      /\ Cardinality(Holders(v.slot)) = Cardinality(Holders(w.slot) \ {i}) + Own(v.slot[i])
      /\ Cardinality(Holders(w.slot) \ {i}) \in Nat
  BY <1>1, <1>2, HoldersCount
<1>. QED
  BY <1>1, <1>3, <1>4

LEMMA PoolServed ==
    ASSUME NEW w \in Worlds, NEW v, NEW i \in Slots, PoolOK(w.slot, w.sock, w.files),
           w.slot[i].conn # NoSock, ServedAt(w, v, i)
    PROVE  PoolOK(v.slot, v.sock, v.files)
<1>1. Linked(v.slot, v.sock)
  BY DEF Linked, ServedAt, PoolOK, SameEnds
<1>2. Attended(v.slot)
  BY DEF Attended, ServedAt, PoolOK, SameEnds
<1>3. \A j \in Slots : SlotOK(v.slot[j])
  BY DEF ServedAt, PoolOK, SameEnds
<1>4. v.files = Cardinality(Holders(v.slot))
  BY PoolChanged DEF ServedAt, PoolOK, SameEnds
<1>. QED
  BY <1>1, <1>2, <1>3, <1>4 DEF PoolOK

-----------------------------------------------------------------------------
(* The callbacks *)

LEMMA WorldHere == HttpdType => World \in Worlds
BY DEF HttpdType, World, Worlds

\* What a callback leaves behind.
LEMMA Became ==
    ASSUME NEW v \in Worlds, Become(v), unread' \in [Socks -> Nat], PoolOK(v.slot, v.sock, v.files),
           \A s \in Socks : v.sock[s].reverse # NoSlot =>
              /\ v.sock[s].st # "idle"
              /\ Heard(v.slot[v.sock[s].reverse], v.sock[s], unread'[s])
    PROVE  HttpdInv'
<1>1. slot' = v.slot /\ sock' = v.sock /\ flash' = v.flash /\ files' = v.files /\ mcu' = v.mcu
  BY DEF Become
<1>2. HttpdType'
  BY <1>1, WorldParts DEF HttpdType
<1>3. PoolOK(slot, sock, files)'
  BY <1>1 DEF PoolOK, Linked, Attended, Holders
<1>4. \A s \in Socks : sock'[s].reverse # NoSlot =>
         sock'[s].st # "idle" /\ Heard(slot'[sock'[s].reverse], sock'[s], unread'[s])
  BY <1>1
<1>. QED
  BY <1>2, <1>3, <1>4 DEF HttpdInv

\* The place a connection points to.
LEMMA Place ==
    ASSUME HttpdInv, NEW s \in Socks, sock[s].reverse # NoSlot
    PROVE  LET i == sock[s].reverse
           IN  /\ i \in Slots /\ slot[i].conn = s /\ s # NoSock /\ SlotOK(slot[i])
               /\ \A t \in Socks : t # s => sock[t].reverse # i
<1>1. sock[s].reverse \in Slots \cup {NoSlot}
  BY DEF HttpdInv, HttpdType, Sock
<1>2. NoSock \notin Socks
  BY HttpdAssumption
<1>. QED
  BY <1>1, <1>2 DEF HttpdInv, PoolOK, Linked

\* A callback that only sends and notes something.
LEMMA SendsBecame ==
    ASSUME HttpdInv, NEW v \in Worlds, Become(v), UNCHANGED unread,
           v.slot = slot, v.files = files,
           \A s \in Socks : /\ v.sock[s].reverse = sock[s].reverse /\ v.sock[s].req = sock[s].req
                            /\ sock[s].st # "idle" => v.sock[s].st # "idle"
    PROVE  HttpdInv'
<1>1. unread' \in [Socks -> Nat]
  BY DEF HttpdInv, HttpdType
<1>2. PoolOK(v.slot, v.sock, v.files)
  BY DEF HttpdInv, PoolOK, Linked, Attended
<1>3. \A s \in Socks : v.sock[s].reverse # NoSlot =>
         v.sock[s].st # "idle" /\ Heard(v.slot[v.sock[s].reverse], v.sock[s], unread'[s])
  BY DEF HttpdInv, Heard
<1>. QED
  BY <1>1, <1>2, <1>3, Became

\* A callback that serves place i.
LEMMA ServedBecame ==
    ASSUME HttpdInv, NEW s \in Socks, sock[s].reverse # NoSlot,
           NEW v, Become(v), ServedAt(World, v, sock[s].reverse),
           NEW n \in Nat, unread' = [unread EXCEPT ![s] = n],
           Heard(v.slot[sock[s].reverse], sock[s], n)
    PROVE  HttpdInv'
<1>. DEFINE i == sock[s].reverse
<1>1. /\ i \in Slots /\ slot[i].conn = s /\ s # NoSock /\ SlotOK(slot[i])
      /\ \A t \in Socks : t # s => sock[t].reverse # i
  BY Place
<1>2. World \in Worlds /\ World.slot = slot /\ World.sock = sock /\ World.files = files
  BY WorldHere DEF HttpdInv, World
<1>3. v \in Worlds /\ PoolOK(v.slot, v.sock, v.files)
  <2>1. PoolOK(World.slot, World.sock, World.files)
    BY <1>2 DEF HttpdInv
  <2>. QED BY <1>1, <1>2, <2>1, PoolServed DEF ServedAt
<1>4. unread' \in [Socks -> Nat]
  BY DEF HttpdInv, HttpdType
<1>5. ASSUME NEW t \in Socks, v.sock[t].reverse # NoSlot
      PROVE  v.sock[t].st # "idle" /\ Heard(v.slot[v.sock[t].reverse], v.sock[t], unread'[t])
  <2>1. /\ v.sock[t].reverse = sock[t].reverse
        /\ v.sock[t].req = sock[t].req /\ v.sock[t].st = sock[t].st
    BY <1>2 DEF ServedAt, SameEnds
  <2>2. sock[t].st # "idle" /\ Heard(slot[sock[t].reverse], sock[t], unread[t])
    BY <1>5, <2>1 DEF HttpdInv
  <2>3. CASE t = s
    <3>1. unread'[t] = n
      BY <2>3 DEF HttpdInv, HttpdType
    <3>. QED BY <2>1, <2>2, <2>3, <3>1 DEF Heard
  <2>4. CASE t # s
    <3>1. unread'[t] = unread[t]
      BY <2>4 DEF HttpdInv, HttpdType
    <3>2. sock[t].reverse \in Slots /\ sock[t].reverse # i
      BY <1>1, <1>5, <2>1, <2>4, Place
    <3>3. v.slot[sock[t].reverse] = slot[sock[t].reverse]
      BY <1>2, <3>2 DEF ServedAt
    <3>. QED BY <2>1, <2>2, <3>1, <3>3 DEF Heard
  <2>. QED BY <2>3, <2>4
<1>. QED
  BY <1>3, <1>4, <1>5, Became

\* Of the connection s: it is known which units of its request have arrived.
LEMMA Arriving ==
    ASSUME HttpdInv, NEW s \in Socks, sock[s].reverse # NoSlot
    PROVE  /\ sock[s].req \in Asked /\ sock[s].req.clen \in Nat /\ unread[s] \in Nat
           /\ 1 + sock[s].req.clen - unread[s] \in Nat
           /\ slot[sock[s].reverse].len < 0 <=> 1 + sock[s].req.clen - unread[s] = 0
<1>1. Heard(slot[sock[s].reverse], sock[s], unread[s])
  BY DEF HttpdInv
<1>2. sock[s].req \in Asked /\ unread[s] \in Nat
  BY DEF HttpdInv, HttpdType, Sock
<1>3. sock[s].req.clen \in Nat /\ unread[s] <= 1 + sock[s].req.clen
  BY <1>1, <1>2 DEF Heard
<1>4. slot[sock[s].reverse].len < 0 <=> unread[s] = 1 + sock[s].req.clen
  BY <1>1 DEF Heard
<1>. QED
  BY <1>2, <1>3, <1>4

LEMMA RecvKeeps ==
    ASSUME HttpdInv, NEW s \in Socks, httpdRecvCb(s)
    PROVE  HttpdInv'
<1>. DEFINE i == sock[s].reverse
            req == sock[s].req
            at == 1 + req.clen - unread[s]
<1>1. PICK n \in 1..unread[s] :
         /\ Become(LastPiece(World, i, req, at, n))
         /\ unread' = [unread EXCEPT ![s] = @ - n]
  BY DEF httpdRecvCb, LastPiece, Pieces
<1>2. i # NoSlot
  BY DEF httpdRecvCb
<1>3. i \in Slots /\ SlotOK(slot[i]) /\ World \in Worlds /\ World.slot = slot
  BY <1>2, Place, WorldHere DEF HttpdInv, World
<1>4. /\ req \in Asked /\ req.clen \in Nat /\ unread[s] \in Nat /\ at \in Nat
      /\ slot[i].len < 0 <=> at = 0
  BY <1>2, Arriving
<1>. DEFINE v == LastPiece(World, i, req, at, n)
            left == unread[s] - n
<1>5. ServedAt(World, v, i) /\ (v.slot[i].len < 0 <=> at + n = 0)
  <2>1. n \in Nat /\ SlotOK(World.slot[i]) /\ (World.slot[i].len < 0 <=> at = 0)
    BY <1>3, <1>4
  <2>. HIDE DEF at, req
  <2>2. at \in Nat /\ req \in Asked
    BY <1>4
  <2>. QED BY <1>3, <2>1, <2>2, PiecesReceived
<1>6. Become(v)
  BY <1>1
<1>. HIDE DEF v
<1>7. n \in Nat /\ n >= 1 /\ left \in Nat /\ at = 1 + req.clen - unread[s]
  BY <1>1, <1>4
<1>8. Heard(v.slot[i], sock[s], left)
  <2>1. ~(v.slot[i].len < 0)
    BY <1>4, <1>5, <1>7
  <2>2. left \in 0 .. 1 + req.clen /\ left # 1 + req.clen
    BY <1>4, <1>7
  <2>. QED BY <1>4, <2>1, <2>2 DEF Heard
<1>9. unread' = [unread EXCEPT ![s] = left]
  BY <1>1
<1>. QED
  BY <1>2, <1>5, <1>6, <1>7, <1>8, <1>9, ServedBecame

\* The connection of s is changed, but not where it points nor what it asks for.
LEMMA SockSet ==
    ASSUME NEW w \in Worlds, NEW s \in Socks, NEW so \in Sock,
           so.reverse = w.sock[s].reverse, so.req = w.sock[s].req,
           w.sock[s].st # "idle" => so.st # "idle"
    PROVE  LET v == [w EXCEPT !.sock = [w.sock EXCEPT ![s] = so]]
           IN  /\ v \in Worlds /\ v.slot = w.slot /\ v.files = w.files /\ v.r = w.r
               /\ v.sock[s] = so
               /\ \A t \in Socks :
                     /\ t # s => v.sock[t] = w.sock[t]
                     /\ v.sock[t].reverse = w.sock[t].reverse /\ v.sock[t].req = w.sock[t].req
                     /\ w.sock[t].st # "idle" => v.sock[t].st # "idle"
BY DEF Worlds

LEMMA SentCounted ==
    ASSUME NEW w \in Worlds, NEW s \in Socks
    PROVE  OnlySends(w, [w EXCEPT !.sock[s].sent = @ - 1])
<1>. DEFINE so == [w.sock[s] EXCEPT !.sent = @ - 1]
            v == [w EXCEPT !.sock[s].sent = @ - 1]
<1>. SUFFICES OnlySends(w, v)
  OBVIOUS
<1>1. w.sock[s] \in Sock
  BY WorldParts
<1>2. /\ so \in Sock /\ so.reverse = w.sock[s].reverse
      /\ so.req = w.sock[s].req /\ so.st = w.sock[s].st
  BY <1>1 DEF Sock
<1>3. v = [w EXCEPT !.sock = [w.sock EXCEPT ![s] = so]]
  BY DEF Worlds
<1>. HIDE DEF so, v
<1>4. /\ v \in Worlds /\ v.slot = w.slot /\ v.files = w.files /\ v.r = w.r
      /\ v.sock[s] = so /\ \A t \in Socks : t # s => v.sock[t] = w.sock[t]
  BY <1>2, <1>3, SockSet
<1>5. SameEnds(w, v)
  BY <1>2, <1>4 DEF SameEnds
<1>. QED
  BY <1>4, <1>5 DEF OnlySends

\* The handler of place i is called, and given up if it is done.
LEMMA CgiServed ==
    ASSUME NEW w \in Worlds, NEW i \in Slots, SlotOK(w.slot[i]), w.slot[i].cgi # "NULL"
    PROVE  LET called == CallCgi(w, i)
               v == httpdFlush(IF called.r = "MORE" THEN called
                               ELSE [called EXCEPT !.slot[i].cgi = "NULL"], i)
           IN  ServedAt(w, v, i) /\ v.slot[i].len = w.slot[i].len
<1>. DEFINE called == CallCgi(w, i)
            done == [called EXCEPT !.slot[i].cgi = "NULL"]
            left == IF called.r = "MORE" THEN called ELSE done
            v == httpdFlush(left, i)
<1>. SUFFICES ServedAt(w, v, i) /\ v.slot[i].len = w.slot[i].len
  OBVIOUS
<1>1. Handled(w, called, i)
  BY CgiHandled
<1>. HIDE DEF called
<1>2. called \in Worlds /\ called.slot[i] \in Slot
  BY <1>1, WorldParts DEF Handled, SameEnds
<1>. DEFINE new == [called.slot[i] EXCEPT !.cgi = "NULL"]
<1>3. /\ new \in Slot /\ new.cgi = "NULL"
      /\ new.conn = called.slot[i].conn /\ new.len = called.slot[i].len
  BY <1>2 DEF Slot
<1>4. done = SlotPut(called, i, new)
  BY <1>2 DEF SlotPut, Worlds
<1>. HIDE DEF new, done
<1>5. /\ done \in Worlds /\ done.slot[i] = new
      /\ \A j \in Slots : j # i => done.slot[j] = called.slot[j]
      /\ done.sock = called.sock /\ done.files = called.files
  BY <1>2, <1>3, <1>4, SlotSet
<1>6. Own(w.slot[i]) \in Int /\ Own(called.slot[i]) \in Int /\ w.files \in Int
  BY WorldParts DEF Own
<1>7. called.r # "MORE" => ServedAt(w, done, i) /\ done.slot[i].len = w.slot[i].len
  <2>1. SlotOK(new) /\ Own(new) = 0
    BY <1>3 DEF SlotOK, Own, Holds
  <2>. QED BY <1>1, <1>3, <1>5, <1>6, <2>1 DEF Handled, ServedAt, SameEnds
<1>8. called.r = "MORE" => ServedAt(w, called, i) /\ called.slot[i].len = w.slot[i].len
  BY <1>1, <1>6 DEF Handled, ServedAt, SameEnds
<1>9. ServedAt(w, left, i) /\ left.slot[i].len = w.slot[i].len
  BY <1>7, <1>8
<1>. HIDE DEF left
<1>10. OnlySends(left, v)
  BY <1>9, FlushOnly DEF ServedAt, SameEnds
<1>. HIDE DEF v
<1>. QED
  BY <1>9, <1>10 DEF ServedAt, OnlySends, SameEnds

LEMMA SentKeeps ==
    ASSUME HttpdInv, NEW s \in Socks, httpdSentCb(s)
    PROVE  HttpdInv'
<1>. DEFINE i == sock[s].reverse
            w == [World EXCEPT !.sock[s].sent = @ - 1]
            closed == [w EXCEPT !.sock[s].st = "closing"]
            called == CallCgi(w, i)
            v == httpdFlush(IF called.r = "MORE" THEN called
                            ELSE [called EXCEPT !.slot[i].cgi = "NULL"], i)
<1>1. World \in Worlds /\ World.slot = slot /\ World.sock = sock /\ World.files = files
  BY WorldHere DEF HttpdInv, World
<1>2. OnlySends(World, w)
  BY <1>1, SentCounted
<1>3. UNCHANGED unread
  BY DEF httpdSentCb
<1>4. \/ i = NoSlot /\ Become(w)
      \/ i # NoSlot /\ slot[i].cgi = "NULL" /\ Become(closed)
      \/ i # NoSlot /\ slot[i].cgi # "NULL" /\ Become(v)
  BY DEF httpdSentCb
<1>. HIDE DEF w
<1>5. /\ w \in Worlds /\ w.slot = slot /\ w.files = files
      /\ \A t \in Socks : /\ w.sock[t].reverse = sock[t].reverse /\ w.sock[t].req = sock[t].req
                          /\ w.sock[t].st = sock[t].st
  BY <1>1, <1>2 DEF OnlySends, SameEnds
<1>6. CASE i = NoSlot /\ Become(w)
  BY <1>3, <1>5, <1>6, SendsBecame
<1>7. CASE i # NoSlot /\ slot[i].cgi = "NULL" /\ Become(closed)
  <2>. DEFINE so == [w.sock[s] EXCEPT !.st = "closing"]
  <2>1. w.sock[s] \in Sock
    BY <1>5, WorldParts
  <2>2. so \in Sock /\ so.reverse = w.sock[s].reverse /\ so.req = w.sock[s].req /\ so.st # "idle"
    BY <2>1 DEF Sock
  <2>3. closed = [w EXCEPT !.sock = [w.sock EXCEPT ![s] = so]]
    BY <1>5 DEF Worlds
  <2>. HIDE DEF so, closed
  <2>4. /\ closed \in Worlds /\ closed.slot = w.slot /\ closed.files = w.files
        /\ \A t \in Socks :
              /\ closed.sock[t].reverse = w.sock[t].reverse /\ closed.sock[t].req = w.sock[t].req
              /\ w.sock[t].st # "idle" => closed.sock[t].st # "idle"
    BY <1>5, <2>2, <2>3, SockSet
  <2>. QED BY <1>3, <1>5, <1>7, <2>4, SendsBecame
<1>8. CASE i # NoSlot /\ slot[i].cgi # "NULL" /\ Become(v)
  <2>1. i \in Slots /\ SlotOK(w.slot[i]) /\ w.slot[i].cgi # "NULL"
    BY <1>5, <1>8, Place
  <2>2. ServedAt(w, v, i) /\ v.slot[i].len = w.slot[i].len
    BY <1>5, <2>1, CgiServed
  <2>. HIDE DEF v
  <2>3. ServedAt(World, v, i)
    BY <1>1, <1>5, <2>2 DEF ServedAt, SameEnds
  <2>4. Heard(v.slot[i], sock[s], unread[s])
    BY <1>5, <1>8, <2>2 DEF HttpdInv, Heard
  <2>5. unread[s] \in Nat /\ unread' = [unread EXCEPT ![s] = unread[s]]
    BY <1>3 DEF HttpdInv, HttpdType
  <2>. QED BY <1>8, <2>3, <2>4, <2>5, ServedBecame
<1>. QED
  BY <1>4, <1>6, <1>7, <1>8

LEMMA FreeParts ==
    /\ FreeSlot \in Slot /\ FreeSlot.conn = NoSock /\ FreeSlot.cgi = "NULL"
    /\ SlotOK(FreeSlot) /\ Own(FreeSlot) = 0
    /\ IdleSock \in Sock /\ IdleSock.reverse = NoSlot /\ IdleSock.st = "idle"
<1>1. NoRequest \in Asked
  BY DEF Asked
<1>2. <<>> \in Seq(Units) /\ <<>> \in Seq(Answer) /\ NULL \in Int
  BY DEF NULL
<1>3. FreeSlot \in Slot /\ FreeSlot.conn = NoSock /\ FreeSlot.cgi = "NULL"
  <2>. HIDE DEF NULL, NoRequest
  <2>. QED BY <1>1, <1>2 DEF FreeSlot, Slot
<1>4. IdleSock \in Sock /\ IdleSock.reverse = NoSlot /\ IdleSock.st = "idle"
  BY <1>1, <1>2 DEF IdleSock, Sock
<1>5. SlotOK(FreeSlot) /\ Own(FreeSlot) = 0
  BY <1>3 DEF SlotOK, Own, Holds
<1>. QED
  BY <1>3, <1>4, <1>5

\* A place is given back: the handler closes what it has open.
LEMMA Retired ==
    ASSUME NEW w \in Worlds, NEW i \in Slots, SlotOK(w.slot[i])
    PROVE  LET v == httpdRetireConn(w, i)
           IN  /\ v \in Worlds /\ v.slot[i] = FreeSlot
               /\ \A j \in Slots : j # i => v.slot[j] = w.slot[j]
               /\ SameEnds(w, v)
               /\ v.files = w.files - Own(w.slot[i])
<1>. DEFINE alone == [w.slot[i] EXCEPT !.conn = NoSock]
            w1 == [w EXCEPT !.slot[i].conn = NoSock]
            called == CallCgi(w1, i)
            w2 == IF w1.slot[i].cgi = "NULL" THEN w1 ELSE called
            v == httpdRetireConn(w, i)
<1>. SUFFICES /\ v \in Worlds /\ v.slot[i] = FreeSlot
              /\ \A j \in Slots : j # i => v.slot[j] = w.slot[j]
              /\ SameEnds(w, v)
              /\ v.files = w.files - Own(w.slot[i])
  OBVIOUS
<1>1. v = [w2 EXCEPT !.slot[i] = FreeSlot]
  BY DEF httpdRetireConn
<1>2. w.slot[i] \in Slot /\ w.files \in Int
  BY WorldParts
<1>3. /\ alone \in Slot /\ alone.conn = NoSock /\ alone.cgi = w.slot[i].cgi
      /\ SlotOK(alone) /\ Own(alone) = Own(w.slot[i])
  BY <1>2 DEF Slot, SlotOK, Own, Holds
<1>4. w1 = SlotPut(w, i, alone)
  BY <1>2 DEF SlotPut, Worlds
<1>. HIDE DEF alone, w1
<1>5. /\ w1 \in Worlds /\ w1.slot[i] = alone /\ \A j \in Slots : j # i => w1.slot[j] = w.slot[j]
      /\ w1.sock = w.sock /\ w1.files = w.files
  BY <1>3, <1>4, SlotSet
<1>6. /\ w2 \in Worlds /\ \A j \in Slots : j # i => w2.slot[j] = w.slot[j]
      /\ SameEnds(w, w2) /\ w2.files = w.files - Own(w.slot[i])
  <2>1. CASE alone.cgi = "NULL"
    <3>1. Own(alone) = 0
      BY <2>1 DEF Own, Holds
    <3>. QED BY <1>2, <1>3, <1>5, <2>1, <3>1 DEF SameEnds
  <2>2. CASE alone.cgi # "NULL"
    <3>1. Handled(w1, called, i)
      BY <1>3, <1>5, <2>2, CgiHandled
    <3>. HIDE DEF called
    <3>2. called.r = "DONE"
      BY <1>3, <1>5, <3>1 DEF Handled
    <3>3. called.files = w.files - Own(w.slot[i])
      <4>1. Own(alone) \in Int
        BY DEF Own
      <4>. QED BY <1>2, <1>3, <1>5, <3>1, <3>2, <4>1 DEF Handled
    <3>. QED BY <1>5, <2>2, <3>1, <3>3 DEF Handled, SameEnds
  <2>. QED BY <2>1, <2>2
<1>. HIDE DEF w2
<1>7. v = SlotPut(w2, i, FreeSlot)
  BY <1>1, <1>6 DEF SlotPut, Worlds
<1>. HIDE DEF v
<1>8. /\ v \in Worlds /\ v.slot[i] = FreeSlot /\ \A j \in Slots : j # i => v.slot[j] = w2.slot[j]
      /\ v.sock = w2.sock /\ v.files = w2.files
  BY <1>6, <1>7, SlotSet, FreeParts
<1>. QED
  BY <1>6, <1>8 DEF SameEnds

LEMMA DisconKeeps ==
    ASSUME HttpdInv, NEW s \in Socks, httpdDisconCb(s)
    PROVE  HttpdInv'
<1>. DEFINE i == sock[s].reverse
            w == [World EXCEPT !.sock[s] = IdleSock]
            retired == httpdRetireConn(w, i)
            v == IF i = NoSlot THEN w ELSE retired
<1>1. Become(v) /\ unread' = [unread EXCEPT ![s] = 0]
  BY DEF httpdDisconCb
<1>2. World \in Worlds /\ World.slot = slot /\ World.sock = sock /\ World.files = files
  BY WorldHere DEF HttpdInv, World
<1>3. /\ w \in Worlds /\ w.slot = slot /\ w.files = files
      /\ w.sock[s] = IdleSock /\ \A t \in Socks : t # s => w.sock[t] = sock[t]
  BY <1>2, FreeParts DEF Worlds
<1>. HIDE DEF w
<1>4. PoolOK(slot, sock, files)
  BY DEF HttpdInv
<1>5. unread' \in [Socks -> Nat] /\ \A t \in Socks : t # s => unread'[t] = unread[t]
  BY <1>1 DEF HttpdInv, HttpdType
<1>6. s # NoSock /\ NoSlot \notin Slots
  BY HttpdAssumption DEF NoSlot, Slots
<1>7. /\ v \in Worlds /\ PoolOK(v.slot, v.sock, v.files)
      /\ v.sock[s].reverse = NoSlot
      /\ \A t \in Socks : t # s =>
            /\ v.sock[t].reverse = sock[t].reverse
            /\ v.sock[t].req = sock[t].req /\ v.sock[t].st = sock[t].st
      /\ \A j \in Slots : j # i => v.slot[j] = slot[j]
  <2>1. CASE i = NoSlot
    <3>1. v = w
      BY <2>1
    <3>2. Linked(w.slot, w.sock)
      BY <1>3, <1>4, <1>6, <2>1, FreeParts DEF PoolOK, Linked
    <3>3. Attended(w.slot) /\ Holders(w.slot) = Holders(slot)
      BY <1>3, <1>4 DEF PoolOK, Attended
    <3>. HIDE DEF v
    <3>. QED BY <1>3, <1>4, <3>1, <3>2, <3>3, FreeParts DEF PoolOK
  <2>2. CASE i # NoSlot
    <3>1. /\ i \in Slots /\ slot[i].conn = s /\ SlotOK(slot[i])
          /\ \A t \in Socks : t # s => sock[t].reverse # i
      BY <2>2, Place
    <3>2. /\ retired \in Worlds /\ retired.slot[i] = FreeSlot
          /\ \A j \in Slots : j # i => retired.slot[j] = slot[j]
          /\ SameEnds(w, retired)
          /\ retired.files = files - Own(slot[i])
      BY <1>3, <3>1, Retired
    <3>3. v = retired
      BY <2>2
    <3>. HIDE DEF retired, v
    <3>4. Linked(retired.slot, retired.sock)
      <4>1. ASSUME NEW j \in Slots, NEW t \in Socks
            PROVE  retired.slot[j].conn = t <=> retired.sock[t].reverse = j
        <5>1. slot[j].conn = t <=> sock[t].reverse = j
          BY <1>4 DEF PoolOK, Linked
        <5>2. retired.sock[t].reverse = IF t = s THEN NoSlot ELSE sock[t].reverse
          BY <1>3, <3>2, FreeParts DEF SameEnds
        <5>3. t # NoSock
          BY HttpdAssumption
        <5>4. CASE j = i
          BY <1>6, <3>1, <3>2, <5>2, <5>3, <5>4, FreeParts
        <5>5. CASE j # i
          BY <1>6, <3>1, <3>2, <5>1, <5>2, <5>5
        <5>. QED BY <5>4, <5>5
      <4>. QED BY <4>1 DEF Linked
    <3>5. Attended(retired.slot) /\ \A j \in Slots : SlotOK(retired.slot[j])
      BY <1>4, <3>2, FreeParts DEF PoolOK, Attended
    <3>6. retired.files = Cardinality(Holders(retired.slot))
      <4>1. Own(slot[i]) \in Int /\ files \in Int /\ Own(retired.slot[i]) = 0
        BY <1>2, <3>2, WorldParts, FreeParts DEF Own
      <4>2. retired.files - Own(retired.slot[i]) = w.files - Own(w.slot[i])
        BY <1>3, <3>2, <4>1
      <4>3. w.files = Cardinality(Holders(w.slot))
        BY <1>3, <1>4 DEF PoolOK
      <4>. QED BY <1>3, <3>1, <3>2, <4>2, <4>3, PoolChanged
    <3>. QED BY <1>3, <3>2, <3>3, <3>4, <3>5, <3>6, FreeParts DEF PoolOK, SameEnds
  <2>. QED BY <2>1, <2>2
<1>. HIDE DEF v
<1>8. ASSUME NEW t \in Socks, v.sock[t].reverse # NoSlot
      PROVE  v.sock[t].st # "idle" /\ Heard(v.slot[v.sock[t].reverse], v.sock[t], unread'[t])
  <2>1. t # s
    BY <1>7, <1>8
  <2>2. sock[t].reverse # NoSlot /\ sock[t].reverse \in Slots
    BY <1>7, <1>8, <2>1, Place
  <2>3. sock[t].reverse # i
    BY <2>1, <2>2, Place
  <2>. QED BY <1>5, <1>7, <1>8, <2>1, <2>2, <2>3 DEF HttpdInv, Heard
<1>. QED
  BY <1>1, <1>5, <1>7, <1>8, Became

LEMMA MinSlot ==
    ASSUME NEW T, T \subseteq Slots, T # {}
    PROVE  Min(T) \in T
<1>1. T \subseteq Nat
  BY HttpdAssumption DEF Slots
<1>2. \E x \in T : \A y \in T : x <= y
  BY <1>1, Smallest
<1>. QED
  BY <1>2 DEF Min

\* Whoever connects is not known to the pool yet.
LEMMA Unknown ==
    ASSUME HttpdInv, NEW s \in Socks, sock[s].st = "idle"
    PROVE  sock[s].reverse = NoSlot /\ \A j \in Slots : slot[j].conn # s
<1>1. sock[s].reverse = NoSlot
  BY DEF HttpdInv
<1>2. NoSlot \notin Slots
  BY DEF NoSlot, Slots
<1>. QED
  BY <1>1, <1>2 DEF HttpdInv, PoolOK, Linked

LEMMA ConnectKeeps ==
    ASSUME HttpdInv, NEW s \in Socks, httpdConnectCb(s)
    PROVE  HttpdInv'
<1>. DEFINE free == {j \in Slots : slot[j].conn = NoSock}
            i == Min(free)
<1>1. PICK req \in Requests[s] :
         /\ sock[s].st = "idle"
         /\ IF free = {}
            THEN sock' = [sock EXCEPT ![s] = [IdleSock EXCEPT !.st = "closing", !.req = req]]
                 /\ UNCHANGED slot
            ELSE /\ sock' = [sock EXCEPT ![s] =
                                [IdleSock EXCEPT !.st = "up", !.req = req, !.reverse = i]]
                 /\ slot' = [slot EXCEPT ![i] =
                                [@ EXCEPT !.conn = s, !.buff = <<>>, !.received = 0, !.len = NULL]]
         /\ unread' = [unread EXCEPT ![s] = IF free = {} THEN 0 ELSE 1 + req.clen]
         /\ UNCHANGED <<flash, files, mcu>>
  BY DEF httpdConnectCb
<1>2. World \in Worlds /\ World.slot = slot /\ World.sock = sock /\ World.files = files
      /\ World.flash = flash /\ World.mcu = mcu
  BY WorldHere DEF HttpdInv, World
<1>3. sock[s].reverse = NoSlot /\ \A j \in Slots : slot[j].conn # s
  BY <1>1, Unknown
<1>4. req \in Asked /\ req.clen \in Nat
  <2>1. req \in Asked
    BY DEF Asked
  <2>. QED BY <2>1, AskedParts
<1>5. PoolOK(slot, sock, files) /\ slot \in [Slots -> Slot] /\ sock \in [Socks -> Sock]
      /\ unread \in [Socks -> Nat]
  BY DEF HttpdInv, HttpdType
<1>6. NoSlot \notin Slots /\ NoSock \notin Socks
  BY HttpdAssumption DEF NoSlot, Slots
<1>7. CASE free = {}
  <2>. DEFINE so == [IdleSock EXCEPT !.st = "closing", !.req = req]
              v == [World EXCEPT !.sock = [sock EXCEPT ![s] = so]]
  <2>1. so \in Sock /\ so.reverse = NoSlot
    <3>. DEFINE a == [IdleSock EXCEPT !.st = "closing"]
    <3>1. a \in Sock /\ a.reverse = NoSlot
      BY FreeParts DEF Sock
    <3>2. so = [a EXCEPT !.req = req]
      BY FreeParts DEF Sock
    <3>. HIDE DEF a, so
    <3>. QED BY <1>4, <3>1, <3>2 DEF Sock
  <2>2. sock' = [sock EXCEPT ![s] = so] /\ slot' = slot /\ unread' = [unread EXCEPT ![s] = 0]
        /\ UNCHANGED <<flash, files, mcu>>
    BY <1>1, <1>7
  <2>. HIDE DEF so
  <2>3. /\ v \in Worlds /\ v.slot = slot /\ v.files = files /\ v.flash = flash /\ v.mcu = mcu
        /\ v.sock = [sock EXCEPT ![s] = so]
    BY <1>2, <2>1 DEF Worlds
  <2>4. v.sock[s] = so /\ \A t \in Socks : t # s => v.sock[t] = sock[t]
    BY <1>5, <2>3
  <2>. HIDE DEF v
  <2>5. Become(v)
    BY <2>2, <2>3 DEF Become
  <2>6. PoolOK(v.slot, v.sock, v.files)
    BY <1>3, <1>5, <1>6, <2>1, <2>3, <2>4 DEF PoolOK, Linked
  <2>7. unread' \in [Socks -> Nat]
    BY <1>5, <2>2
  <2>8. \A t \in Socks : v.sock[t].reverse # NoSlot =>
           v.sock[t].st # "idle" /\ Heard(v.slot[v.sock[t].reverse], v.sock[t], unread'[t])
    BY <1>5, <2>1, <2>2, <2>3, <2>4 DEF HttpdInv
  <2>. QED BY <2>3, <2>5, <2>6, <2>7, <2>8, Became
<1>8. CASE free # {}
  <2>. DEFINE so == [IdleSock EXCEPT !.st = "up", !.req = req, !.reverse = i]
              q == [slot[i] EXCEPT !.conn = s, !.buff = <<>>, !.received = 0, !.len = NULL]
              w == SlotPut(World, i, q)
              v == [w EXCEPT !.sock = [sock EXCEPT ![s] = so]]
              left == 1 + req.clen
  <2>1. i \in Slots /\ slot[i].conn = NoSock
    <3>1. i \in free
      BY <1>8, MinSlot
    <3>. QED BY <3>1
  <2>2. sock' = [sock EXCEPT ![s] = so] /\ slot' = [slot EXCEPT ![i] = q]
        /\ unread' = [unread EXCEPT ![s] = left] /\ UNCHANGED <<flash, files, mcu>>
    BY <1>1, <1>8
  <2>. HIDE DEF i
  <2>3. so \in Sock /\ so.reverse = i /\ so.req = req /\ so.st = "up"
    <3>. DEFINE a == [IdleSock EXCEPT !.st = "up"]
                b == [a EXCEPT !.req = req]
    <3>1. a \in Sock /\ a.st = "up"
      BY FreeParts DEF Sock
    <3>2. so = [b EXCEPT !.reverse = i]
      BY FreeParts DEF Sock
    <3>. HIDE DEF a, so
    <3>3. b \in Sock /\ b.st = "up" /\ b.req = req
      BY <1>4, <3>1 DEF Sock
    <3>. HIDE DEF b
    <3>. QED BY <2>1, <3>2, <3>3 DEF Sock
  <2>4. slot[i] \in Slot /\ slot[i].cgi = "NULL"
    BY <1>5, <2>1 DEF PoolOK, Attended
  <2>5. q \in Slot /\ q.conn = s /\ q.len = NULL /\ q.cgi = "NULL"
    <3>. DEFINE a == [slot[i] EXCEPT !.conn = s]
                b == [a EXCEPT !.buff = <<>>]
                c == [b EXCEPT !.received = 0]
    <3>1. a \in Slot /\ a.conn = s /\ a.cgi = "NULL"
      BY <2>4 DEF Slot
    <3>2. q = [c EXCEPT !.len = NULL] /\ <<>> \in Seq(Units) /\ NULL \in Int
      BY <2>4 DEF Slot, NULL
    <3>. HIDE DEF a, q, NULL
    <3>3. b \in Slot /\ b.conn = s /\ b.cgi = "NULL"
      BY <3>1, <3>2 DEF Slot
    <3>. HIDE DEF b
    <3>4. c \in Slot /\ c.conn = s /\ c.cgi = "NULL"
      BY <3>3 DEF Slot
    <3>. HIDE DEF c
    <3>. QED BY <3>2, <3>4 DEF Slot
  <2>. HIDE DEF so, q
  <2>6. SlotOK(q) /\ Own(q) = 0 /\ Own(slot[i]) = 0
    BY <2>4, <2>5 DEF SlotOK, Own, Holds
  <2>7. /\ w \in Worlds /\ w.slot[i] = q /\ \A j \in Slots : j # i => w.slot[j] = slot[j]
        /\ w.sock = sock /\ w.files = files /\ w.mcu = mcu
    BY <1>2, <2>1, <2>5, SlotSet
  <2>8. w.flash = flash /\ w.slot = [slot EXCEPT ![i] = q]
    BY <1>2 DEF SlotPut, Worlds
  <2>. HIDE DEF w
  <2>9. /\ v \in Worlds /\ v.slot = w.slot /\ v.files = files /\ v.flash = flash /\ v.mcu = mcu
        /\ v.sock = [sock EXCEPT ![s] = so]
    BY <1>5, <2>3, <2>7, <2>8 DEF Worlds
  <2>10. v.sock[s] = so /\ \A t \in Socks : t # s => v.sock[t] = sock[t]
    BY <1>5, <2>9
  <2>. HIDE DEF v
  <2>11. Become(v)
    BY <2>2, <2>8, <2>9 DEF Become
  <2>12. Linked(v.slot, v.sock)
    <3>1. ASSUME NEW j \in Slots, NEW t \in Socks
          PROVE  v.slot[j].conn = t <=> v.sock[t].reverse = j
      <4>1. slot[j].conn = t <=> sock[t].reverse = j
        BY <1>5 DEF PoolOK, Linked
      <4>2. v.slot[j] = IF j = i THEN q ELSE slot[j]
        BY <2>7, <2>9
      <4>3. v.sock[t] = IF t = s THEN so ELSE sock[t]
        BY <2>10
      <4>4. t # NoSock
        BY <1>6
      <4>. QED BY <1>3, <2>1, <2>3, <2>5, <4>1, <4>2, <4>3, <4>4
    <3>. QED BY <3>1 DEF Linked
  <2>13. PoolOK(v.slot, v.sock, v.files)
    <3>1. Attended(v.slot) /\ \A j \in Slots : SlotOK(v.slot[j])
      BY <1>5, <2>5, <2>6, <2>7, <2>9 DEF PoolOK, Attended
    <3>2. v.files = Cardinality(Holders(v.slot))
      <4>1. World.files = Cardinality(Holders(World.slot))
        BY <1>2, <1>5 DEF PoolOK
      <4>2. v.files - Own(v.slot[i]) = World.files - Own(World.slot[i])
        BY <1>2, <2>6, <2>7, <2>9
      <4>. QED BY <1>2, <2>1, <2>7, <2>9, <4>1, <4>2, PoolChanged
    <3>. QED BY <2>12, <3>1, <3>2 DEF PoolOK
  <2>14. left \in Nat
    BY <1>4
  <2>15. /\ unread' \in [Socks -> Nat] /\ unread'[s] = left
         /\ \A t \in Socks : t # s => unread'[t] = unread[t]
    BY <1>5, <2>2, <2>14
  <2>16. ASSUME NEW t \in Socks, v.sock[t].reverse # NoSlot
         PROVE  v.sock[t].st # "idle" /\ Heard(v.slot[v.sock[t].reverse], v.sock[t], unread'[t])
    <3>1. CASE t = s
      <4>1. v.sock[t] = so /\ v.slot[so.reverse] = q
        BY <2>3, <2>7, <2>9, <2>10, <3>1
      <4>2. Heard(q, so, left)
        BY <1>4, <2>3, <2>5 DEF Heard, NULL
      <4>. HIDE DEF left
      <4>. QED BY <2>3, <2>15, <3>1, <4>1, <4>2
    <3>2. CASE t # s
      <4>1. v.sock[t] = sock[t] /\ unread'[t] = unread[t]
        BY <2>10, <2>15, <3>2
      <4>2. sock[t].reverse \in Slots /\ slot[sock[t].reverse].conn = t
        BY <2>16, <4>1, Place
      <4>3. sock[t].reverse # i
        BY <1>6, <2>1, <4>2
      <4>4. v.slot[sock[t].reverse] = slot[sock[t].reverse]
        BY <2>7, <2>9, <4>2, <4>3
      <4>. QED BY <2>16, <4>1, <4>4 DEF HttpdInv
    <3>. QED BY <3>1, <3>2
  <2>. QED BY <2>9, <2>11, <2>13, <2>15, <2>16, Became
<1>. QED
  BY <1>7, <1>8

LEMMA SetupKeeps ==
    ASSUME HttpdInv, WEB_Setup
    PROVE  HttpdInv'
<1>1. mcu' \in Mcu
  BY DEF WEB_Setup, HttpdInv, HttpdType, Mcu
<1>2. UNCHANGED <<slot, sock, unread, flash, files>>
  BY DEF WEB_Setup
<1>. QED
  BY <1>1, <1>2 DEF HttpdInv, HttpdType, PoolOK, Linked, Attended, Holders, Heard

LEMMA DataKeeps ==
    ASSUME HttpdInv, NEW s \in Socks, WEB_Data(s)
    PROVE  HttpdInv'
<1>1. PICK asked \in {mcu.asked, mcu.asked \ {s}} :
         LET w == [World EXCEPT !.mcu.asked = asked]
             i == Min(httpdLookUpConn(s))
         IN  Become(IF httpdLookUpConn(s) # {} /\ slot[i].cgi = "json"
                    THEN httpdSetCGIResponse(w, i) ELSE w)
  BY DEF WEB_Data
<1>. DEFINE w == [World EXCEPT !.mcu.asked = asked]
            i == Min(httpdLookUpConn(s))
            heard == [w EXCEPT !.response = TRUE]
            passed == httpdProcessRequest(heard, i)
            v == [passed EXCEPT !.response = FALSE]
<1>2. UNCHANGED unread
  BY DEF WEB_Data
<1>3. World \in Worlds /\ World.slot = slot /\ World.sock = sock /\ World.files = files
  BY WorldHere DEF HttpdInv, World
<1>4. w \in Worlds /\ w.slot = slot /\ w.sock = sock /\ w.files = files
  <2>. DEFINE m == [World.mcu EXCEPT !.asked = asked]
  <2>1. World.mcu \in Mcu /\ World.mcu = mcu
    BY <1>3, WorldParts DEF World
  <2>2. m \in Mcu
    BY <2>1 DEF Mcu
  <2>3. w = [World EXCEPT !.mcu = m]
    BY <1>3 DEF Worlds
  <2>. HIDE DEF m
  <2>. QED BY <1>3, <2>2, <2>3 DEF Worlds
<1>. HIDE DEF w
<1>5. \/ Become(w)
      \/ httpdLookUpConn(s) # {} /\ slot[i].cgi = "json" /\ Become(v)
  BY <1>1 DEF w, httpdSetCGIResponse
<1>6. CASE Become(w)
  BY <1>2, <1>4, <1>6, SendsBecame
<1>7. CASE httpdLookUpConn(s) # {} /\ slot[i].cgi = "json" /\ Become(v)
  <2>1. i \in Slots /\ slot[i].conn = s
    <3>1. i \in httpdLookUpConn(s)
      <4>1. httpdLookUpConn(s) \subseteq Slots
        BY DEF httpdLookUpConn
      <4>. QED BY <1>7, <4>1, MinSlot
    <3>. QED BY <3>1 DEF httpdLookUpConn
  <2>. HIDE DEF i
  <2>2. sock[s].reverse = i /\ i # NoSlot
    BY <2>1 DEF HttpdInv, PoolOK, Linked, NoSlot, Slots
  <2>3. SlotOK(slot[i]) /\ slot[i].len \in Int /\ slot[i].len >= 0
    <3>1. SlotOK(slot[i]) /\ slot[i].len \in Int
      BY <2>1, SlotParts DEF HttpdInv, HttpdType, PoolOK
    <3>. QED BY <1>7, <3>1 DEF SlotOK
  <2>4. heard \in Worlds /\ heard.slot = slot /\ heard.sock = sock /\ heard.files = files
    BY <1>4 DEF Worlds
  <2>. HIDE DEF heard
  <2>5. ServedAt(heard, passed, i) /\ passed.slot[i].len >= 0
    BY <2>1, <2>3, <2>4, Processed
  <2>. HIDE DEF passed
  <2>6. v \in Worlds /\ v.slot = passed.slot /\ v.sock = passed.sock /\ v.files = passed.files
    BY <2>5 DEF ServedAt, Worlds
  <2>. HIDE DEF v
  <2>7. ServedAt(World, v, i) /\ v.slot[i].len >= 0
    BY <1>3, <2>4, <2>5, <2>6 DEF ServedAt, SameEnds
  <2>8. unread[s] \in Nat /\ unread' = [unread EXCEPT ![s] = unread[s]]
    BY <1>2 DEF HttpdInv, HttpdType
  <2>9. Heard(v.slot[i], sock[s], unread[s])
    <3>1. Heard(slot[i], sock[s], unread[s])
      BY <2>2 DEF HttpdInv
    <3>2. v.slot[i].len \in Int
      BY <2>1, <2>6, <2>7, WorldParts, SlotParts DEF ServedAt
    <3>. QED BY <2>3, <2>7, <3>1, <3>2 DEF Heard
  <2>. QED BY <1>7, <2>2, <2>7, <2>8, <2>9, ServedBecame
<1>. QED
  BY <1>5, <1>6, <1>7

-----------------------------------------------------------------------------
(* The specification *)

LEMMA HttpdInit == Init => HttpdInv
<1>. SUFFICES ASSUME Init PROVE HttpdInv
  OBVIOUS
<1>1. /\ slot = [i \in Slots |-> FreeSlot] /\ sock = [s \in Socks |-> IdleSock]
      /\ unread = [s \in Socks |-> 0] /\ flash = [a \in Addresses |-> <<"old">>]
      /\ files = 0 /\ mcu = [cb |-> FALSE, asked |-> {}]
  BY DEF Init
<1>2. HttpdType
  <2>1. mcu \in Mcu
    BY <1>1 DEF Mcu
  <2>2. <<"old">> \in Cells
    BY DEF Cells
  <2>. QED BY <1>1, <2>1, <2>2, FreeParts DEF HttpdType
<1>3. NoSock \notin Socks /\ NoSlot \notin Slots
  BY HttpdAssumption DEF NoSlot, Slots
<1>4. PoolOK(slot, sock, files)
  <2>1. Linked(slot, sock) /\ Attended(slot)
    BY <1>1, <1>3, FreeParts DEF Linked, Attended
  <2>2. \A i \in Slots : SlotOK(slot[i])
    BY <1>1, FreeParts
  <2>3. Holders(slot) = {}
    BY <1>1, FreeParts DEF Holders, Holds
  <2>. QED BY <1>1, <2>1, <2>2, <2>3, FS_EmptySet DEF PoolOK
<1>5. \A s \in Socks : sock[s].reverse = NoSlot
  BY <1>1, FreeParts
<1>. QED
  BY <1>2, <1>4, <1>5 DEF HttpdInv

LEMMA HttpdStep == HttpdInv /\ [Next]_vars => HttpdInv'
<1>. SUFFICES ASSUME HttpdInv, [Next]_vars PROVE HttpdInv'
  OBVIOUS
<1>1. CASE WEB_Setup
  BY <1>1, SetupKeeps
<1>2. ASSUME NEW s \in Socks, httpdConnectCb(s) PROVE HttpdInv'
  BY <1>2, ConnectKeeps
<1>3. ASSUME NEW s \in Socks, httpdRecvCb(s) PROVE HttpdInv'
  BY <1>3, RecvKeeps
<1>4. ASSUME NEW s \in Socks, httpdSentCb(s) PROVE HttpdInv'
  BY <1>4, SentKeeps
<1>5. ASSUME NEW s \in Socks, httpdDisconCb(s) PROVE HttpdInv'
  BY <1>5, DisconKeeps
<1>6. ASSUME NEW s \in Socks, WEB_Data(s) PROVE HttpdInv'
  BY <1>6, DataKeeps
<1>7. CASE UNCHANGED vars
  BY <1>7 DEF vars, HttpdInv, HttpdType, PoolOK, Linked, Attended, Holders, Heard
<1>. QED
  BY <1>1, <1>2, <1>3, <1>4, <1>5, <1>6, <1>7 DEF Next

LEMMA InvariantOwns == HttpdInv => Owned
BY DEF HttpdInv, PoolOK, Linked, Attended, Holders, Holds, Owned

\* However requests are broken off, lost or answered by the MCU, a place in
\* the pool belongs to one connection, a free one has no handler, and the
\* files that are open are those of handlers that will be called again.
THEOREM OwnedHolds == Spec => []Owned
<1>1. Spec => []HttpdInv
  BY HttpdInit, HttpdStep, PTL DEF Spec
<1>. QED
  BY <1>1, InvariantOwns, PTL

-----------------------------------------------------------------------------
(* Answers and uploads *)

Found(req) == builtInUrls(req.url)
Refused(req) == Found(req).auth /\ ~req.auth

\* Nothing has been sent yet.
Waiting(so) == so.st = "up" /\ so.sent = 0 /\ so.answers = <<>>

\* The buffer holds the last units of the POST that have arrived: all that
\* has come since the handler was called last.
Buffered(q, so, left) ==
    /\ q.req = so.req /\ q.len = so.req.clen /\ q.buffSize = Min2(so.req.clen, MAX_POST)
    /\ left \in 0..so.req.clen /\ q.received = so.req.clen - left
    /\ \E j \in Nat : q.received = j * MAX_POST + Len(q.buff)
    /\ \A m \in 1..Len(q.buff) : q.buff[m] = <<so.req.body, q.received - Len(q.buff) + m>>

\* What is done with a request before there is an answer
Fresh(q, so, left) ==
    /\ q.len = NULL /\ q.cgi = "NULL" /\ q.received = 0 /\ q.buff = <<>>
    /\ left = 1 + so.req.clen /\ Waiting(so)
Collecting(q, so, left) ==
    /\ Buffered(q, so, left) /\ q.cgi = "NULL" /\ q.received = Len(q.buff)
    /\ Len(q.buff) < q.buffSize /\ Waiting(so)
Uploading(q, so, left) ==
    /\ Buffered(q, so, left) /\ q.cgi = "firmware" /\ Found(so.req).cgi = "firmware"
    /\ left > 0 /\ ~q.priv /\ so.req.body # "bad" /\ Waiting(so)
Storing(q, so, left) == Uploading(q, so, left) /\ Len(q.buff) < MAX_POST
Asking(q, so) ==
    /\ q.cgi = "json" /\ Found(so.req).cgi = "json" /\ q.req = so.req /\ so.req.body # "submit"
    /\ q.len >= 0 /\ q.data # NULL /\ Waiting(so)

\* A file of which k chunks have been sent
Whole(req) == <<"200">> \o Chunks(FileLen[req.url])
Sending(q, so, left, sent) ==
    /\ q.cgi = "file" /\ Found(so.req).cgi = "file" /\ ~Refused(so.req) /\ q.req = so.req
    /\ left = 0 /\ q.len >= 0 /\ so.st = "up" /\ so.sent = sent
    /\ \E k \in Nat : /\ q.data = k * CHUNK /\ q.data <= FileLen[so.req.url]
                      /\ so.answers = SubSeq(Whole(so.req), 1, k + 1)

\* The request has its answer, or is not given one; nothing more is read of it.
Over(q, so, left) ==
    /\ q.cgi = "NULL" /\ (q.len = 0 \/ (q.len >= 0 /\ left = 0))
    /\ \/ so.answers \in Answers(so.req) /\ so.sent \in {0, 1} /\ so.st \in {"up", "closing"}
       \/ Waiting(so)

Taken(q, so, left) == Asking(q, so) \/ Sending(q, so, left, 1) \/ Over(q, so, left)
Progress(q, so, left) ==
    Fresh(q, so, left) \/ Collecting(q, so, left) \/ Storing(q, so, left) \/ Taken(q, so, left)

\* Of an upload whose handler has been called, what has been written is in
\* its place, and the rest of the sector erased.
Stored(body, off, f) ==
    /\ \A k \in 1..off : k - 1 \in Addresses => f[k - 1] = <<body, k>>
    /\ \A a \in Addresses :
          off % SEC_SIZE # 0 /\ a >= off /\ a \div SEC_SIZE = off \div SEC_SIZE => f[a] = Erased
FlashOK(q, so, f) ==
    q.cgi = "firmware" => Stored(so.req.body, q.received - Len(q.buff), f)

\* One upload is arriving at a time.
Arrives(so, left) == so.st # "idle" /\ so.req.url = "/flash/upload" /\ left # 0
OneUpload == \A s, t \in Socks :
    Arrives(sock[s], unread[s]) /\ Arrives(sock[t], unread[t]) => s = t

AnswerInv ==
    /\ HttpdInv
    /\ OneUpload
    /\ \A s \in Socks : sock[s].reverse = NoSlot => sock[s].answers = <<>>
    /\ \A s \in Socks : sock[s].reverse # NoSlot =>
          /\ Progress(slot[sock[s].reverse], sock[s], unread[s])
          /\ FlashOK(slot[sock[s].reverse], sock[s], flash)

\* A POST for a file fits into the buffer.
ShortPosts ==
    \A s \in Socks : \A req \in Requests[s] : Found(req).cgi = "file" => req.clen <= MAX_POST
\* There is a longest request.
Bounded == \E n \in Nat : \A s \in Socks : \A req \in Requests[s] : req.clen <= n

-----------------------------------------------------------------------------
(* What is sent *)

\* Beside place i and the connection s, v is w.
Aside(w, v, i, s) ==
    /\ \A j \in Slots : j # i => v.slot[j] = w.slot[j]
    /\ \A t \in Socks : t # s => v.sock[t] = w.sock[t]
    /\ v.response = w.response

LEMMA AsideTwice ==
    ASSUME NEW w, NEW u, NEW v, NEW i, NEW s, Aside(w, u, i, s), Aside(u, v, i, s)
    PROVE  Aside(w, v, i, s)
BY DEF Aside

\* v is w with q at place i.
Puts(w, v, i, q) ==
    /\ v \in Worlds /\ v.slot[i] = q /\ v.sock = w.sock /\ v.flash = w.flash /\ v.files = w.files
    /\ v.out = w.out /\ v.r = w.r /\ v.mcu = w.mcu /\ v.response = w.response
    /\ \A j \in Slots : j # i => v.slot[j] = w.slot[j]
    /\ \A s : Aside(w, v, i, s)

LEMMA PutParts ==
    ASSUME NEW w \in Worlds, NEW i \in Slots, NEW q \in Slot
    PROVE  Puts(w, SlotPut(w, i, q), i, q)
BY DEF Worlds, SlotPut, Aside, Puts

\* v is w after data has been sent to s.
SendsTo(w, v, i, s, data) ==
    /\ v \in Worlds /\ v.slot = w.slot /\ v.flash = w.flash /\ v.out = w.out /\ v.r = w.r
    /\ v.mcu = w.mcu /\ v.files = w.files /\ SameEnds(w, v) /\ Aside(w, v, i, s)
    /\ v.sock[s].sent = w.sock[s].sent + 1
    /\ v.sock[s].answers = w.sock[s].answers \o data

LEMMA SentParts ==
    ASSUME NEW w \in Worlds, NEW i \in Slots, NEW s \in Socks, w.slot[i].conn = s,
           NEW data \in Seq(Answer)
    PROVE  SendsTo(w, espconn_sent(w, i, data), i, s, data)
<1>. DEFINE v == espconn_sent(w, i, data)
<1>1. v \in Worlds /\ SameEnds(w, v) /\ v.slot = w.slot /\ v.r = w.r /\ v.files = w.files
  BY SentOnly DEF OnlySends
<1>2. w.sock[s] \in Sock
  BY WorldParts
<1>. DEFINE so == [w.sock[s] EXCEPT !.sent = @ + 1, !.answers = @ \o data]
<1>3. v = [w EXCEPT !.sock = [w.sock EXCEPT ![s] = so]]
  BY DEF espconn_sent, Worlds
<1>4. so.sent = w.sock[s].sent + 1 /\ so.answers = w.sock[s].answers \o data
  BY <1>2 DEF Sock
<1>. HIDE DEF so, v
<1>5. /\ v.flash = w.flash /\ v.out = w.out /\ v.mcu = w.mcu /\ v.response = w.response
      /\ v.sock[s] = so /\ \A t \in Socks : t # s => v.sock[t] = w.sock[t]
  BY <1>3 DEF Worlds
<1>. QED
  BY <1>1, <1>4, <1>5 DEF Aside, SendsTo, v

\* v is w after all that is to be sent has been.
Flushes(w, v, i, s) ==
    /\ v \in Worlds /\ v.slot = w.slot /\ v.flash = w.flash /\ v.out = <<>> /\ v.mcu = w.mcu
    /\ v.r = w.r /\ v.files = w.files /\ SameEnds(w, v) /\ Aside(w, v, i, s)
    /\ w.out = <<>> => v.sock = w.sock
    /\ w.out # <<>> => /\ v.sock[s].sent = w.sock[s].sent + 1
                       /\ v.sock[s].answers = w.sock[s].answers \o w.out

LEMMA Flushed ==
    ASSUME NEW w \in Worlds, NEW i \in Slots, NEW s \in Socks, w.slot[i].conn = s
    PROVE  Flushes(w, httpdFlush(w, i), i, s)
<1>. DEFINE v == httpdFlush(w, i)
<1>1. CASE w.out = <<>>
  BY <1>1 DEF httpdFlush, SameEnds, Aside, Flushes
<1>2. CASE w.out # <<>>
  <2>. DEFINE u == espconn_sent(w, i, w.out)
  <2>1. w.out \in Seq(Answer)
    BY WorldParts
  <2>2. SendsTo(w, u, i, s, w.out)
    BY <2>1, SentParts
  <2>3. v = [u EXCEPT !.out = <<>>]
    BY <1>2 DEF httpdFlush
  <2>. HIDE DEF u, v
  <2>4. /\ v \in Worlds /\ v.slot = u.slot /\ v.flash = u.flash /\ v.out = <<>> /\ v.mcu = u.mcu
        /\ v.sock = u.sock /\ v.response = u.response /\ v.r = u.r /\ v.files = u.files
    <3>1. <<>> \in Seq(Answer) /\ u \in Worlds
      BY <2>2 DEF SendsTo
    <3>. QED BY <2>3, <3>1 DEF Worlds
  <2>5. Flushes(w, v, i, s)
    BY <1>2, <2>2, <2>4 DEF SameEnds, Aside, SendsTo, Flushes
  <2>. QED BY <2>5 DEF v
<1>. QED
  BY <1>1, <1>2

\* v is w after the request of place i has ended.
Ends(w, v, i) ==
    /\ v \in Worlds /\ v.sock = w.sock /\ v.flash = w.flash /\ v.out = w.out /\ v.mcu = w.mcu
    /\ v.slot[i].cgi = "NULL" /\ v.slot[i].len = 0 /\ \A s : Aside(w, v, i, s)

LEMMA FinishedParts ==
    ASSUME NEW w \in Worlds, NEW i \in Slots
    PROVE  Ends(w, Finished(w, i), i)
<1>. DEFINE v == Finished(w, i)
<1>1. /\ v \in Worlds /\ v.sock = w.sock /\ v.slot[i].cgi = "NULL" /\ v.slot[i].len = 0
      /\ \A j \in Slots : j # i => v.slot[j] = w.slot[j]
  BY FinishedSet
<1>2. v.flash = w.flash /\ v.out = w.out /\ v.mcu = w.mcu /\ v.response = w.response
  BY DEF Finished, Worlds
<1>. HIDE DEF v
<1>3. Ends(w, v, i)
  BY <1>1, <1>2 DEF Aside, Ends
<1>. QED
  BY <1>3 DEF v

\* v is w after s was given code for an answer, and the request has ended.
EndsWith(w, v, i, s, left, code) ==
    /\ v \in Worlds /\ Over(v.slot[i], v.sock[s], left) /\ v.sock[s].answers = <<code>>
    /\ v.out = <<>> /\ v.flash = w.flash /\ v.mcu = w.mcu /\ Aside(w, v, i, s)
    /\ SameEnds(w, v)

LEMMA Answered ==
    ASSUME NEW w \in Worlds, NEW i \in Slots, NEW s \in Socks, w.slot[i].conn = s,
           Waiting(w.sock[s]), NEW code, w.out = <<code>>, <<code>> \in Answers(w.sock[s].req),
           NEW left
    PROVE  EndsWith(w, Finished(httpdFlush(w, i), i), i, s, left, code)
<1>. DEFINE u == httpdFlush(w, i)
            v == Finished(u, i)
<1>. SUFFICES EndsWith(w, v, i, s, left, code)
  OBVIOUS
<1>1. Flushes(w, u, i, s)
  BY Flushed
<1>. HIDE DEF u
<1>2. Ends(u, v, i)
  BY <1>1, FinishedParts DEF Flushes
<1>. HIDE DEF v
<1>3. v.sock[s].sent = 1 /\ v.sock[s].answers = <<code>>
  <2>1. w.sock[s].answers = <<>> /\ w.sock[s].sent = 0 /\ w.out # <<>>
    BY DEF Waiting
  <2>2. <<>> \o <<code>> = <<code>>
    OBVIOUS
  <2>. QED BY <1>1, <1>2, <2>1, <2>2 DEF Flushes, Ends
<1>4. v.sock[s].st = "up" /\ v.sock[s].req = w.sock[s].req
  BY <1>1, <1>2 DEF Waiting, SameEnds, Flushes, Ends
<1>5. Over(v.slot[i], v.sock[s], left)
  BY <1>2, <1>3, <1>4 DEF Over, Ends
<1>6. Aside(w, v, i, s)
  BY <1>1, <1>2, AsideTwice DEF Flushes, Ends
<1>. QED
  BY <1>1, <1>2, <1>3, <1>5, <1>6 DEF SameEnds, Flushes, Ends, EndsWith

-----------------------------------------------------------------------------
(* What the handlers do with a request *)

SameRequest(q, p) ==
    /\ p.conn = q.conn /\ p.req = q.req /\ p.cgi = q.cgi /\ p.len = q.len
    /\ p.buff = q.buff /\ p.buffSize = q.buffSize /\ p.received = q.received

LEMMA PrivSet ==
    ASSUME NEW w \in Worlds, NEW i \in Slots, NEW b \in BOOLEAN
    PROVE  LET v == [w EXCEPT !.slot[i].priv = b]
           IN  /\ Puts(w, v, i, v.slot[i]) /\ SameRequest(w.slot[i], v.slot[i])
               /\ v.slot[i].priv = b /\ v.slot[i].data = w.slot[i].data
<1>. DEFINE q == [w.slot[i] EXCEPT !.priv = b]
            v == [w EXCEPT !.slot[i].priv = b]
<1>1. w.slot[i] \in Slot
  BY WorldParts
<1>2. q \in Slot /\ SameRequest(w.slot[i], q) /\ q.priv = b /\ q.data = w.slot[i].data
  BY <1>1 DEF Slot, SameRequest
<1>3. v = SlotPut(w, i, q)
  BY DEF SlotPut, Worlds
<1>. HIDE DEF v, q
<1>4. Puts(w, v, i, q)
  BY <1>2, <1>3, PutParts
<1>5. v.slot[i] = q
  BY <1>4 DEF Puts
<1>. QED
  BY <1>2, <1>4, <1>5 DEF v

Refuses(q) == q.len = 0 \/ (q.received - Len(q.buff) = 0 /\ q.buff[1][1] = "bad")

\* v is w after the handler for uploads was called.
Uploads(w, v, i) ==
    LET q == w.slot[i]
        off == q.received - Len(q.buff)
    IN  /\ v \in Worlds /\ v.sock = w.sock /\ SameRequest(q, v.slot[i]) /\ v.response = w.response
        /\ \A j \in Slots : j # i => v.slot[j] = w.slot[j]
        /\ \/ off # 0 /\ q.priv
           \/ Refuses(q) /\ v.r = "DONE" /\ v.out = Append(w.out, "400") /\ v.flash = w.flash
           \/ /\ ~Refuses(q) /\ ~v.slot[i].priv
              /\ v.flash = Written(w.flash, off, q.buff, off % SEC_SIZE = 0)
              /\ IF q.received = q.len THEN v.r = "DONE" /\ v.out = Append(w.out, "200")
                 ELSE v.r = "MORE" /\ v.out = w.out

LEMMA FirmwareUploads ==
    ASSUME NEW w \in Worlds, NEW i \in Slots, w.slot[i].cgi = "firmware", SlotOK(w.slot[i]),
           w.slot[i].conn # NoSock
    PROVE  Uploads(w, cgiUploadFirmware(w, i), i)
<1>. DEFINE q == w.slot[i]
            off == q.received - Len(q.buff)
            cleared == [w EXCEPT !.slot[i].priv = FALSE]
            w1 == IF off = 0 THEN cleared ELSE w
            refused == [w1 EXCEPT !.slot[i].priv = TRUE]
            erases == off % SEC_SIZE = 0
            f == Written(w1.flash, off, q.buff, erases)
            w2 == [w1 EXCEPT !.flash = f]
            v == cgiUploadFirmware(w, i)
<1>. SUFFICES Uploads(w, v, i)
  OBVIOUS
<1>1. \/ off # 0 /\ q.priv /\ v = Returns(w, "DONE")
      \/ (off = 0 \/ ~q.priv) /\ Refuses(q) /\ v = Returns(httpdSend(refused, "400"), "DONE")
      \/ /\ off = 0 \/ ~q.priv
         /\ ~Refuses(q)
         /\ v = IF q.received = q.len THEN Returns(httpdSend(w2, "200"), "DONE")
                ELSE Returns(w2, "MORE")
  BY DEF cgiUploadFirmware, Refuses
<1>2. v \in Worlds
  BY FirmwareHandled DEF Handled
<1>. HIDE DEF v
<1>3. q \in Slot /\ off \in Int /\ q.buff \in Seq(Units)
  BY WorldParts, SlotParts
<1>4. /\ Puts(w, cleared, i, cleared.slot[i]) /\ SameRequest(q, cleared.slot[i])
      /\ ~cleared.slot[i].priv
  BY PrivSet
<1>. HIDE DEF cleared
<1>5. /\ w1 \in Worlds /\ w1.sock = w.sock /\ w1.flash = w.flash /\ w1.out = w.out
      /\ w1.response = w.response
      /\ \A j \in Slots : j # i => w1.slot[j] = w.slot[j]
      /\ SameRequest(q, w1.slot[i])
      /\ off = 0 \/ ~q.priv => ~w1.slot[i].priv
  BY <1>4 DEF Puts, SameRequest
<1>. HIDE DEF w1
<1>6. CASE off # 0 /\ q.priv /\ v = Returns(w, "DONE")
  BY <1>2, <1>6 DEF Returns, Uploads, SameRequest, Worlds
<1>7. CASE /\ off = 0 \/ ~q.priv
           /\ Refuses(q) /\ v = Returns(httpdSend(refused, "400"), "DONE")
  <2>1. /\ Puts(w1, refused, i, refused.slot[i]) /\ SameRequest(w1.slot[i], refused.slot[i])
    BY <1>5, PrivSet
  <2>. HIDE DEF refused
  <2>2. /\ v.slot = refused.slot /\ v.sock = refused.sock /\ v.flash = refused.flash
        /\ v.r = "DONE" /\ v.out = Append(refused.out, "400") /\ v.response = refused.response
    BY <1>7, <2>1 DEF Returns, httpdSend, Puts, Worlds
  <2>. QED BY <1>2, <1>5, <1>7, <2>1, <2>2 DEF Uploads, Puts, SameRequest
<1>8. CASE /\ off = 0 \/ ~q.priv
           /\ ~Refuses(q)
           /\ v = IF q.received = q.len THEN Returns(httpdSend(w2, "200"), "DONE")
                  ELSE Returns(w2, "MORE")
  <2>1. w2 \in Worlds
    <3>1. erases \in BOOLEAN /\ w1.flash \in [Addresses -> Cells]
      BY <1>5, WorldParts
    <3>2. f \in [Addresses -> Cells]
      BY <1>3, <3>1, WrittenCells
    <3>. HIDE DEF f
    <3>. QED BY <1>5, <3>2 DEF Worlds
  <2>2. /\ w2.slot = w1.slot /\ w2.sock = w1.sock /\ w2.flash = f /\ w2.out = w1.out
        /\ w2.response = w1.response
    BY <1>5 DEF Worlds
  <2>. HIDE DEF w2, f
  <2>3. /\ v.slot = w2.slot /\ v.sock = w2.sock /\ v.flash = w2.flash /\ v.response = w2.response
        /\ IF q.received = q.len THEN v.r = "DONE" /\ v.out = Append(w2.out, "200")
           ELSE v.r = "MORE" /\ v.out = w2.out
    <3>1. CASE q.received = q.len
      BY <1>8, <2>1, <3>1 DEF Returns, httpdSend, Worlds
    <3>2. CASE q.received # q.len
      BY <1>8, <2>1, <3>2 DEF Returns, Worlds
    <3>. QED BY <3>1, <3>2
  <2>4. v.flash = Written(w.flash, off, q.buff, off % SEC_SIZE = 0)
    BY <1>5, <2>2, <2>3 DEF f
  <2>. QED BY <1>2, <1>5, <1>8, <2>2, <2>3, <2>4 DEF Uploads, SameRequest
<1>. QED
  BY <1>1, <1>6, <1>7, <1>8

LEMMA DataSet ==
    ASSUME NEW w \in Worlds, NEW i \in Slots, NEW n \in Int
    PROVE  LET v == [w EXCEPT !.slot[i].data = n]
           IN  /\ Puts(w, v, i, v.slot[i]) /\ SameRequest(w.slot[i], v.slot[i])
               /\ v.slot[i].data = n
<1>. DEFINE q == [w.slot[i] EXCEPT !.data = n]
            v == [w EXCEPT !.slot[i].data = n]
<1>1. w.slot[i] \in Slot
  BY WorldParts
<1>2. q \in Slot /\ SameRequest(w.slot[i], q) /\ q.data = n
  BY <1>1 DEF Slot, SameRequest
<1>3. v = SlotPut(w, i, q)
  BY DEF SlotPut, Worlds
<1>. HIDE DEF v, q
<1>4. Puts(w, v, i, q)
  BY <1>2, <1>3, PutParts
<1>5. v.slot[i] = q
  BY <1>4 DEF Puts
<1>. QED
  BY <1>2, <1>4, <1>5 DEF v

\* v is w after the handler that asks the MCU was called.
Asks(w, v, i) ==
    LET q == w.slot[i]
        p == v.slot[i]
    IN  /\ v \in Worlds /\ v.sock = w.sock /\ v.flash = w.flash /\ v.response = w.response
        /\ \A j \in Slots : j # i => v.slot[j] = w.slot[j]
        /\ SameRequest(q, p) /\ p.data # NULL
        /\ \/ v.r = "MORE" /\ v.out = w.out /\ (q.data = NULL => q.req.body # "submit")
           \/ v.r = "DONE" /\ v.out = Append(w.out, "200") /\ q.data # NULL /\ w.response
           \/ v.r = "DONE" /\ v.out = Append(w.out, "500") /\ q.data = NULL
           \/ /\ v.r = "DONE" /\ q.data = NULL /\ q.req.body = "submit"
              /\ v.out = Append(w.out, IF q.received < q.len THEN "400" ELSE "204")

LEMMA JsonAsks ==
    ASSUME NEW w \in Worlds, NEW i \in Slots, w.slot[i].cgi = "json", SlotOK(w.slot[i]),
           w.slot[i].conn # NoSock
    PROVE  Asks(w, WEB_CgiJsonHook(w, i), i)
<1>. DEFINE q == w.slot[i]
            w1 == [w EXCEPT !.slot[i].data = 1]
            tell == [w1 EXCEPT !.mcu.asked = @ \cup {w1.slot[i].conn}]
            v == WEB_CgiJsonHook(w, i)
<1>. SUFFICES Asks(w, v, i)
  OBVIOUS
<1>1. \/ q.data = NULL /\ v = WEB_handleJSONRequest(w1, i)
      \/ q.data # NULL /\ w.response /\ v = Returns(httpdSend(w, "200"), "DONE")
      \/ q.data # NULL /\ v = Returns(w, "MORE")
  BY DEF WEB_CgiJsonHook
<1>2. v \in Worlds
  BY JsonHandled DEF Handled
<1>. HIDE DEF v
<1>3. /\ Puts(w, w1, i, w1.slot[i]) /\ SameRequest(q, w1.slot[i]) /\ w1.slot[i].data = 1
  BY DataSet
<1>. HIDE DEF w1
<1>4. CASE q.data = NULL /\ v = WEB_handleJSONRequest(w1, i)
  <2>. DEFINE p == w1.slot[i]
              code == IF p.received < p.len THEN "400" ELSE "204"
  <2>1. \/ v = Returns(httpdSend(w1, "500"), "DONE")
        \/ p.req.body # "submit" /\ v = Returns(tell, "MORE")
        \/ p.req.body = "submit" /\ v = Returns(httpdSend(w1, code), "DONE")
    <3>. HIDE DEF v, tell
    <3>1. tell = [w1 EXCEPT !.mcu.asked = @ \cup {w1.slot[i].conn}]
      BY DEF tell
    <3>. QED BY <1>4, <3>1, Zenon DEF WEB_handleJSONRequest
  <2>. HIDE DEF code
  <2>2. \A c \in {"500", code} : v = Returns(httpdSend(w1, c), "DONE") =>
           /\ v.slot = w1.slot /\ v.sock = w1.sock /\ v.flash = w1.flash
           /\ v.response = w1.response /\ v.r = "DONE" /\ v.out = Append(w1.out, c)
    BY <1>3 DEF Returns, httpdSend, Puts, Worlds
  <2>3. v = Returns(tell, "MORE") =>
           /\ v.slot = w1.slot /\ v.sock = w1.sock /\ v.flash = w1.flash
           /\ v.response = w1.response /\ v.r = "MORE" /\ v.out = w1.out
    BY <1>3 DEF Returns, Puts, Worlds
  <2>. HIDE DEF tell
  <2>4. SameRequest(q, p) /\ p.data = 1 /\ 1 # NULL /\ p.req = q.req
    BY <1>3 DEF NULL, SameRequest
  <2>5. code = IF q.received < q.len THEN "400" ELSE "204"
    BY <1>3 DEF code, SameRequest
  <2>6. CASE v = Returns(httpdSend(w1, "500"), "DONE")
    BY <1>2, <1>3, <1>4, <2>2, <2>4, <2>6 DEF Asks, Puts
  <2>7. CASE p.req.body # "submit" /\ v = Returns(tell, "MORE")
    BY <1>2, <1>3, <1>4, <2>3, <2>4, <2>7 DEF Asks, Puts
  <2>8. CASE p.req.body = "submit" /\ v = Returns(httpdSend(w1, code), "DONE")
    BY <1>2, <1>3, <1>4, <2>2, <2>4, <2>5, <2>8 DEF Asks, Puts
  <2>. QED BY <2>1, <2>6, <2>7, <2>8
<1>5. CASE q.data # NULL /\ w.response /\ v = Returns(httpdSend(w, "200"), "DONE")
  <2>1. /\ v.slot = w.slot /\ v.sock = w.sock /\ v.flash = w.flash
        /\ v.response = w.response /\ v.r = "DONE" /\ v.out = Append(w.out, "200")
    BY <1>5 DEF Returns, httpdSend, Worlds
  <2>. QED BY <1>2, <1>5, <2>1 DEF Asks, SameRequest
<1>6. CASE q.data # NULL /\ v = Returns(w, "MORE")
  <2>1. /\ v.slot = w.slot /\ v.sock = w.sock /\ v.flash = w.flash
        /\ v.response = w.response /\ v.r = "MORE" /\ v.out = w.out
    BY <1>6 DEF Returns, Worlds
  <2>. QED BY <1>2, <1>6, <2>1 DEF Asks, SameRequest
<1>. QED
  BY <1>1, <1>4, <1>5, <1>6

\* v is w after the handler that sends a file to s was called.
Opens(w, v, i) ==
    /\ v \in Worlds /\ v.sock = w.sock /\ v.flash = w.flash /\ v.response = w.response
    /\ \A j \in Slots : j # i => v.slot[j] = w.slot[j]
    /\ SameRequest(w.slot[i], v.slot[i]) /\ v.slot[i].data = 0
    /\ v.r = "MORE" /\ v.out = Append(w.out, "200")
Reads(w, v, i, s, n) ==
    /\ v \in Worlds /\ v.flash = w.flash /\ Aside(w, v, i, s) /\ SameEnds(w, v)
    /\ SameRequest(w.slot[i], v.slot[i]) /\ v.slot[i].data = w.slot[i].data + n
    /\ v.out = w.out /\ v.r = (IF n # CHUNK THEN "DONE" ELSE "MORE")
    /\ v.sock[s].sent = w.sock[s].sent + (IF n > 0 THEN 1 ELSE 0)
    /\ v.sock[s].answers = w.sock[s].answers \o (IF n > 0 THEN <<n>> ELSE <<>>)

LEMMA FileOpens ==
    ASSUME NEW w \in Worlds, NEW i \in Slots, w.slot[i].cgi = "file", SlotOK(w.slot[i]),
           w.slot[i].conn # NoSock, w.slot[i].data = NULL
    PROVE  Opens(w, cgiEspFsHook(w, i), i)
<1>. DEFINE u == [w EXCEPT !.files = w.files + 1]
            p == [u EXCEPT !.slot[i].data = 0]
            v == cgiEspFsHook(w, i)
<1>. SUFFICES Opens(w, v, i)
  OBVIOUS
<1>1. v = Returns(httpdSend([w EXCEPT !.files = @ + 1, !.slot[i].data = 0], "200"), "MORE")
  BY DEF cgiEspFsHook
<1>2. p = [w EXCEPT !.files = @ + 1, !.slot[i].data = 0]
  BY DEF Worlds
<1>3. v = Returns(httpdSend(p, "200"), "MORE") /\ v \in Worlds
  <2>1. v \in Worlds
    BY FilesHandled DEF Handled
  <2>. QED BY <1>1, <1>2, <2>1
<1>. HIDE DEF v
<1>4. /\ u \in Worlds /\ u.slot = w.slot /\ u.sock = w.sock /\ u.flash = w.flash /\ u.out = w.out
      /\ u.response = w.response
  <2>1. w.files + 1 \in Int
    BY WorldParts
  <2>. QED BY <2>1 DEF Worlds
<1>. HIDE DEF u
<1>5. Puts(u, p, i, p.slot[i]) /\ SameRequest(u.slot[i], p.slot[i]) /\ p.slot[i].data = 0
  BY <1>4, DataSet
<1>. HIDE DEF p
<1>6. /\ v.slot = p.slot /\ v.sock = p.sock /\ v.flash = p.flash
      /\ v.response = p.response /\ v.r = "MORE" /\ v.out = Append(p.out, "200")
  BY <1>3, <1>5 DEF Returns, httpdSend, Puts, Worlds
<1>. QED
  BY <1>3, <1>4, <1>5, <1>6 DEF Opens, Puts

LEMMA FileReads ==
    ASSUME NEW w \in Worlds, NEW i \in Slots, NEW s \in Socks, w.slot[i].conn = s,
           w.slot[i].cgi = "file", SlotOK(w.slot[i]), w.slot[i].data # NULL
    PROVE  Reads(w, cgiEspFsHook(w, i), i, s,
                 Min2(CHUNK, FileLen[w.slot[i].req.url] - w.slot[i].data))
<1>. DEFINE q == w.slot[i]
            n == Min2(CHUNK, FileLen[q.req.url] - q.data)
            sent == IF n > 0 THEN espconn_sent(w, i, <<n>>) ELSE w
            read == [sent EXCEPT !.slot[i].data = @ + n]
            past == [sent EXCEPT !.slot[i].data = q.data + n]
            v == cgiEspFsHook(w, i)
<1>. SUFFICES Reads(w, v, i, s, n)
  OBVIOUS
<1>1. s # NoSock /\ CHUNK \in Nat \ {0}
  BY HttpdAssumption
<1>2. v = IF n # CHUNK THEN Returns(espFsClose(read, q.data), "DONE") ELSE Returns(read, "MORE")
  BY <1>1 DEF cgiEspFsHook
<1>3. v \in Worlds /\ SameEnds(w, v)
  BY FilesHandled DEF Handled
<1>. HIDE DEF v
<1>4. n \in Nat /\ q.data + n \in Int
  <2>1. FileLen[q.req.url] \in Nat /\ q.data \in 0..FileLen[q.req.url]
    BY DEF SlotOK
  <2>. QED BY <1>1, <2>1 DEF Min2
<1>. HIDE DEF n
<1>5. /\ sent \in Worlds /\ sent.slot = w.slot /\ sent.flash = w.flash /\ sent.out = w.out
      /\ Aside(w, sent, i, s)
      /\ sent.sock[s].sent = w.sock[s].sent + (IF n > 0 THEN 1 ELSE 0)
      /\ sent.sock[s].answers = w.sock[s].answers \o (IF n > 0 THEN <<n>> ELSE <<>>)
  <2>1. CASE n > 0
    <3>1. <<n>> \in Seq(Answer)
      BY <1>4 DEF Answer
    <3>2. SendsTo(w, espconn_sent(w, i, <<n>>), i, s, <<n>>)
      BY <3>1, SentParts
    <3>. QED BY <2>1, <3>2 DEF SendsTo
  <2>2. CASE ~(n > 0)
    <3>1. w.sock[s] \in Sock
      BY WorldParts
    <3>2. w.sock[s].answers \in Seq(Answer) /\ w.sock[s].sent \in Int
      BY <3>1 DEF Sock
    <3>3. w.sock[s].answers \o <<>> = w.sock[s].answers /\ w.sock[s].sent + 0 = w.sock[s].sent
      BY <3>2
    <3>. QED BY <2>2, <3>3 DEF Aside
  <2>. QED BY <2>1, <2>2
<1>6. read = past
  <2>1. sent.slot[i].data = q.data
    BY <1>5
  <2>. HIDE DEF sent, q
  <2>. QED BY <2>1
<1>. HIDE DEF sent
<1>7. /\ Puts(sent, past, i, past.slot[i]) /\ SameRequest(sent.slot[i], past.slot[i])
      /\ past.slot[i].data = q.data + n
  <2>. HIDE DEF q
  <2>. QED BY <1>4, <1>5, DataSet
<1>. HIDE DEF read, past
<1>8. /\ v.slot = past.slot /\ v.sock = past.sock /\ v.flash = past.flash
      /\ v.response = past.response /\ v.out = past.out
      /\ v.r = (IF n # CHUNK THEN "DONE" ELSE "MORE")
  <2>1. past \in Worlds
    BY <1>7 DEF Puts
  <2>2. CASE n # CHUNK
    <3>1. v = Returns([past EXCEPT !.files = @ - 1], "DONE")
      BY <1>2, <1>6, <2>2 DEF espFsClose
    <3>. QED BY <2>1, <2>2, <3>1 DEF Returns, Worlds
  <2>3. CASE n = CHUNK
    BY <1>2, <1>6, <2>1, <2>3 DEF Returns, Worlds
  <2>. QED BY <2>2, <2>3
<1>9. Aside(w, v, i, s)
  BY <1>5, <1>7, <1>8 DEF Aside, Puts
<1>. QED
  BY <1>3, <1>5, <1>7, <1>8, <1>9 DEF Reads, Puts

-----------------------------------------------------------------------------
(* Sectors and chunks *)

LEMMA Quotient ==
    ASSUME NEW m \in Nat \ {0}, NEW c \in Int, NEW r \in 0..m - 1, NEW x \in Int, x = m * c + r
    PROVE  x \div m = c /\ x % m = r
<1>. DEFINE d == x \div m
            e == x % m
<1>1. x = m * d + e /\ d \in Int /\ e \in 0..m - 1
  OBVIOUS
<1>. HIDE DEF d, e
<1>2. m * (d - c) \in -m + 1 .. m - 1
  <2>1. m * d - m * c \in -m + 1 .. m - 1
    BY <1>1
  <2>. QED BY <1>1, <2>1
<1>3. d - c = 0
  <2>1. CASE d - c >= 1
    BY <1>1, <1>2, <2>1
  <2>2. CASE d - c <= -1
    BY <1>1, <1>2, <2>2
  <2>. QED BY <1>1, <2>1, <2>2
<1>4. d = c /\ e = r
  BY <1>1, <1>3
<1>. QED
  BY <1>4 DEF d, e

\* Buffers are of m units and sectors of n * m: a buffer is written to one sector.
Fits(m, n, j) ==
    \E c \in Nat, r \in 0..n - 1 : j * m = (m * n) * c + m * r /\ m * r + m <= m * n

LEMMA OneSector ==
    ASSUME NEW m \in Nat \ {0}, NEW n \in Nat \ {0}, NEW j \in Nat
    PROVE  Fits(m, n, j)
<1>1. j = n * (j \div n) + (j % n) /\ j \div n \in Nat /\ (j % n) \in 0..n - 1
  OBVIOUS
<1>. DEFINE c == j \div n
            r == j % n
<1>2. j = n * c + r /\ c \in Nat /\ r \in 0..n - 1
  BY <1>1
<1>. HIDE DEF c, r
<1>3. j * m = (m * n) * c + m * r
  BY <1>2
<1>4. m * (r + 1) <= m * n
  BY <1>2
<1>5. m * r + m <= m * n
  BY <1>2, <1>4
<1>. QED
  BY <1>2, <1>3, <1>5 DEF Fits

LEMMA Sectors ==
    ASSUME NEW j \in Nat, NEW off, off = j * MAX_POST
    PROVE  /\ \A a \in off .. off + MAX_POST - 1 : a \div SEC_SIZE = off \div SEC_SIZE
           /\ off % SEC_SIZE = 0 =>
                 \A a \in Int : a < off => a \div SEC_SIZE # off \div SEC_SIZE
           /\ (off + MAX_POST) % SEC_SIZE # 0 =>
                 (off + MAX_POST) \div SEC_SIZE = off \div SEC_SIZE
<1>1. MAX_POST \in Nat \ {0} /\ SEC_SIZE \in Nat \ {0} /\ SEC_SIZE % MAX_POST = 0
  BY HttpdAssumption
<1>. DEFINE m == MAX_POST
            z == SEC_SIZE
            n == z \div m
<1>2. z = m * n /\ n \in Nat \ {0}
  <2>1. z = m * n + (z % m) /\ n \in Int
    BY <1>1
  <2>. HIDE DEF n
  <2>. QED BY <1>1, <2>1
<1>. HIDE DEF n
<1>3. PICK c \in Nat, r \in 0..n - 1 : j * m = z * c + m * r /\ m * r + m <= z
  <2>1. Fits(m, n, j)
    BY <1>1, <1>2, OneSector
  <2>. QED BY <1>2, <2>1 DEF Fits
<1>. DEFINE f == m * r
<1>4. off = z * c + f /\ f \in Nat /\ f + m <= z /\ off \in Nat
  BY <1>1, <1>2, <1>3
<1>. HIDE DEF f
<1>5. off \div z = c /\ off % z = f
  <2>1. f \in 0..z - 1
    BY <1>1, <1>4
  <2>. QED BY <1>1, <1>4, <2>1, Quotient
<1>6. \A a \in off .. off + m - 1 : a \div z = off \div z
  <2>. SUFFICES ASSUME NEW a \in off .. off + m - 1 PROVE a \div z = c
    BY <1>5
  <2>. DEFINE e == f + (a - off)
  <2>1. e \in 0..z - 1 /\ a = z * c + e /\ a \in Int
    BY <1>1, <1>4
  <2>. HIDE DEF e
  <2>. QED BY <1>1, <2>1, Quotient
<1>7. ASSUME off % z = 0, NEW a \in Int, a < off PROVE a \div z # off \div z
  <2>1. f = 0
    BY <1>5, <1>7
  <2>2. off = z * c
    BY <1>1, <1>4, <2>1
  <2>. DEFINE d == a \div z
              e == a % z
  <2>3. a = z * d + e /\ d \in Int /\ e \in 0..z - 1
    BY <1>1
  <2>. HIDE DEF d, e
  <2>4. d # c
    BY <1>1, <1>7, <2>2, <2>3
  <2>. QED BY <1>5, <2>4 DEF d
<1>8. ASSUME (off + m) % z # 0 PROVE (off + m) \div z = off \div z
  <2>1. f + m # z
    <3>1. ASSUME f + m = z PROVE FALSE
      <4>1. off + m = z * (c + 1) + 0 /\ off + m \in Int
        BY <1>1, <1>4, <3>1
      <4>2. 0 \in 0..z - 1 /\ c + 1 \in Int
        BY <1>1
      <4>3. (off + m) % z = 0
        BY <1>1, <4>1, <4>2, Quotient
      <4>. QED BY <1>8, <4>3
    <3>. QED BY <3>1
  <2>. DEFINE e == f + m
  <2>2. e \in 0..z - 1 /\ off + m = z * c + e /\ off + m \in Int
    BY <1>1, <1>4, <2>1
  <2>. HIDE DEF e
  <2>. DEFINE x == off + m
  <2>3. x \in Int /\ x = z * c + e /\ z \in Nat \ {0} /\ c \in Int
    BY <1>1, <2>2
  <2>. HIDE DEF x
  <2>4. x \div z = c
    BY <2>2, <2>3, Quotient
  <2>. QED BY <1>5, <2>4 DEF x
<1>. QED
  BY <1>6, <1>7, <1>8

\* What has been written, and a buffer more.
Writes(f, g, body, j, off, data) ==
    /\ f \in [Addresses -> Cells] /\ j \in Nat /\ off = j * MAX_POST /\ Stored(body, off, f)
    /\ data \in Seq(Units) /\ Len(data) <= MAX_POST
    /\ \A m \in 1..Len(data) : data[m] = <<body, off + m>>
    /\ g = Written(f, off, data, off % SEC_SIZE = 0)

LEMMA StoredMore ==
    ASSUME NEW f, NEW g, NEW body, NEW j, NEW off, NEW data, Writes(f, g, body, j, off, data)
    PROVE  /\ \A k \in 1 .. off + Len(data) : k - 1 \in Addresses => g[k - 1] = <<body, k>>
           /\ Len(data) = MAX_POST => Stored(body, off + MAX_POST, g)
<1>. /\ f \in [Addresses -> Cells] /\ j \in Nat /\ off = j * MAX_POST /\ Stored(body, off, f)
     /\ data \in Seq(Units) /\ Len(data) <= MAX_POST
     /\ \A m \in 1..Len(data) : data[m] = <<body, off + m>>
     /\ g = Written(f, off, data, off % SEC_SIZE = 0)
  BY DEF Writes
<1>. DEFINE last == off + Len(data) - 1
            sector(a) == a \div SEC_SIZE
            erases == off % SEC_SIZE = 0
            erased(a) == IF erases /\ sector(a) = sector(off) THEN Erased ELSE f[a]
<1>1. /\ MAX_POST \in Nat \ {0} /\ SEC_SIZE \in Nat \ {0} /\ off \in Nat /\ Len(data) \in Nat
      /\ \A a \in Addresses : a \in Int
  <2>1. MAX_POST \in Nat \ {0} /\ SEC_SIZE \in Nat \ {0}
    BY HttpdAssumption
  <2>2. off \in Nat
    BY <2>1
  <2>3. \A a \in Addresses : a \in Int
    BY DEF Addresses
  <2>4. Len(data) \in Nat
    OBVIOUS
  <2>. QED BY <2>1, <2>2, <2>3, <2>4
<1>2. /\ \A a \in off .. off + MAX_POST - 1 : sector(a) = sector(off)
      /\ erases => \A a \in Int : a < off => sector(a) # sector(off)
      /\ (off + MAX_POST) % SEC_SIZE # 0 => sector(off + MAX_POST) = sector(off)
  BY Sectors
<1>3. \A a \in Addresses :
         g[a] = IF a \in off..last
                THEN IF erased(a) = Erased THEN data[a - off + 1] ELSE <<"garbage">>
                ELSE erased(a)
  BY DEF Written
<1>4. /\ \A k \in 1..off : k - 1 \in Addresses => f[k - 1] = <<body, k>>
      /\ \A a \in Addresses : ~erases /\ a >= off /\ sector(a) = sector(off) => f[a] = Erased
  BY DEF Stored
<1>. HIDE DEF sector, erases
<1>5. \A a \in Addresses : a >= off /\ sector(a) = sector(off) => erased(a) = Erased
  BY <1>4
<1>6. ASSUME NEW k \in 1 .. off + Len(data), k - 1 \in Addresses PROVE g[k - 1] = <<body, k>>
  <2>. DEFINE a == k - 1
  <2>1. a \in Int /\ k = a + 1
    BY <1>6, <1>1
  <2>2. CASE k <= off
    <3>1. a \notin off..last /\ a < off /\ k \in 1..off
      <4>1. k \in Int /\ 1 <= k /\ a \in Int /\ k = a + 1 /\ off \in Nat
        BY <1>1, <2>1
      <4>. HIDE DEF a, last
      <4>2. a < off /\ k \in 1..off
        BY <2>2, <4>1
      <4>. QED BY <4>2
    <3>2. erased(a) = f[a]
      BY <1>2, <2>1, <3>1
    <3>. QED BY <1>3, <1>4, <1>6, <3>1, <3>2
  <2>3. CASE k > off
    <3>1. a \in off..last /\ a \in off .. off + MAX_POST - 1 /\ a >= off
      BY <1>1, <2>3
    <3>2. erased(a) = Erased
      BY <1>2, <1>5, <1>6, <3>1
    <3>3. g[a] = data[a - off + 1]
      BY <1>3, <1>6, <3>1, <3>2
    <3>4. a - off + 1 \in 1..Len(data) /\ off + (a - off + 1) = k
      BY <1>1, <2>3
    <3>. QED BY <3>3, <3>4
  <2>. QED BY <1>1, <2>2, <2>3
<1>7. ASSUME Len(data) = MAX_POST PROVE Stored(body, off + MAX_POST, g)
  <2>1. ASSUME NEW a \in Addresses, (off + MAX_POST) % SEC_SIZE # 0, a >= off + MAX_POST,
               sector(a) = sector(off + MAX_POST)
        PROVE  g[a] = Erased
    <3>1. sector(a) = sector(off)
      BY <1>2, <2>1
    <3>2. a \notin off..last /\ a >= off
      <4>1. a \in Int /\ off \in Nat /\ MAX_POST \in Nat /\ last = off + MAX_POST - 1
        BY <1>1, <1>7
      <4>2. a >= off + MAX_POST
        BY <2>1
      <4>. HIDE DEF last
      <4>. QED BY <4>1, <4>2
    <3>. QED BY <1>3, <1>5, <3>1, <3>2
  <2>2. \A k \in 1 .. off + MAX_POST : k - 1 \in Addresses => g[k - 1] = <<body, k>>
    BY <1>6, <1>7
  <2>. QED BY <2>1, <2>2 DEF Stored, sector
<1>. QED
  BY <1>6, <1>7

\* A file of n units is sent in chunks, the last of which is shorter.
LEMMA ChunkCount ==
    ASSUME NEW n \in Nat, NEW k \in Nat, k * CHUNK <= n
    PROVE  /\ CHUNK * (k + 1) <= n =>
                /\ Len(Chunks(n)) >= k + 1 /\ Chunks(n)[k + 1] = CHUNK
           /\ n < CHUNK * (k + 1) =>
                Len(Chunks(n)) = (IF n > k * CHUNK THEN k + 1 ELSE k)
           /\ n < CHUNK * (k + 1) /\ n > k * CHUNK => Chunks(n)[k + 1] = n - k * CHUNK
<1>. DEFINE z == CHUNK
            c == (n + z - 1) \div z
            e == (n + z - 1) % z
<1>1. z \in Nat \ {0}
  BY HttpdAssumption
<1>2. n + z - 1 = z * c + e /\ c \in Nat /\ e \in 0..z - 1
  <2>1. n + z - 1 \in Nat
    BY <1>1
  <2>. QED BY <1>1, <2>1
<1>3. Chunks(n) = [m \in 1..c |-> Min2(z, n - (m - 1) * z)]
  BY DEF Chunks
<1>. HIDE DEF c, e
<1>4. Len(Chunks(n)) = c
  <2>. DEFINE F(m) == Min2(z, n - (m - 1) * z)
  <2>. HIDE DEF F
  <2>1. Len([m \in 1..c |-> F(m)]) = c
    BY <1>2
  <2>. QED BY <1>3, <2>1 DEF F
<1>5. k + 1 <= c => Chunks(n)[k + 1] = Min2(z, n - k * z)
  <2>1. k + 1 <= c => k + 1 \in 1..c /\ (k + 1) - 1 = k
    BY <1>2
  <2>. QED BY <1>3, <2>1
<1>6. ASSUME n > z * k PROVE k + 1 <= c
  <2>1. z * c > z * k - 0 \/ z * c >= z * k
    BY <1>1, <1>2, <1>6
  <2>2. z * c > z * k
    <3>1. z * c = n + z - 1 - e /\ z - 1 - e >= 0
      BY <1>1, <1>2
    <3>. QED BY <1>1, <1>2, <1>6, <3>1
  <2>3. z * (c - k) > 0
    BY <1>1, <1>2, <2>2
  <2>4. c - k > 0
    BY <1>1, <1>2, <2>3
  <2>. QED BY <1>2, <2>4
<1>7. ASSUME n < z * (k + 1) PROVE c <= k + 1
  <2>1. z * c < z * (k + 2)
    <3>1. z * c <= n + z - 1
      BY <1>1, <1>2
    <3>2. z * (k + 1) + z = z * (k + 2)
      BY <1>1
    <3>. QED BY <1>1, <1>2, <1>7, <3>1, <3>2
  <2>2. z * (k + 2 - c) > 0
    BY <1>1, <1>2, <2>1
  <2>3. k + 2 - c > 0
    BY <1>1, <1>2, <2>2
  <2>. QED BY <1>2, <2>3
<1>8. ASSUME n = z * k PROVE c = k
  <2>1. n + z - 1 = z * k + (z - 1) /\ z - 1 \in 0..z - 1 /\ n + z - 1 \in Int
    BY <1>1, <1>8
  <2>. QED BY <1>1, <2>1, Quotient DEF c
<1>9. k * z = z * k /\ z * (k + 1) = z * k + z /\ z * k \in Nat
  BY <1>1
<1>. DEFINE y == z * k
<1>10. n > y => k + 1 <= c
  BY <1>6
<1>11. n < y + z => c <= k + 1
  BY <1>7, <1>9
<1>12. n = y => c = k
  BY <1>8
<1>13. k * z = y /\ z * (k + 1) = y + z /\ y \in Nat /\ y <= n
  BY <1>9
<1>. HIDE DEF y
<1>14. y + z <= n => c >= k + 1 /\ Min2(z, n - y) = z
  BY <1>1, <1>10, <1>13 DEF Min2
<1>15. n < y + z => c = (IF n > y THEN k + 1 ELSE k)
  BY <1>1, <1>2, <1>10, <1>11, <1>12, <1>13
<1>16. n < y + z => Min2(z, n - y) = n - y
  BY <1>1, <1>13 DEF Min2
<1>. QED
  BY <1>4, <1>5, <1>10, <1>13, <1>14, <1>15, <1>16

-----------------------------------------------------------------------------
(* What a request comes to when its handler is called *)

\* The buffer is full, or all has arrived.
Handed(q, so, left) ==
    /\ Buffered(q, so, left) /\ Waiting(so)
    /\ Len(q.buff) <= MAX_POST
    /\ Len(q.buff) = MAX_POST \/ left = 0
    /\ so.req.clen > 0 => q.received > 0

\* The buffer has been written, and is about to be emptied.
Ready(q, so, left, f) ==
    /\ Uploading(q, so, left) /\ Len(q.buff) = MAX_POST
    /\ Stored(so.req.body, q.received, f)

\* An upload that was answered with success is in flash.
InPlace(req, f) == \A k \in 1..req.clen : k - 1 \in Addresses => f[k - 1] = <<req.body, k>>
Intact(so, f) ==
    so.answers = <<"200">> /\ Found(so.req).cgi = "firmware" => InPlace(so.req, f)

Outcome(w, v, i, s, left) ==
    /\ v \in Worlds /\ v.out = <<>> /\ Aside(w, v, i, s) /\ SameEnds(w, v)
    /\ Found(w.sock[s].req).cgi # "firmware" => v.flash = w.flash
    /\ Taken(v.slot[i], v.sock[s], left) \/ Ready(v.slot[i], v.sock[s], left, v.flash)
    /\ Intact(v.sock[s], v.flash)

Serving(w, i, s) ==
    /\ w \in Worlds /\ w.out = <<>> /\ w.slot[i].conn = s /\ SlotOK(w.slot[i])

Closed(called, i) ==
    IF called.r = "MORE" THEN httpdFlush(called, i) ELSE Finished(httpdFlush(called, i), i)

LEMMA FoundParts ==
    ASSUME NEW req
    PROVE  /\ Found(req).cgi \in {"NULL", "file", "firmware", "json"}
           /\ Found(req).cgi = "firmware" <=> req.url = "/flash/upload"
           /\ Found(req).cgi \in {"firmware", "json"} => ~Refused(req)
BY DEF Found, Refused, builtInUrls

LEMMA AnswerSets ==
    ASSUME NEW req
    PROVE  /\ Refused(req) => Answers(req) = {<<"401">>}
           /\ Found(req).cgi = "NULL" /\ ~Refused(req) => Answers(req) = {<<"404">>}
           /\ Found(req).cgi = "firmware" => Answers(req) =
                {IF req.clen = 0 \/ req.body = "bad" THEN <<"400">> ELSE <<"200">>}
           /\ Found(req).cgi = "json" /\ req.body # "submit" => Answers(req) = {<<"200">>, <<"500">>}
           /\ Found(req).cgi = "json" /\ req.body = "submit" => Answers(req) =
                {IF req.clen > MAX_POST THEN <<"400">> ELSE <<"204">>, <<"500">>}
           /\ Found(req).cgi = "file" /\ ~Refused(req) => Answers(req) = {Whole(req)}
<1>. DEFINE found == builtInUrls(req.url)
<1>1. Found(req) = found /\ (Refused(req) <=> found.auth /\ ~req.auth)
  BY DEF Found, Refused
<1>2. Answers(req) =
        CASE found.auth /\ ~req.auth  -> {<<"401">>}
          [] found.cgi = "NULL"       -> {<<"404">>}
          [] found.cgi = "firmware"   -> {IF req.clen = 0 \/ req.body = "bad" THEN <<"400">> ELSE <<"200">>}
          [] found.cgi = "json"       -> IF req.body # "submit" THEN {<<"200">>, <<"500">>}
                                         ELSE {IF req.clen > MAX_POST THEN <<"400">> ELSE <<"204">>, <<"500">>}
          [] found.cgi = "file" /\ (req.auth \/ ~found.auth) -> {Whole(req)}
  BY DEF Answers, Whole
<1>3. Found(req).cgi \in {"firmware", "json"} => ~Refused(req)
  BY FoundParts
<1>. HIDE DEF found
<1>4. Refused(req) /\ found.cgi = "NULL" => FALSE
  BY <1>1 DEF found, builtInUrls
<1>. QED
  BY <1>1, <1>2, <1>3, <1>4

LEMMA StoredNothing ==
    ASSUME NEW body, NEW f
    PROVE  Stored(body, 0, f)
<1>1. 0 % SEC_SIZE = 0
  BY HttpdAssumption
<1>. QED
  BY <1>1 DEF Stored

\* The handler has left a code to be sent, and is done.
Coded(w, called, i, s, code) ==
    /\ called \in Worlds /\ called.sock = w.sock /\ called.slot[i].conn = s
    /\ Aside(w, called, i, s) /\ called.r = "DONE" /\ called.out = <<code>>
    /\ <<code>> \in Answers(w.sock[s].req)
    /\ Found(w.sock[s].req).cgi # "firmware" => called.flash = w.flash
    /\ code = "200" /\ Found(w.sock[s].req).cgi = "firmware" => InPlace(w.sock[s].req, called.flash)

LEMMA CodeOutcome ==
    ASSUME NEW w, NEW i \in Slots, NEW s \in Socks, Serving(w, i, s), Waiting(w.sock[s]),
           NEW called, NEW code, Coded(w, called, i, s, code), NEW left
    PROVE  Outcome(w, Closed(called, i), i, s, left)
<1>. DEFINE v == Finished(httpdFlush(called, i), i)
<1>1. Closed(called, i) = v
  BY DEF Closed, Coded
<1>2. EndsWith(called, v, i, s, left, code)
  BY Answered DEF Coded
<1>. HIDE DEF v
<1>3. SameEnds(w, v) /\ Aside(w, v, i, s)
  BY <1>2, AsideTwice DEF EndsWith, SameEnds, Coded
<1>4. Intact(v.sock[s], v.flash)
  BY <1>2, <1>3 DEF EndsWith, SameEnds, Coded, Intact
<1>. QED
  BY <1>1, <1>2, <1>3, <1>4 DEF Outcome, EndsWith, Taken, Coded

LEMMA UploadOutcome ==
    ASSUME NEW w, NEW i \in Slots, NEW s \in Socks, Serving(w, i, s), NEW left,
           w.slot[i].cgi = "firmware", Found(w.sock[s].req).cgi = "firmware",
           Handed(w.slot[i], w.sock[s], left),
           \/ w.slot[i].received = Len(w.slot[i].buff)
           \/ /\ ~w.slot[i].priv /\ w.sock[s].req.body # "bad"
              /\ Stored(w.sock[s].req.body, w.slot[i].received - Len(w.slot[i].buff), w.flash)
    PROVE  Outcome(w, Closed(cgiUploadFirmware(w, i), i), i, s, left)
<1>. DEFINE q == w.slot[i]
            req == w.sock[s].req
            off == q.received - Len(q.buff)
            called == cgiUploadFirmware(w, i)
            p == called.slot[i]
<1>. SUFFICES Outcome(w, Closed(called, i), i, s, left)
  OBVIOUS
<1>1. w \in Worlds /\ SlotOK(q) /\ q.conn = s /\ s # NoSock /\ w.out = <<>>
  BY HttpdAssumption DEF Serving
<1>2. Uploads(w, called, i)
  BY <1>1, FirmwareUploads
<1>. HIDE DEF called
<1>. DEFINE n == Len(q.buff)
            c == q.received
<1>3. /\ q.len = req.clen /\ c = req.clen - left /\ left \in 0..req.clen /\ off = c - n
      /\ n <= MAX_POST /\ n \in Nat /\ (n = MAX_POST \/ left = 0)
      /\ req.clen > 0 => c > 0
      /\ req.clen \in Nat /\ c \in Int /\ MAX_POST \in Nat \ {0}
  <2>1. q \in Slot /\ w.sock[s] \in Sock
    BY <1>1, WorldParts
  <2>2. q.buff \in Seq(Units) /\ c \in Int /\ req \in Asked
    BY <2>1, SlotParts DEF Sock
  <2>3. req.clen \in Nat /\ MAX_POST \in Nat \ {0} /\ n \in Nat
    BY <2>2, AskedParts, HttpdAssumption
  <2>4. /\ q.len = req.clen /\ c = req.clen - left /\ left \in 0..req.clen
        /\ n <= MAX_POST /\ (n = MAX_POST \/ left = 0)
        /\ req.clen > 0 => c > 0
    BY DEF Handed, Buffered
  <2>. QED BY <2>2, <2>3, <2>4
<1>4. PICK j \in Nat : c = j * MAX_POST + n
  BY DEF Handed, Buffered
<1>5. off = j * MAX_POST
  <2>. DEFINE y == j * MAX_POST
  <2>. HIDE DEF n, c, off
  <2>1. c = y + n /\ y \in Int
    BY <1>3, <1>4
  <2>. HIDE DEF y
  <2>2. off = y
    BY <1>3, <2>1
  <2>. QED BY <2>2 DEF y
<1>6. \A m \in 1..Len(q.buff) : q.buff[m] = <<req.body, off + m>>
  BY DEF Handed, Buffered
<1>7. Waiting(w.sock[s])
  BY DEF Handed
<1>8. Stored(req.body, off, w.flash) /\ (off # 0 => req.body # "bad" /\ ~q.priv)
  <2>1. CASE q.received = Len(q.buff)
    <3>1. off = 0
      <4>. HIDE DEF n, c, off
      <4>1. c = n
        BY <2>1 DEF n, c
      <4>. QED BY <1>3, <4>1
    <3>. QED BY <3>1, StoredNothing
  <2>2. CASE q.received # Len(q.buff)
    BY <2>2
  <2>. QED BY <2>1, <2>2
<1>9. off = 0 /\ q.len # 0 => Len(q.buff) >= 1 /\ q.buff[1][1] = req.body
  <2>. SUFFICES ASSUME off = 0, q.len # 0 PROVE Len(q.buff) >= 1 /\ q.buff[1][1] = req.body
    OBVIOUS
  <2>1. n >= 1 /\ 1 \in 1..n
    <3>1. req.clen # 0 /\ off = 0
      BY <1>3
    <3>. HIDE DEF n, c, off
    <3>. QED BY <1>3, <3>1
  <2>2. q.buff[1] = <<req.body, off + 1>>
    BY <1>6, <2>1
  <2>. QED BY <2>1, <2>2
<1>10. Answers(req) = {IF req.clen = 0 \/ req.body = "bad" THEN <<"400">> ELSE <<"200">>}
  BY AnswerSets
<1>11. /\ called \in Worlds /\ called.sock = w.sock /\ p.conn = s /\ Aside(w, called, i, s)
       /\ SameRequest(q, p)
  BY <1>1, <1>2 DEF Uploads, SameRequest, Aside
<1>12. ~(off # 0 /\ q.priv)
  BY <1>8
<1>13. CASE Refuses(q) /\ called.r = "DONE" /\ called.out = Append(w.out, "400") /\ called.flash = w.flash
  <2>1. req.clen = 0 \/ req.body = "bad"
    <3>1. q.len = 0 \/ (off = 0 /\ q.buff[1][1] = "bad")
      BY <1>13 DEF Refuses
    <3>. QED BY <1>3, <1>9, <3>1
  <2>2. called.out = <<"400">> /\ <<"400">> \in Answers(req) /\ "400" # "200"
    BY <1>1, <1>10, <1>13, <2>1
  <2>3. Coded(w, called, i, s, "400")
    BY <1>11, <1>13, <2>2 DEF Coded
  <2>. QED BY <1>7, <2>3, CodeOutcome
<1>14. CASE /\ ~Refuses(q) /\ ~p.priv
            /\ called.flash = Written(w.flash, off, q.buff, off % SEC_SIZE = 0)
            /\ IF q.received = q.len THEN called.r = "DONE" /\ called.out = Append(w.out, "200")
               ELSE called.r = "MORE" /\ called.out = w.out
  <2>1. req.clen # 0 /\ req.body # "bad"
    <3>1. q.len # 0 /\ ~(off = 0 /\ q.buff[1][1] = "bad")
      BY <1>14 DEF Refuses
    <3>. QED BY <1>3, <1>8, <1>9, <3>1
  <2>2. /\ \A k \in 1 .. off + n : k - 1 \in Addresses => called.flash[k - 1] = <<req.body, k>>
        /\ n = MAX_POST => Stored(req.body, off + MAX_POST, called.flash)
    <3>. DEFINE f == w.flash
                data == q.buff
                g == called.flash
                body == req.body
    <3>1. f \in [Addresses -> Cells] /\ g = Written(f, off, data, off % SEC_SIZE = 0)
      BY <1>1, <1>14, WorldParts
    <3>0. q.buff \in Seq(Units)
      BY <1>1, WorldParts, SlotParts
    <3>2. /\ data \in Seq(Units) /\ Len(data) <= MAX_POST /\ Stored(body, off, f)
          /\ \A m \in 1..Len(data) : data[m] = <<body, off + m>>
      BY <1>3, <1>6, <1>8, <3>0
    <3>. HIDE DEF f, data, g, body, off
    <3>3. /\ \A k \in 1 .. off + Len(data) : k - 1 \in Addresses => g[k - 1] = <<body, k>>
          /\ Len(data) = MAX_POST => Stored(body, off + MAX_POST, g)
      <4>1. Writes(f, g, body, j, off, data)
        BY <1>5, <3>1, <3>2 DEF Writes
      <4>. QED BY <4>1, StoredMore
    <3>. QED BY <3>3 DEF f, data, g, body
  <2>3. off + n = c
    <3>. HIDE DEF n, c, off
    <3>. QED BY <1>3
  <2>4. CASE q.received = q.len
    <3>1. called.out = <<"200">> /\ called.r = "DONE" /\ <<"200">> \in Answers(req)
      BY <1>1, <1>10, <1>14, <2>1, <2>4
    <3>2. InPlace(req, called.flash)
      <4>1. c = req.clen
        BY <1>3, <2>4
      <4>. QED BY <2>2, <2>3, <4>1 DEF InPlace
    <3>3. Coded(w, called, i, s, "200")
      BY <1>11, <3>1, <3>2 DEF Coded
    <3>. QED BY <1>7, <3>3, CodeOutcome
  <2>5. CASE q.received # q.len
    <3>. DEFINE v == httpdFlush(called, i)
    <3>1. Closed(called, i) = v /\ called.out = <<>>
      BY <1>1, <1>14, <2>5 DEF Closed
    <3>2. Flushes(called, v, i, s)
      BY <1>11, Flushed
    <3>. HIDE DEF v
    <3>3. v.sock = w.sock /\ v.slot[i] = p /\ v.flash = called.flash
      BY <1>11, <3>1, <3>2 DEF Flushes
    <3>4. Aside(w, v, i, s) /\ SameEnds(w, v)
      BY <1>11, <3>2, <3>3, AsideTwice DEF Flushes, SameEnds
    <3>5. left > 0 /\ n = MAX_POST
      <4>1. c # req.clen
        BY <1>3, <2>5
      <4>. HIDE DEF n, c, off
      <4>. QED BY <1>3, <4>1
    <3>6. Buffered(q, w.sock[s], left)
      BY DEF Handed
    <3>7. Uploading(p, w.sock[s], left)
      BY <1>7, <1>11, <1>14, <2>1, <3>5, <3>6 DEF Uploading, SameRequest, Buffered
    <3>8. Ready(p, w.sock[s], left, v.flash)
      <4>1. off + MAX_POST = q.received
        BY <2>3, <3>5
      <4>. QED BY <1>11, <2>2, <3>3, <3>5, <3>7, <4>1 DEF Ready, SameRequest
    <3>9. Intact(v.sock[s], v.flash)
      <4>1. v.sock[s].answers = <<>>
        BY <1>7, <3>3 DEF Waiting
      <4>2. <<>> # <<"200">>
        OBVIOUS
      <4>. QED BY <4>1, <4>2 DEF Intact
    <3>10. v \in Worlds /\ v.out = <<>>
      BY <3>2 DEF Flushes
    <3>. QED BY <3>1, <3>3, <3>4, <3>8, <3>9, <3>10 DEF Outcome
  <2>. QED BY <2>4, <2>5
<1>. QED
  BY <1>2, <1>12, <1>13, <1>14 DEF Uploads

\* The handler wants to be called again, and has nothing to be sent.
LEMMA MoreOutcome ==
    ASSUME NEW w, NEW i \in Slots, NEW s \in Socks, Serving(w, i, s), Waiting(w.sock[s]),
           NEW called \in Worlds, called.sock = w.sock, called.slot[i].conn = s,
           Aside(w, called, i, s), called.r = "MORE", called.out = <<>>, NEW left,
           Found(w.sock[s].req).cgi # "firmware" => called.flash = w.flash,
           \/ Asking(called.slot[i], w.sock[s])
           \/ Ready(called.slot[i], w.sock[s], left, called.flash)
    PROVE  Outcome(w, Closed(called, i), i, s, left)
<1>. DEFINE v == httpdFlush(called, i)
<1>. SUFFICES Outcome(w, v, i, s, left)
  BY DEF Closed
<1>1. Flushes(called, v, i, s)
  BY Flushed
<1>. HIDE DEF v
<1>2. v.sock = w.sock /\ v.slot = called.slot /\ v.flash = called.flash /\ v \in Worlds /\ v.out = <<>>
  BY <1>1 DEF Flushes
<1>3. Aside(w, v, i, s) /\ SameEnds(w, v)
  BY <1>1, <1>2, AsideTwice DEF Flushes, SameEnds
<1>4. Intact(v.sock[s], v.flash)
  <2>1. v.sock[s].answers = <<>>
    BY <1>2 DEF Waiting
  <2>2. <<>> # <<"200">>
    OBVIOUS
  <2>. QED BY <2>1, <2>2 DEF Intact
<1>. QED
  BY <1>2, <1>3, <1>4 DEF Outcome, Taken

LEMMA JsonOutcome ==
    ASSUME NEW w, NEW i \in Slots, NEW s \in Socks, Serving(w, i, s), NEW left,
           w.slot[i].cgi = "json", Found(w.sock[s].req).cgi = "json", Waiting(w.sock[s]),
           w.slot[i].req = w.sock[s].req, w.slot[i].len >= 0,
           w.slot[i].data = NULL =>
              Handed(w.slot[i], w.sock[s], left) /\ w.slot[i].received = Len(w.slot[i].buff),
           w.slot[i].data # NULL => w.sock[s].req.body # "submit"
    PROVE  Outcome(w, Closed(WEB_CgiJsonHook(w, i), i), i, s, left)
<1>. DEFINE q == w.slot[i]
            req == w.sock[s].req
            called == WEB_CgiJsonHook(w, i)
            p == called.slot[i]
<1>. SUFFICES Outcome(w, Closed(called, i), i, s, left)
  OBVIOUS
<1>1. w \in Worlds /\ SlotOK(q) /\ q.conn = s /\ s # NoSock /\ w.out = <<>>
  BY HttpdAssumption DEF Serving
<1>2. Asks(w, called, i)
  BY <1>1, JsonAsks
<1>. HIDE DEF called
<1>3. /\ called \in Worlds /\ called.sock = w.sock /\ p.conn = s /\ Aside(w, called, i, s)
      /\ SameRequest(q, p) /\ p.data # NULL /\ called.flash = w.flash
  BY <1>1, <1>2 DEF Asks, SameRequest, Aside
<1>4. /\ req.body # "submit" => Answers(req) = {<<"200">>, <<"500">>}
      /\ req.body = "submit" => Answers(req) =
                {IF req.clen > MAX_POST THEN <<"400">> ELSE <<"204">>, <<"500">>}
  BY AnswerSets
<1>5. CASE called.r = "MORE" /\ called.out = w.out /\ (q.data = NULL => q.req.body # "submit")
  <2>1. Asking(p, w.sock[s])
    BY <1>3, <1>5 DEF Asking, SameRequest
  <2>. QED BY <1>1, <1>3, <1>5, <2>1, MoreOutcome
<1>6. CASE called.r = "DONE" /\ called.out = Append(w.out, "200") /\ q.data # NULL
  <2>1. called.out = <<"200">> /\ <<"200">> \in Answers(req) /\ Found(req).cgi # "firmware"
    BY <1>1, <1>4, <1>6
  <2>2. Coded(w, called, i, s, "200")
    BY <1>3, <1>6, <2>1 DEF Coded
  <2>. QED BY <2>2, CodeOutcome
<1>7. CASE called.r = "DONE" /\ called.out = Append(w.out, "500")
  <2>1. called.out = <<"500">> /\ <<"500">> \in Answers(req) /\ Found(req).cgi # "firmware"
    BY <1>1, <1>4, <1>7
  <2>2. Coded(w, called, i, s, "500")
    BY <1>3, <1>7, <2>1 DEF Coded
  <2>. QED BY <2>2, CodeOutcome
<1>8. CASE /\ called.r = "DONE" /\ q.data = NULL /\ q.req.body = "submit"
           /\ called.out = Append(w.out, IF q.received < q.len THEN "400" ELSE "204")
  <2>. DEFINE n == Len(q.buff)
              c == q.received
              code == IF c < q.len THEN "400" ELSE "204"
  <2>1. /\ q.len = req.clen /\ c = req.clen - left /\ left \in 0..req.clen /\ c = n
        /\ n <= MAX_POST /\ (n = MAX_POST \/ left = 0)
    BY <1>8 DEF Handed, Buffered
  <2>2. n \in Nat /\ req.clen \in Nat /\ MAX_POST \in Nat
    <3>1. q \in Slot /\ w.sock[s] \in Sock
      BY <1>1, WorldParts
    <3>2. q.buff \in Seq(Units) /\ req \in Asked
      BY <3>1, SlotParts DEF Sock
    <3>. QED BY <3>2, AskedParts, HttpdAssumption
  <2>3. c < q.len <=> req.clen > MAX_POST
    <3>. HIDE DEF n, c
    <3>. QED BY <2>1, <2>2
  <2>4. called.out = <<code>>
    BY <1>1, <1>8
  <2>5. <<code>> \in Answers(req) /\ code # "200"
    BY <1>4, <1>8, <2>3
  <2>6. Coded(w, called, i, s, code)
    BY <1>3, <1>8, <2>4, <2>5 DEF Coded
  <2>. QED BY <2>6, CodeOutcome
<1>. QED
  BY <1>2, <1>5, <1>6, <1>7, <1>8 DEF Asks

LEMMA PrefixMore ==
    ASSUME NEW S, NEW a \in Seq(S), NEW k \in Nat, k + 1 <= Len(a)
    PROVE  SubSeq(a, 1, k + 1) = SubSeq(a, 1, k) \o <<a[k + 1]>>
<1>. DEFINE l == SubSeq(a, 1, k + 1)
            p == SubSeq(a, 1, k)
            r == p \o <<a[k + 1]>>
<1>1. l \in Seq(S) /\ Len(l) = k + 1 /\ \A m \in 1..k + 1 : l[m] = a[m]
  OBVIOUS
<1>2. p \in Seq(S) /\ Len(p) = k /\ \A m \in 1..k : p[m] = a[m]
  OBVIOUS
<1>3. a[k + 1] \in S
  OBVIOUS
<1>. HIDE DEF l, p
<1>4. /\ r \in Seq(S) /\ Len(r) = k + 1 /\ \A m \in 1..k : r[m] = p[m]
      /\ r[k + 1] = a[k + 1]
  BY <1>2, <1>3
<1>. HIDE DEF r
<1>5. \A m \in 1..k + 1 : l[m] = r[m]
  BY <1>1, <1>2, <1>4
<1>6. l = r
  BY <1>1, <1>4, <1>5
<1>. QED
  BY <1>6 DEF l, r, p

LEMMA WholeParts ==
    ASSUME NEW req, Found(req).cgi = "file"
    PROVE  LET c == Chunks(FileLen[req.url])
           IN  /\ Whole(req) \in Seq(Answer) /\ Len(Whole(req)) = 1 + Len(c) /\ Len(c) \in Nat
               /\ Whole(req)[1] = "200" /\ \A m \in 1..Len(c) : Whole(req)[m + 1] = c[m]
<1>. DEFINE c == Chunks(FileLen[req.url])
            F(m) == Min2(CHUNK, FileLen[req.url] - (m - 1) * CHUNK)
            k == (FileLen[req.url] + CHUNK - 1) \div CHUNK
<1>1. FileLen[req.url] \in Nat /\ CHUNK \in Nat \ {0}
  BY HttpdAssumption, UrlParts DEF Found
<1>2. FileLen[req.url] + CHUNK - 1 \in Nat
  BY <1>1
<1>3. k \in Nat
  BY <1>1, <1>2
<1>4. c = [m \in 1..k |-> F(m)]
  BY DEF Chunks
<1>5. \A m \in 1..k : F(m) \in Answer
  BY <1>1 DEF Answer, Min2
<1>. HIDE DEF F, k
<1>6. [m \in 1..k |-> F(m)] \in Seq(Answer)
  BY <1>3, <1>5
<1>7. c \in Seq(Answer)
  BY <1>4, <1>6
<1>8. <<"200">> \in Seq(Answer) /\ Whole(req) = <<"200">> \o c
  BY DEF Answer, Codes, Whole
<1>. HIDE DEF c
<1>9. /\ Whole(req) \in Seq(Answer) /\ Len(Whole(req)) = 1 + Len(c) /\ Len(c) \in Nat
      /\ Whole(req)[1] = "200" /\ \A m \in 1..Len(c) : Whole(req)[m + 1] = c[m]
  BY <1>7, <1>8
<1>. QED
  BY <1>9 DEF c

\* A file is opened.
LEMMA FileOutcome ==
    ASSUME NEW w, NEW i \in Slots, NEW s \in Socks, Serving(w, i, s),
           w.slot[i].cgi = "file", Found(w.sock[s].req).cgi = "file", Waiting(w.sock[s]),
           ~Refused(w.sock[s].req), w.slot[i].req = w.sock[s].req, w.slot[i].len >= 0,
           w.slot[i].data = NULL
    PROVE  Outcome(w, Closed(cgiEspFsHook(w, i), i), i, s, 0)
<1>. DEFINE q == w.slot[i]
            req == w.sock[s].req
            called == cgiEspFsHook(w, i)
            p == called.slot[i]
            v == httpdFlush(called, i)
<1>1. w \in Worlds /\ SlotOK(q) /\ q.conn = s /\ s # NoSock /\ w.out = <<>>
  BY HttpdAssumption DEF Serving
<1>2. Opens(w, called, i)
  BY <1>1, FileOpens
<1>3. Closed(called, i) = v
  BY <1>2 DEF Opens, Closed
<1>. SUFFICES Outcome(w, v, i, s, 0)
  BY <1>3
<1>. HIDE DEF called
<1>4. /\ called \in Worlds /\ called.sock = w.sock /\ p.conn = s /\ Aside(w, called, i, s)
      /\ SameRequest(q, p) /\ p.data = 0 /\ called.flash = w.flash /\ called.out = <<"200">>
  BY <1>1, <1>2 DEF Opens, SameRequest, Aside
<1>5. Flushes(called, v, i, s)
  BY <1>4, Flushed
<1>. HIDE DEF v
<1>6. Aside(w, v, i, s) /\ SameEnds(w, v)
  BY <1>4, <1>5, AsideTwice DEF Flushes, SameEnds
<1>7. v.sock[s].sent = 1 /\ v.sock[s].answers = <<"200">>
  <2>1. w.sock[s].sent = 0 /\ w.sock[s].answers = <<>>
    BY DEF Waiting
  <2>2. v.sock[s].sent = w.sock[s].sent + 1 /\ v.sock[s].answers = w.sock[s].answers \o <<"200">>
    BY <1>4, <1>5 DEF Flushes
  <2>3. <<>> \o <<"200">> = <<"200">>
    OBVIOUS
  <2>. QED BY <2>1, <2>2, <2>3
<1>8. <<"200">> = SubSeq(Whole(req), 1, 1)
  <2>. DEFINE a == Whole(req)
  <2>1. a \in Seq(Answer) /\ 0 + 1 <= Len(a) /\ a[1] = "200"
    BY WholeParts
  <2>. HIDE DEF a
  <2>2. SubSeq(a, 1, 0 + 1) = SubSeq(a, 1, 0) \o <<a[0 + 1]>>
    BY <2>1, PrefixMore
  <2>3. SubSeq(a, 1, 0) = <<>> /\ <<>> \o <<"200">> = <<"200">> /\ 0 + 1 = 1
    BY <2>1
  <2>. QED BY <2>1, <2>2, <2>3 DEF a
<1>9. Sending(p, v.sock[s], 0, 1)
  <2>1. FileLen[req.url] \in Nat /\ CHUNK \in Nat \ {0}
    BY HttpdAssumption, UrlParts DEF Found
  <2>2. 0 = 0 * CHUNK /\ 0 <= FileLen[req.url] /\ 0 + 1 = 1
    BY <2>1
  <2>3. v.sock[s].req = req /\ v.sock[s].st = "up"
    BY <1>6 DEF SameEnds, Waiting
  <2>4. \E k \in Nat : /\ p.data = k * CHUNK /\ p.data <= FileLen[req.url]
                       /\ v.sock[s].answers = SubSeq(Whole(req), 1, k + 1)
    <3>1. /\ p.data = 0 * CHUNK /\ p.data <= FileLen[req.url]
          /\ v.sock[s].answers = SubSeq(Whole(req), 1, 0 + 1)
      BY <1>4, <1>7, <1>8, <2>2
    <3>2. 0 \in Nat
      OBVIOUS
    <3>. QED BY <3>1, <3>2, Zenon
  <2>5. p.cgi = "file" /\ p.req = req /\ p.len >= 0
    BY <1>4 DEF SameRequest
  <2>. QED BY <1>7, <2>3, <2>4, <2>5 DEF Sending
<1>10. v \in Worlds /\ v.out = <<>> /\ v.flash = w.flash /\ v.slot[i] = p
  BY <1>4, <1>5 DEF Flushes
<1>11. Intact(v.sock[s], v.flash)
  BY <1>6 DEF Intact, SameEnds
<1>. QED
  BY <1>6, <1>9, <1>10, <1>11 DEF Outcome, Taken

\* v is w with handler c at place i.
HandlerAt(w, v, i, c) ==
    LET q == w.slot[i]
        p == v.slot[i]
    IN  /\ Puts(w, v, i, p)
        /\ p.conn = q.conn /\ p.req = q.req /\ p.len = q.len /\ p.buff = q.buff
        /\ p.buffSize = q.buffSize /\ p.received = q.received
        /\ p.data = NULL /\ p.cgi = c

LEMMA HandlerPut ==
    ASSUME NEW w \in Worlds, NEW i \in Slots, NEW c \in {"NULL", "file", "firmware", "json"}
    PROVE  HandlerAt(w, [w EXCEPT !.slot[i].data = NULL, !.slot[i].cgi = c], i, c)
<1>. DEFINE q == w.slot[i]
            a == [q EXCEPT !.data = NULL]
            p == [a EXCEPT !.cgi = c]
            v == [w EXCEPT !.slot[i].data = NULL, !.slot[i].cgi = c]
<1>1. q \in Slot /\ NULL \in Int
  BY WorldParts DEF NULL
<1>2. a \in Slot /\ SameRequest(q, a) /\ a.data = NULL
  BY <1>1 DEF Slot, SameRequest
<1>3. v = SlotPut(w, i, p)
  BY DEF SlotPut, Worlds
<1>. HIDE DEF a, q
<1>4. /\ p \in Slot
      /\ p.conn = a.conn /\ p.req = a.req /\ p.len = a.len /\ p.buff = a.buff
      /\ p.buffSize = a.buffSize /\ p.received = a.received
      /\ p.data = a.data /\ p.cgi = c
  BY <1>2 DEF Slot
<1>. HIDE DEF p, v
<1>5. Puts(w, v, i, p)
  BY <1>3, <1>4, PutParts
<1>6. v.slot[i] = p
  BY <1>5 DEF Puts
<1>. QED
  BY <1>2, <1>4, <1>5, <1>6 DEF v, q, SameRequest, HandlerAt

\* Nothing before w is lost.
LEMMA OutcomeFrom ==
    ASSUME NEW w, NEW u, NEW v, NEW i \in Slots, NEW s \in Socks, NEW left,
           Outcome(u, v, i, s, left), Aside(w, u, i, s), u.sock = w.sock, u.flash = w.flash
    PROVE  Outcome(w, v, i, s, left)
<1>1. Aside(w, v, i, s) /\ SameEnds(w, v)
  BY AsideTwice DEF Outcome, SameEnds
<1>. QED
  BY <1>1 DEF Outcome

\* The page that is not sent to a connection that is not the first
LEMMA SilentOutcome ==
    ASSUME NEW w, NEW i \in Slots, NEW s \in Socks, Serving(w, i, s), Waiting(w.sock[s]), NEW left
    PROVE  Outcome(w, Finished(httpdFlush(w, i), i), i, s, left)
<1>. DEFINE u == httpdFlush(w, i)
            v == Finished(u, i)
<1>. SUFFICES Outcome(w, v, i, s, left)
  OBVIOUS
<1>1. Flushes(w, u, i, s)
  BY Flushed DEF Serving
<1>. HIDE DEF u
<1>2. Ends(u, v, i)
  BY <1>1, FinishedParts DEF Flushes
<1>. HIDE DEF v
<1>3. v.sock = w.sock /\ v.out = <<>> /\ v.flash = w.flash /\ v \in Worlds
  BY <1>1, <1>2 DEF Flushes, Ends, Serving
<1>4. Aside(w, v, i, s) /\ SameEnds(w, v)
  BY <1>1, <1>2, <1>3, AsideTwice DEF Flushes, Ends, SameEnds
<1>5. Over(v.slot[i], v.sock[s], left)
  BY <1>2, <1>3 DEF Ends, Over
<1>6. Intact(v.sock[s], v.flash)
  <2>1. v.sock[s].answers = <<>> /\ <<>> # <<"200">>
    BY <1>3 DEF Waiting
  <2>. QED BY <2>1 DEF Intact
<1>. QED
  BY <1>3, <1>4, <1>5, <1>6 DEF Outcome, Taken

\* A code without any handler
LEMMA PageOutcome ==
    ASSUME NEW w, NEW i \in Slots, NEW s \in Socks, Serving(w, i, s), Waiting(w.sock[s]), NEW left,
           NEW code \in {"401", "404"}, <<code>> \in Answers(w.sock[s].req)
    PROVE  Outcome(w, Finished(httpdFlush(httpdSend(w, code), i), i), i, s, left)
<1>. DEFINE u == httpdSend(w, code)
            v == Finished(httpdFlush(u, i), i)
<1>. SUFFICES Outcome(w, v, i, s, left)
  OBVIOUS
<1>1. code \in Codes /\ code # "200"
  BY DEF Codes
<1>2. /\ u \in Worlds /\ u.slot = w.slot /\ u.sock = w.sock /\ u.flash = w.flash
      /\ u.response = w.response /\ u.out = <<code>>
  <2>1. u \in Worlds
    BY <1>1, SendOnly DEF OnlySends, Serving
  <2>. QED BY <2>1 DEF httpdSend, Worlds, Serving
<1>. HIDE DEF u
<1>3. EndsWith(u, v, i, s, left, code)
  BY <1>2, Answered DEF Serving
<1>. HIDE DEF v
<1>4. Aside(w, v, i, s) /\ SameEnds(w, v)
  BY <1>2, <1>3 DEF EndsWith, Aside, SameEnds
<1>5. Intact(v.sock[s], v.flash)
  <2>1. v.sock[s].answers # <<"200">>
    BY <1>1, <1>3 DEF EndsWith
  <2>. QED BY <2>1 DEF Intact
<1>. QED
  BY <1>2, <1>3, <1>4, <1>5 DEF Outcome, EndsWith, Taken

ShortPost(req) == Found(req).cgi = "file" => req.clen <= MAX_POST

\* The first call of the handler
LEMMA FirstOutcome ==
    ASSUME NEW w, NEW i \in Slots, NEW s \in Socks, Serving(w, i, s), NEW left,
           w.slot[i].cgi = "NULL", Handed(w.slot[i], w.sock[s], left),
           w.slot[i].received = Len(w.slot[i].buff), ShortPost(w.sock[s].req)
    PROVE  Outcome(w, httpdProcessRequest(w, i), i, s, left)
<1>. DEFINE q == w.slot[i]
            req == w.sock[s].req
            found == builtInUrls(q.req.url)
            w1 == [w EXCEPT !.slot[i].data = NULL, !.slot[i].cgi = found.cgi]
            called == CallCgi(w1, i)
            v == httpdProcessRequest(w, i)
<1>. SUFFICES Outcome(w, v, i, s, left)
  OBVIOUS
<1>1. /\ q.req = req /\ Waiting(w.sock[s]) /\ w \in Worlds /\ w.out = <<>> /\ q.conn = s
      /\ SlotOK(q) /\ q.cgi = "NULL"
  BY DEF Handed, Buffered, Serving
<1>2. found = Found(req) /\ (Refused(req) <=> found.auth /\ ~q.req.auth)
  BY <1>1 DEF Found, Refused
<1>3. /\ Refused(req) => v = Finished(httpdFlush(httpdForbidden(w, i), i), i)
      /\ ~Refused(req) /\ found.cgi = "NULL" => v = Finished(httpdFlush(httpdSend(w, "404"), i), i)
      /\ ~Refused(req) /\ found.cgi # "NULL" => v = Closed(called, i)
  <2>1. (IF q.cgi # "NULL" THEN w ELSE w1) = w1
    BY <1>1
  <2>2. v = CASE q.cgi = "NULL" /\ found.auth /\ ~q.req.auth ->
                      Finished(httpdFlush(httpdForbidden(w, i), i), i)
              [] q.cgi = "NULL" /\ found.cgi = "NULL" ->
                      Finished(httpdFlush(httpdSend(w, "404"), i), i)
              [] OTHER -> Closed(called, i)
    BY <2>1 DEF httpdProcessRequest, Closed
  <2>3. Refused(req) => found.cgi # "NULL"
    BY <1>2 DEF builtInUrls
  <2>. HIDE DEF v, called, found, q
  <2>. QED BY <1>1, <1>2, <2>2, <2>3
<1>. HIDE DEF v
<1>4. q.len = req.clen /\ req.clen \in Nat /\ found.cgi \in {"NULL", "file", "firmware", "json"}
  <2>1. q.len = req.clen
    BY DEF Handed, Buffered
  <2>2. w.sock[s] \in Sock
    BY <1>1, WorldParts
  <2>3. req \in Asked
    BY <2>2 DEF Sock
  <2>. QED BY <2>1, <2>3, AskedParts, UrlParts
<1>5. CASE Refused(req)
  <2>1. <<"401">> \in Answers(req)
    BY <1>5, AnswerSets
  <2>2. CASE i = 1
    BY <1>1, <1>3, <1>5, <2>1, <2>2, PageOutcome DEF httpdForbidden
  <2>3. CASE i # 1
    BY <1>1, <1>3, <1>5, <2>3, SilentOutcome DEF httpdForbidden
  <2>. QED BY <2>2, <2>3
<1>6. CASE ~Refused(req) /\ found.cgi = "NULL"
  <2>1. <<"404">> \in Answers(req)
    BY <1>2, <1>6, AnswerSets
  <2>. QED BY <1>1, <1>3, <1>6, <2>1, PageOutcome
<1>7. CASE ~Refused(req) /\ found.cgi # "NULL"
  <2>. DEFINE p == w1.slot[i]
  <2>1. /\ Puts(w, w1, i, p)
        /\ p.conn = q.conn /\ p.req = q.req /\ p.len = q.len /\ p.buff = q.buff
        /\ p.buffSize = q.buffSize /\ p.received = q.received
        /\ p.data = NULL /\ p.cgi = found.cgi
    <3>. HIDE DEF found
    <3>1. HandlerAt(w, w1, i, found.cgi)
      BY <1>1, <1>4, HandlerPut
    <3>. HIDE DEF w1
    <3>. QED BY <3>1 DEF HandlerAt
  <2>2. SlotOK(p)
    <3>1. found.cgi = "file" => FileLen[p.req.url] \in Nat
      BY <2>1, UrlParts
    <3>2. p.len >= 0 /\ p.len \in Int
      BY <1>4, <2>1
    <3>. HIDE DEF found, w1
    <3>. QED BY <2>1, <3>1, <3>2 DEF SlotOK
  <2>. HIDE DEF w1, found
  <2>3. /\ Serving(w1, i, s) /\ w1.sock = w.sock /\ w1.flash = w.flash /\ Aside(w, w1, i, s)
        /\ w1 \in Worlds
    BY <1>1, <2>1, <2>2 DEF Serving, Puts
  <2>4. Handed(p, w1.sock[s], left)
    BY <2>1, <2>3 DEF Handed, Buffered
  <2>5. Outcome(w1, Closed(called, i), i, s, left)
    <3>1. CASE found.cgi = "firmware"
      BY <1>2, <2>1, <2>3, <2>4, <3>1, UploadOutcome DEF CallCgi
    <3>2. CASE found.cgi = "json"
      <4>1. p.len >= 0
        BY <1>4, <2>1
      <4>2. called = WEB_CgiJsonHook(w1, i)
        BY <2>1, <3>2 DEF CallCgi
      <4>. HIDE DEF called
      <4>. QED BY <1>1, <1>2, <2>1, <2>3, <2>4, <3>2, <4>1, <4>2, JsonOutcome
    <3>3. CASE found.cgi = "file"
      <4>1. p.len >= 0
        BY <1>4, <2>1
      <4>2. called = cgiEspFsHook(w1, i)
        BY <2>1, <3>3 DEF CallCgi
      <4>3. left = 0
        <5>. DEFINE n == Len(q.buff)
                    c == q.received
        <5>1. /\ c = req.clen - left /\ left \in 0..req.clen /\ c = n
              /\ n = MAX_POST \/ left = 0
          BY DEF Handed, Buffered
        <5>2. req.clen <= MAX_POST /\ MAX_POST \in Nat
          BY <1>2, <3>3, HttpdAssumption DEF ShortPost
        <5>. HIDE DEF n, c
        <5>. QED BY <1>4, <5>1, <5>2
      <4>. HIDE DEF called
      <4>. QED BY <1>1, <1>2, <1>7, <2>1, <2>3, <3>3, <4>1, <4>2, <4>3, FileOutcome
    <3>. QED BY <1>4, <1>7, <3>1, <3>2, <3>3
  <2>6. Outcome(w, Closed(called, i), i, s, left)
    <3>. HIDE DEF called
    <3>. QED BY <2>3, <2>5, OutcomeFrom
  <2>. QED BY <1>3, <1>7, <2>6
<1>. QED
  BY <1>5, <1>6, <1>7

\* It is called again.
LEMMA LaterOutcome ==
    ASSUME NEW w, NEW i \in Slots, NEW s \in Socks, Serving(w, i, s), NEW left,
           \/ Asking(w.slot[i], w.sock[s])
           \/ /\ w.slot[i].cgi = "firmware"
              /\ Found(w.sock[s].req).cgi = "firmware"
              /\ Handed(w.slot[i], w.sock[s], left)
              /\ ~w.slot[i].priv /\ w.sock[s].req.body # "bad"
              /\ Stored(w.sock[s].req.body, w.slot[i].received - Len(w.slot[i].buff), w.flash)
    PROVE  Outcome(w, httpdProcessRequest(w, i), i, s, left)
<1>. DEFINE q == w.slot[i]
            called == CallCgi(w, i)
<1>1. q.cgi \in {"json", "firmware"}
  BY DEF Asking, Uploading
<1>2. httpdProcessRequest(w, i) = Closed(called, i)
  BY <1>1 DEF httpdProcessRequest, Closed
<1>3. CASE Asking(q, w.sock[s])
  <2>1. called = WEB_CgiJsonHook(w, i)
    BY <1>3 DEF CallCgi, Asking
  <2>. HIDE DEF called
  <2>. QED BY <1>2, <1>3, <2>1, JsonOutcome DEF Asking
<1>4. CASE ~Asking(q, w.sock[s])
  <2>1. q.cgi = "firmware"
    BY <1>4 DEF Uploading
  <2>2. called = cgiUploadFirmware(w, i)
    BY <2>1 DEF CallCgi
  <2>. HIDE DEF called
  <2>. QED BY <1>2, <1>4, <2>1, <2>2, UploadOutcome
<1>. QED
  BY <1>3, <1>4

-----------------------------------------------------------------------------
(* A unit of data *)

\* v is w with buffer b at place i, after n units of the POST.
Rebuffed(w, v, i, b, n) ==
    LET q == w.slot[i]
        p == v.slot[i]
    IN  /\ Puts(w, v, i, p)
        /\ p.conn = q.conn /\ p.req = q.req /\ p.cgi = q.cgi /\ p.data = q.data /\ p.priv = q.priv
        /\ p.len = q.len /\ p.buffSize = q.buffSize /\ p.buff = b /\ p.received = n

LEMMA RebufferedParts ==
    ASSUME NEW w \in Worlds, NEW i \in Slots, NEW b \in Seq(Units), NEW n \in Int
    PROVE  /\ Rebuffed(w, [w EXCEPT !.slot[i].buff = b, !.slot[i].received = n], i, b, n)
           /\ Rebuffed(w, [w EXCEPT !.slot[i].buff = b], i, b, w.slot[i].received)
<1>. DEFINE q == w.slot[i]
            one == [q EXCEPT !.buff = b]
            two == [one EXCEPT !.received = n]
            u == [w EXCEPT !.slot[i].buff = b]
            v == [w EXCEPT !.slot[i].buff = b, !.slot[i].received = n]
<1>. SUFFICES Rebuffed(w, v, i, b, n) /\ Rebuffed(w, u, i, b, q.received)
  OBVIOUS
<1>1. q \in Slot
  BY WorldParts
<1>2. u = SlotPut(w, i, one) /\ v = SlotPut(w, i, two)
  BY DEF SlotPut, Worlds
<1>. HIDE DEF u, v
<1>3. /\ one \in Slot
      /\ one.conn = q.conn /\ one.req = q.req /\ one.cgi = q.cgi /\ one.data = q.data
      /\ one.priv = q.priv /\ one.len = q.len /\ one.buffSize = q.buffSize
      /\ one.buff = b /\ one.received = q.received
  BY <1>1 DEF Slot
<1>. HIDE DEF one
<1>4. /\ two \in Slot
      /\ two.conn = q.conn /\ two.req = q.req /\ two.cgi = q.cgi /\ two.data = q.data
      /\ two.priv = q.priv /\ two.len = q.len /\ two.buffSize = q.buffSize
      /\ two.buff = b /\ two.received = n
  BY <1>3 DEF Slot
<1>. HIDE DEF two
<1>5. Puts(w, u, i, one) /\ Puts(w, v, i, two)
  BY <1>2, <1>3, <1>4, PutParts
<1>6. u.slot[i] = one /\ v.slot[i] = two
  BY <1>5 DEF Puts
<1>. QED
  BY <1>3, <1>4, <1>5, <1>6 DEF Rebuffed

\* v is w after the header of req was parsed for place i.
Parsed(w, v, i, req) ==
    LET q == w.slot[i]
        p == v.slot[i]
    IN  /\ Puts(w, v, i, p)
        /\ p.conn = q.conn /\ p.req = req /\ p.cgi = q.cgi /\ p.received = q.received
        /\ p.len = req.clen /\ p.buff = <<>> /\ p.buffSize = Min2(req.clen, MAX_POST)

LEMMA ParsedParts ==
    ASSUME NEW w \in Worlds, NEW i \in Slots, NEW req \in Asked
    PROVE  Parsed(w, httpdParseHeader(w, i, req), i, req)
<1>. DEFINE q == w.slot[i]
            size == Min2(req.clen, MAX_POST)
            new == [q EXCEPT !.req = req, !.len = req.clen, !.buff = <<>>, !.buffSize = size]
            a == [q EXCEPT !.req = req]
            b == [a EXCEPT !.len = req.clen]
            c == [b EXCEPT !.buff = <<>>]
            d == [c EXCEPT !.buffSize = size]
            v == httpdParseHeader(w, i, req)
<1>1. q \in Slot
  BY WorldParts
<1>2. req.clen \in Nat
  BY AskedParts
<1>3. size \in Int /\ <<>> \in Seq(Units)
  BY <1>2, HttpdAssumption DEF Min2
<1>4. v = SlotPut(w, i, new)
  BY DEF httpdParseHeader, SlotPut, Worlds
<1>. HIDE DEF v, size
<1>5. new = d
  BY <1>1 DEF Slot
<1>. HIDE DEF q, new
<1>6. a \in Slot /\ a.conn = q.conn /\ a.cgi = q.cgi /\ a.received = q.received /\ a.req = req
  BY <1>1 DEF Slot
<1>. HIDE DEF a
<1>7. /\ b \in Slot /\ b.conn = q.conn /\ b.cgi = q.cgi /\ b.received = q.received /\ b.req = req
      /\ b.len = req.clen
  BY <1>2, <1>6 DEF Slot
<1>. HIDE DEF b
<1>8. /\ c \in Slot /\ c.conn = q.conn /\ c.cgi = q.cgi /\ c.received = q.received /\ c.req = req
      /\ c.len = req.clen /\ c.buff = <<>>
  BY <1>3, <1>7 DEF Slot
<1>. HIDE DEF c
<1>9. /\ d \in Slot /\ d.conn = q.conn /\ d.cgi = q.cgi /\ d.received = q.received /\ d.req = req
      /\ d.len = req.clen /\ d.buff = <<>> /\ d.buffSize = size
  BY <1>3, <1>8 DEF Slot
<1>. HIDE DEF d
<1>10. Puts(w, v, i, d)
  BY <1>4, <1>5, <1>9, PutParts
<1>11. v.slot[i] = d
  BY <1>10 DEF Puts
<1>. QED
  BY <1>9, <1>10, <1>11 DEF Parsed, v, q, size

\* A place is still busy with the same if only its buffer has changed.
LEMMA TakenStill ==
    ASSUME NEW q, NEW p, NEW so, NEW left, Taken(q, so, left),
           p.cgi = q.cgi, p.req = q.req, p.data = q.data, p.len = q.len
    PROVE  Taken(p, so, left)
BY DEF Taken, Asking, Sending, Over

\* Of such a place, nothing is being written.
LEMMA TakenFlash ==
    ASSUME NEW q, NEW so, NEW left, Taken(q, so, left)
    PROVE  q.cgi # "firmware"
BY DEF Taken, Asking, Sending, Over

\* The connection s is served at place i, with so many units to come.
InProgress(w, i, s, left) ==
    /\ Serving(w, i, s)
    /\ Progress(w.slot[i], w.sock[s], left)
    /\ FlashOK(w.slot[i], w.sock[s], w.flash)

\* It was served, and nothing else.
ServedOnly(w, v, i, s) ==
    /\ Aside(w, v, i, s) /\ SameEnds(w, v)
    /\ Found(w.sock[s].req).cgi # "firmware" => v.flash = w.flash

LEMMA ServedOnlyTwice ==
    ASSUME NEW w, NEW u, NEW v, NEW i, NEW s \in Socks, ServedOnly(w, u, i, s), ServedOnly(u, v, i, s)
    PROVE  ServedOnly(w, v, i, s)
BY AsideTwice DEF ServedOnly, SameEnds

LEMMA Unanswered ==
    ASSUME NEW so, NEW f, Waiting(so)
    PROVE  Intact(so, f)
<1>1. <<>> # <<"200">>
  OBVIOUS
<1>. QED
  BY <1>1 DEF Waiting, Intact

\* What the handler has made of a full buffer is left when it is emptied.
LEMMA EmptiedProgress ==
    ASSUME NEW w, NEW u, NEW v, NEW i \in Slots, NEW s \in Socks, NEW left, Outcome(w, u, i, s, left),
           Rebuffed(u, v, i, <<>>, u.slot[i].received),
           SlotOK(v.slot[i]), v.slot[i].conn = s, w.sock[s].req.clen \in Nat
    PROVE  InProgress(v, i, s, left) /\ ServedOnly(w, v, i, s) /\ Intact(v.sock[s], v.flash)
<1>. DEFINE q == u.slot[i]
            p == v.slot[i]
            so == u.sock[s]
<1>1. /\ v \in Worlds /\ v.sock = u.sock /\ v.flash = u.flash /\ v.out = <<>> /\ Aside(u, v, i, s)
      /\ p.req = q.req /\ p.cgi = q.cgi /\ p.data = q.data /\ p.priv = q.priv
      /\ p.len = q.len /\ p.buffSize = q.buffSize /\ p.buff = <<>> /\ p.received = q.received
  BY DEF Rebuffed, Puts, Outcome
<1>2. ServedOnly(w, v, i, s)
  BY <1>1, AsideTwice DEF ServedOnly, Outcome, SameEnds
<1>3. Serving(v, i, s)
  BY <1>1 DEF Serving
<1>4. Intact(v.sock[s], v.flash)
  BY <1>1 DEF Outcome
<1>5. Progress(p, so, left) /\ FlashOK(p, so, v.flash)
  <2>1. CASE Taken(q, so, left)
    <3>1. Taken(p, so, left)
      BY <1>1, <2>1, TakenStill
    <3>. QED BY <3>1, TakenFlash DEF Progress, FlashOK
  <2>2. CASE Ready(q, so, left, u.flash)
    <3>1. Len(<<>>) = 0 /\ Len(q.buff) = MAX_POST /\ MAX_POST \in Nat \ {0}
      BY <2>2, HttpdAssumption DEF Ready
    <3>2. Uploading(q, so, left) /\ Buffered(q, so, left)
      BY <2>2 DEF Ready, Uploading
    <3>3. PICK j \in Nat : q.received = j * MAX_POST + MAX_POST
      BY <3>1, <3>2 DEF Buffered
    <3>4. q.received \in Int /\ q.received - 0 = q.received
      <4>1. q.received = so.req.clen - left /\ left \in 0..so.req.clen
        BY <3>2 DEF Buffered
      <4>2. so.req.clen \in Nat
        BY DEF Outcome, SameEnds
      <4>. DEFINE c == so.req.clen
                  r == q.received
      <4>. HIDE DEF c, r
      <4>3. r = c - left /\ left \in 0..c /\ c \in Nat
        BY <4>1, <4>2 DEF c, r
      <4>4. r \in Int /\ r - 0 = r
        BY <4>3
      <4>. QED BY <4>4 DEF r
    <3>5. q.received = (j + 1) * MAX_POST + 0 /\ j + 1 \in Nat
      <4>1. j * MAX_POST + MAX_POST = (j + 1) * MAX_POST + 0
        BY <3>1
      <4>. QED BY <3>3, <4>1
    <3>6. Buffered(p, so, left)
      <4>1. \A m \in 1..Len(p.buff) : p.buff[m] = <<so.req.body, p.received - Len(p.buff) + m>>
        BY <1>1, <3>1
      <4>2. \E k \in Nat : p.received = k * MAX_POST + Len(p.buff)
        BY <1>1, <3>1, <3>5
      <4>. QED BY <1>1, <3>2, <4>1, <4>2 DEF Buffered
    <3>7. Storing(p, so, left)
      BY <1>1, <3>1, <3>2, <3>6 DEF Storing, Uploading
    <3>8. FlashOK(p, so, v.flash)
      BY <1>1, <2>2, <3>1, <3>4 DEF FlashOK, Ready
    <3>. QED BY <3>7, <3>8 DEF Progress
  <2>. QED BY <2>1, <2>2 DEF Outcome
<1>. QED
  BY <1>1, <1>2, <1>3, <1>4, <1>5 DEF InProgress

\* One unit of the request, of which left have still to arrive, is v's.
GoesOn(w, v, i, s, left) ==
    /\ InProgress(v, i, s, left)
    /\ ServedOnly(w, v, i, s)
    /\ Intact(w.sock[s], w.flash) => Intact(v.sock[s], v.flash)

\* What the handler has made of a request is left.
LEMMA OutcomeGoesOn ==
    ASSUME NEW w, NEW v, NEW i \in Slots, NEW s \in Socks, NEW left, Outcome(w, v, i, s, left),
           Taken(v.slot[i], v.sock[s], left), SlotOK(v.slot[i]), v.slot[i].conn = s
    PROVE  GoesOn(w, v, i, s, left)
<1>1. FlashOK(v.slot[i], v.sock[s], v.flash)
  BY TakenFlash DEF FlashOK
<1>. QED
  BY <1>1 DEF Outcome, GoesOn, InProgress, ServedOnly, Serving, Progress

LEMMA HeaderGoesOn ==
    ASSUME NEW w, NEW i \in Slots, NEW s \in Socks, Serving(w, i, s),
           NEW req, req = w.sock[s].req, ShortPost(req),
           Fresh(w.slot[i], w.sock[s], 1 + req.clen)
    PROVE  GoesOn(w, Receive(w, i, req), i, s, req.clen)
<1>. DEFINE q == w.slot[i]
            so == w.sock[s]
            head == httpdParseHeader(w, i, req)
            p == head.slot[i]
            passed == httpdProcessRequest(head, i)
            v == Receive(w, i, req)
<1>. SUFFICES GoesOn(w, v, i, s, req.clen)
  OBVIOUS
<1>1. w \in Worlds /\ q.conn = s /\ w.out = <<>> /\ q.len = NULL /\ q.cgi = "NULL" /\ q.received = 0
  BY DEF Serving, Fresh
<1>2. req \in Asked /\ req.clen \in Nat /\ req \in Units
  <2>1. so \in Sock
    BY <1>1, WorldParts
  <2>. QED BY <2>1, AskedParts DEF Sock
<1>3. ServedAt(w, v, i)
  <2>1. SlotOK(q)
    BY DEF Serving
  <2>. QED BY <1>1, <1>2, <2>1, Received
<1>4. SlotOK(v.slot[i]) /\ v.slot[i].conn = s
  BY <1>1, <1>3 DEF ServedAt
<1>5. v = IF head.slot[i].len = 0 THEN passed ELSE head
  <2>1. v = CASE q.len < 0 -> IF head.slot[i].len = 0 THEN passed ELSE head
              [] q.len > 0 ->
                  IF Len(q.buff) + 1 >= q.buffSize \/ q.received + 1 = q.len
                  THEN [httpdProcessRequest([w EXCEPT !.slot[i].buff = Append(@, req),
                                                      !.slot[i].received = @ + 1], i)
                        EXCEPT !.slot[i].buff = <<>>]
                  ELSE [w EXCEPT !.slot[i].buff = Append(@, req), !.slot[i].received = @ + 1]
              [] q.len = 0 -> w
    BY DEF Receive
  <2>2. q.len < 0 /\ ~(q.len > 0) /\ q.len # 0
    BY <1>1 DEF NULL
  <2>. HIDE DEF v, head, passed
  <2>. QED BY <2>1, <2>2
<1>. HIDE DEF v
<1>6. Parsed(w, head, i, req)
  BY <1>1, <1>2, ParsedParts
<1>. HIDE DEF head
<1>7. /\ head \in Worlds /\ head.sock = w.sock /\ head.flash = w.flash /\ head.out = <<>>
      /\ Aside(w, head, i, s)
      /\ p.conn = s /\ p.req = req /\ p.cgi = "NULL" /\ p.received = 0
      /\ p.len = req.clen /\ p.buff = <<>> /\ p.buffSize = Min2(req.clen, MAX_POST)
  BY <1>1, <1>6 DEF Parsed, Puts
<1>8. Len(p.buff) = 0 /\ 0 * MAX_POST + 0 = 0 /\ 0 \in Nat /\ MAX_POST \in Nat \ {0}
  BY <1>7, HttpdAssumption
<1>9. Buffered(p, head.sock[s], req.clen)
  <2>1. req.clen \in 0..req.clen /\ p.received = req.clen - req.clen
    BY <1>2, <1>7
  <2>2. \E j \in Nat : p.received = j * MAX_POST + Len(p.buff)
    <3>1. p.received = 0 * MAX_POST + Len(p.buff)
      BY <1>7, <1>8
    <3>. QED BY <1>8, <3>1
  <2>3. \A m \in 1..Len(p.buff) : p.buff[m] = <<req.body, p.received - Len(p.buff) + m>>
    BY <1>8
  <2>. QED BY <1>7, <2>1, <2>2, <2>3 DEF Buffered
<1>10. Waiting(so)
  BY DEF Fresh
<1>11. CASE req.clen = 0
  <2>1. v = passed
    BY <1>5, <1>7, <1>11
  <2>2. Handed(p, head.sock[s], 0)
    BY <1>7, <1>8, <1>9, <1>10, <1>11 DEF Handed
  <2>3. Serving(head, i, s)
    <3>1. SlotOK(p)
      BY <1>2, <1>7 DEF SlotOK
    <3>. QED BY <1>7, <3>1 DEF Serving
  <2>4. Outcome(head, passed, i, s, 0)
    BY <1>7, <1>8, <2>2, <2>3, FirstOutcome
  <2>. HIDE DEF passed
  <2>5. Outcome(w, v, i, s, 0)
    BY <1>7, <2>1, <2>4, OutcomeFrom
  <2>6. Taken(v.slot[i], v.sock[s], 0)
    BY <2>5 DEF Outcome, Ready, Uploading
  <2>. QED BY <1>4, <1>11, <2>5, <2>6, OutcomeGoesOn
<1>12. CASE req.clen # 0
  <2>1. v = head
    BY <1>5, <1>7, <1>12
  <2>2. Collecting(p, so, req.clen)
    <3>1. 0 < Min2(req.clen, MAX_POST)
      BY <1>2, <1>8, <1>12 DEF Min2
    <3>. QED BY <1>7, <1>8, <1>9, <1>10, <3>1 DEF Collecting
  <2>3. FlashOK(p, so, head.flash)
    BY <1>7 DEF FlashOK
  <2>4. ServedOnly(w, head, i, s)
    BY <1>7 DEF ServedOnly, SameEnds
  <2>5. Intact(so, head.flash)
    BY <1>10, Unanswered
  <2>. QED BY <1>4, <1>7, <2>1, <2>2, <2>3, <2>4, <2>5 DEF GoesOn, InProgress, Serving, Progress
<1>. QED
  BY <1>11, <1>12

LEMMA SkippedGoesOn ==
    ASSUME NEW w, NEW i \in Slots, NEW s \in Socks, NEW left \in Nat \ {0},
           InProgress(w, i, s, left), w.slot[i].len = 0, w.sock[s].req.clen \in Nat
    PROVE  InProgress(w, i, s, left - 1)
<1>. DEFINE q == w.slot[i]
            so == w.sock[s]
<1>1. Progress(q, so, left)
  BY DEF InProgress
<1>2. ~Fresh(q, so, left)
  BY DEF Fresh, NULL
<1>3. ~Buffered(q, so, left)
  <2>. SUFFICES ASSUME Buffered(q, so, left) PROVE FALSE
    OBVIOUS
  <2>1. so.req.clen = 0 /\ left \in 0..so.req.clen
    BY DEF Buffered
  <2>. QED BY <2>1
<1>4. ~Sending(q, so, left, 1)
  BY DEF Sending
<1>5. Asking(q, so) \/ Over(q, so, left)
  BY <1>1, <1>2, <1>3, <1>4 DEF Progress, Collecting, Storing, Uploading, Taken
<1>6. Over(q, so, left) => Over(q, so, left - 1)
  BY DEF Over
<1>7. Progress(q, so, left - 1)
  BY <1>5, <1>6 DEF Progress, Taken
<1>. QED
  BY <1>7 DEF InProgress

\* A unit goes into the buffer.
Adds(q, p, so, left, unit) ==
    /\ q \in Slot /\ left \in Nat \ {0} /\ Buffered(q, so, left)
    /\ so.req.clen \in Nat
    /\ unit = Unit(so.req, 2 + so.req.clen - left)
    /\ p.req = q.req /\ p.len = q.len /\ p.buffSize = q.buffSize
    /\ p.buff = Append(q.buff, unit) /\ p.received = q.received + 1

LEMMA BufferedMore ==
    ASSUME NEW q, NEW p, NEW so, NEW left, NEW unit, Adds(q, p, so, left, unit)
    PROVE  Buffered(p, so, left - 1) /\ Len(p.buff) = Len(q.buff) + 1
<1>. DEFINE n == Len(q.buff)
            c == q.received
            clen == so.req.clen
            b == so.req.body
            at == 2 + clen - left
<1>0. /\ q \in Slot /\ left \in Nat \ {0} /\ Buffered(q, so, left) /\ clen \in Nat
      /\ unit = Unit(so.req, at)
      /\ p.req = q.req /\ p.len = q.len /\ p.buffSize = q.buffSize
      /\ p.buff = Append(q.buff, unit) /\ p.received = q.received + 1
  BY DEF Adds
<1>1. q.buff \in Seq(Units) /\ n \in Nat /\ MAX_POST \in Nat \ {0}
  BY <1>0, SlotParts, HttpdAssumption
<1>2. /\ Len(p.buff) = n + 1 /\ p.buff[n + 1] = unit
      /\ \A m \in 1..n : p.buff[m] = q.buff[m]
  BY <1>0, <1>1
<1>3. c = clen - left /\ left \in 0..clen /\ clen \in Nat
  BY <1>0 DEF Buffered
<1>4. PICK j \in Nat : c = j * MAX_POST + n
  BY <1>0 DEF Buffered
<1>5. \A m \in 1..n : q.buff[m] = <<b, c - n + m>>
  BY <1>0 DEF Buffered
<1>6. unit = <<b, c + 1>>
  <2>1. at # 1 /\ at - 1 = c + 1
    <3>. HIDE DEF c, clen
    <3>. QED BY <1>0, <1>3
  <2>. HIDE DEF at, c
  <2>2. unit = <<b, at - 1>>
    BY <1>0, <2>1 DEF Unit
  <2>. QED BY <2>1, <2>2
<1>7. /\ left - 1 \in 0..clen /\ c + 1 = clen - (left - 1)
      /\ (c + 1) - (n + 1) = c - n /\ c - n + (n + 1) = c + 1
      /\ c \in Int
  <2>. HIDE DEF n, c, clen
  <2>. QED BY <1>0, <1>1, <1>3
<1>8. c + 1 = j * MAX_POST + (n + 1)
  <2>. DEFINE y == j * MAX_POST
  <2>1. y \in Int /\ c = y + n
    BY <1>1, <1>4
  <2>. HIDE DEF y, n, c
  <2>2. c + 1 = y + (n + 1)
    BY <1>1, <2>1
  <2>. QED BY <2>2 DEF y
<1>9. \A m \in 1..n + 1 : p.buff[m] = <<b, (c + 1) - (n + 1) + m>>
  <2>. SUFFICES ASSUME NEW m \in 1..n + 1 PROVE p.buff[m] = <<b, (c + 1) - (n + 1) + m>>
    OBVIOUS
  <2>1. CASE m = n + 1
    BY <1>2, <1>6, <1>7, <2>1
  <2>2. CASE m # n + 1
    <3>1. m \in 1..n
      <4>. HIDE DEF n
      <4>. QED BY <1>1, <2>2
    <3>. QED BY <1>2, <1>5, <1>7, <3>1
  <2>. QED BY <2>1, <2>2
<1>10. p.req = so.req /\ p.len = clen /\ p.buffSize = Min2(clen, MAX_POST) /\ p.received = c + 1
  BY <1>0 DEF Buffered
<1>11. \E k \in Nat : p.received = k * MAX_POST + Len(p.buff)
  BY <1>2, <1>8, <1>10
<1>. QED
  BY <1>2, <1>7, <1>9, <1>10, <1>11 DEF Buffered

\* When the buffer is full, or all is there
Fills(n, c, clen, left, size) ==
    /\ {n, c, clen} \subseteq Nat /\ left \in Nat \ {0}
    /\ size = Min2(clen, MAX_POST) /\ c = clen - left /\ n <= c /\ n < MAX_POST

LEMMA FullBuffer ==
    ASSUME NEW n, NEW c, NEW clen, NEW left, NEW size, Fills(n, c, clen, left, size)
    PROVE  /\ n + 1 >= size \/ c + 1 = clen => n + 1 = MAX_POST \/ left - 1 = 0
           /\ ~(n + 1 >= size \/ c + 1 = clen) =>
                 n + 1 < size /\ n + 1 < MAX_POST /\ left - 1 > 0
           /\ n + 1 <= MAX_POST
<1>1. /\ MAX_POST \in Nat \ {0} /\ n \in Nat /\ c \in Nat /\ clen \in Nat /\ left \in Nat \ {0}
      /\ size = Min2(clen, MAX_POST) /\ c = clen - left /\ n <= c /\ n < MAX_POST
  BY HttpdAssumption DEF Fills
<1>2. CASE clen < MAX_POST
  BY <1>1, <1>2 DEF Min2
<1>3. CASE ~(clen < MAX_POST)
  BY <1>1, <1>3 DEF Min2
<1>. QED
  BY <1>2, <1>3

LEMMA PostGoesOn ==
    ASSUME NEW w, NEW i \in Slots, NEW s \in Socks, NEW left \in Nat \ {0},
           InProgress(w, i, s, left), w.slot[i].len > 0,
           NEW req, req = w.sock[s].req, ShortPost(req),
           NEW unit \in Units, unit = Unit(req, 2 + req.clen - left)
    PROVE  GoesOn(w, Receive(w, i, unit), i, s, left - 1)
<1>. DEFINE q == w.slot[i]
            so == w.sock[s]
            b == Append(q.buff, unit)
            n == q.received + 1
            post == [w EXCEPT !.slot[i].buff = Append(@, unit), !.slot[i].received = @ + 1]
            p == post.slot[i]
            passed == httpdProcessRequest(post, i)
            emptied == [passed EXCEPT !.slot[i].buff = <<>>]
            full == Len(q.buff) + 1 >= q.buffSize \/ q.received + 1 = q.len
            v == Receive(w, i, unit)
<1>. SUFFICES GoesOn(w, v, i, s, left - 1)
  OBVIOUS
<1>1. /\ w \in Worlds /\ q.conn = s /\ w.out = <<>> /\ SlotOK(q) /\ Progress(q, so, left)
      /\ FlashOK(q, so, w.flash)
  BY DEF InProgress, Serving
<1>2. q \in Slot /\ q.len \in Int /\ q.buff \in Seq(Units) /\ q.received \in Int /\ left - 1 \in Nat
  BY <1>1, WorldParts, SlotParts
<1>3. req.clen \in Nat
  <2>1. so \in Sock
    BY <1>1, WorldParts
  <2>2. req \in Asked
    BY <2>1 DEF Sock
  <2>. QED BY <2>2, AskedParts
<1>4. ServedAt(w, v, i) /\ SlotOK(v.slot[i]) /\ v.slot[i].conn = s
  <2>1. ServedAt(w, v, i)
    BY <1>1, <1>2, Received
  <2>. QED BY <1>1, <2>1 DEF ServedAt
<1>5. v = IF full THEN emptied ELSE post
  <2>. DEFINE head == httpdParseHeader(w, i, unit)
  <2>1. v = CASE q.len < 0 -> IF head.slot[i].len = 0 THEN httpdProcessRequest(head, i) ELSE head
              [] q.len > 0 -> IF full THEN emptied ELSE post
              [] q.len = 0 -> w
    BY DEF Receive
  <2>2. ~(q.len < 0) /\ q.len > 0 /\ q.len # 0
    BY <1>2
  <2>. HIDE DEF v, head, post, emptied, full, q
  <2>. QED BY <2>1, <2>2
<1>. HIDE DEF v
<1>6. Rebuffed(w, post, i, b, n)
  <2>. DEFINE u == [w EXCEPT !.slot[i].buff = b, !.slot[i].received = n]
  <2>1. post = u
    OBVIOUS
  <2>2. b \in Seq(Units) /\ n \in Int
    BY <1>2
  <2>. HIDE DEF post, b, n
  <2>3. Rebuffed(w, u, i, b, n)
    BY <1>1, <2>2, RebufferedParts
  <2>. QED BY <2>1, <2>3
<1>. HIDE DEF post
<1>7. /\ post \in Worlds /\ post.sock = w.sock /\ post.flash = w.flash /\ post.out = <<>>
      /\ Aside(w, post, i, s)
      /\ p.conn = s /\ p.req = q.req /\ p.cgi = q.cgi /\ p.data = q.data /\ p.priv = q.priv
      /\ p.len = q.len /\ p.buffSize = q.buffSize /\ p.buff = b /\ p.received = n
  BY <1>1, <1>6 DEF Rebuffed, Puts
<1>8. ServedOnly(w, post, i, s)
  BY <1>7 DEF ServedOnly, SameEnds
<1>9. Serving(post, i, s)
  <2>1. SlotOK(p)
    BY <1>1, <1>7 DEF SlotOK
  <2>. QED BY <1>7, <2>1 DEF Serving
<1>10. Collecting(q, so, left) \/ Storing(q, so, left) \/ Asking(q, so)
  <2>1. ~Fresh(q, so, left)
    BY DEF Fresh, NULL
  <2>2. ~Sending(q, so, left, 1) /\ ~Over(q, so, left)
    BY DEF Sending, Over
  <2>. QED BY <1>1, <2>1, <2>2 DEF Progress, Taken
<1>11. \/ Outcome(post, passed, i, s, left - 1) /\ full
       \/ ~full /\ Progress(p, so, left - 1) /\ FlashOK(p, so, w.flash)
  <2>1. CASE Asking(q, so)
    <3>1. Asking(p, so)
      BY <1>7, <2>1 DEF Asking
    <3>2. Progress(p, so, left - 1) /\ FlashOK(p, so, w.flash)
      BY <3>1 DEF Progress, Taken, FlashOK, Asking
    <3>3. Outcome(post, passed, i, s, left - 1)
      BY <1>2, <1>7, <1>9, <3>1, LaterOutcome
    <3>. QED BY <3>2, <3>3
  <2>2. CASE Collecting(q, so, left) \/ Storing(q, so, left)
    <3>. DEFINE k == Len(q.buff)
                c == q.received
                clen == req.clen
                size == q.buffSize
    <3>1. Buffered(q, so, left) /\ Waiting(so)
      BY <2>2 DEF Collecting, Storing, Uploading
    <3>2. Buffered(p, so, left - 1) /\ Len(p.buff) = k + 1
      <4>1. Adds(q, p, so, left, unit)
        BY <1>2, <1>3, <1>7, <3>1 DEF Adds
      <4>. QED BY <4>1, BufferedMore
    <3>3. /\ c = clen - left /\ left \in 0..clen /\ size = Min2(clen, MAX_POST) /\ q.len = clen
          /\ \E j \in Nat : c = j * MAX_POST + k
      BY <3>1 DEF Buffered
    <3>4. k \in Nat /\ k < MAX_POST /\ MAX_POST \in Nat \ {0} /\ c \in Nat
      <4>1. k \in Nat /\ MAX_POST \in Nat \ {0}
        BY <1>2, HttpdAssumption
      <4>2. c \in Nat
        <5>. HIDE DEF c, clen, k, size
        <5>. QED BY <1>3, <3>3 DEF clen
      <4>3. CASE Collecting(q, so, left)
        <5>1. k < size
          BY <4>3 DEF Collecting
        <5>. HIDE DEF k, size, clen, c
        <5>. QED BY <1>3, <3>3, <4>1, <4>2, <5>1 DEF Min2, clen
      <4>4. CASE Storing(q, so, left)
        BY <4>1, <4>2, <4>4 DEF Storing
      <4>. QED BY <2>2, <4>3, <4>4
    <3>5. k <= c
      <4>1. PICK j \in Nat : c = j * MAX_POST + k
        BY <3>3
      <4>2. j * MAX_POST \in Nat
        BY <3>4
      <4>. DEFINE y == j * MAX_POST
      <4>. HIDE DEF y, k, c
      <4>3. c = y + k /\ y \in Nat
        BY <4>1, <4>2 DEF y
      <4>. QED BY <3>4, <4>3
    <3>6. /\ full => k + 1 = MAX_POST \/ left - 1 = 0
          /\ ~full => k + 1 < size /\ k + 1 < MAX_POST /\ left - 1 > 0
          /\ k + 1 <= MAX_POST
      <4>. DEFINE f == k + 1 >= size \/ c + 1 = clen
      <4>1. full <=> f
        BY <3>3
      <4>2. Fills(k, c, clen, left, size)
        BY <1>3, <3>3, <3>4, <3>5 DEF Fills
      <4>. HIDE DEF k, c, clen, size, full
      <4>3. /\ f => k + 1 = MAX_POST \/ left - 1 = 0
            /\ ~f => k + 1 < size /\ k + 1 < MAX_POST /\ left - 1 > 0
            /\ k + 1 <= MAX_POST
        BY <4>2, FullBuffer
      <4>. QED BY <4>1, <4>3
    <3>7. FlashOK(p, so, w.flash) /\ p.received - Len(p.buff) = c - k
      <4>1. p.received - Len(p.buff) = c - k
        <5>1. p.received = c + 1 /\ Len(p.buff) = k + 1
          BY <1>7, <3>2
        <5>. HIDE DEF c, k, p
        <5>. QED BY <3>4, <5>1
      <4>. QED BY <1>1, <1>7, <4>1 DEF FlashOK
    <3>8. p.received > 0
      <4>1. p.received = c + 1
        BY <1>7
      <4>. HIDE DEF p, c
      <4>. QED BY <3>4, <4>1
    <3>9. full => Handed(p, so, left - 1)
      BY <3>1, <3>2, <3>6, <3>8 DEF Handed
    <3>10. CASE Collecting(q, so, left)
      <4>1. c = k /\ q.cgi = "NULL"
        BY <3>10 DEF Collecting
      <4>2. p.received = Len(p.buff)
        BY <1>7, <3>2, <4>1
      <4>3. ~full => Collecting(p, so, left - 1)
        BY <1>7, <3>1, <3>2, <3>6, <4>1, <4>2 DEF Collecting
      <4>4. full => Outcome(post, passed, i, s, left - 1)
        <5>. SUFFICES ASSUME full PROVE Outcome(post, passed, i, s, left - 1)
          OBVIOUS
        <5>1. Handed(post.slot[i], post.sock[s], left - 1) /\ ShortPost(post.sock[s].req)
          BY <1>7, <3>9
        <5>. HIDE DEF full
        <5>. QED BY <1>2, <1>7, <1>9, <4>1, <4>2, <5>1, FirstOutcome
      <4>. QED BY <3>7, <4>3, <4>4 DEF Progress
    <3>11. CASE Storing(q, so, left)
      <4>1. Uploading(q, so, left) /\ q.cgi = "firmware"
        BY <3>11 DEF Storing, Uploading
      <4>2. ~full => Storing(p, so, left - 1)
        BY <1>7, <3>2, <3>6, <4>1 DEF Storing, Uploading
      <4>3. full => Outcome(post, passed, i, s, left - 1)
        <5>. SUFFICES ASSUME full PROVE Outcome(post, passed, i, s, left - 1)
          OBVIOUS
        <5>1. Handed(p, so, left - 1)
          BY <3>9
        <5>2. /\ p.cgi = "firmware" /\ Found(so.req).cgi = "firmware"
              /\ ~p.priv /\ so.req.body # "bad"
          BY <1>7, <4>1 DEF Uploading
        <5>3. Stored(so.req.body, p.received - Len(p.buff), post.flash)
          BY <1>7, <3>7, <5>2 DEF FlashOK
        <5>. HIDE DEF full
        <5>. QED BY <1>2, <1>7, <1>9, <5>1, <5>2, <5>3, LaterOutcome
      <4>. QED BY <3>7, <4>2, <4>3 DEF Progress
    <3>. QED BY <2>2, <3>10, <3>11
  <2>. QED BY <1>10, <2>1, <2>2
<1>12. Waiting(so)
  BY <1>10 DEF Collecting, Storing, Uploading, Asking
<1>. HIDE DEF full
<1>13. CASE ~full
  <2>1. v = post
    BY <1>5, <1>13
  <2>2. Intact(post.sock[s], post.flash)
    BY <1>7, <1>12, Unanswered
  <2>. QED BY <1>7, <1>8, <1>9, <1>11, <1>13, <2>1, <2>2 DEF GoesOn, InProgress
<1>14. CASE full
  <2>1. v = emptied
    BY <1>5, <1>14
  <2>2. Outcome(post, passed, i, s, left - 1)
    BY <1>11, <1>14
  <2>. HIDE DEF passed
  <2>3. Rebuffed(passed, emptied, i, <<>>, passed.slot[i].received)
    <3>1. passed \in Worlds /\ <<>> \in Seq(Units) /\ 0 \in Int
      BY <2>2 DEF Outcome
    <3>. QED BY <3>1, RebufferedParts
  <2>. HIDE DEF emptied
  <2>4. /\ InProgress(emptied, i, s, left - 1) /\ ServedOnly(post, emptied, i, s)
        /\ Intact(emptied.sock[s], emptied.flash)
    BY <1>3, <1>4, <1>7, <2>1, <2>2, <2>3, EmptiedProgress
  <2>. QED BY <1>8, <2>1, <2>4, ServedOnlyTwice DEF GoesOn
<1>. QED
  BY <1>13, <1>14

LEMMA UnitGoesOn ==
    ASSUME NEW w, NEW i \in Slots, NEW s \in Socks, NEW left \in Nat \ {0}, InProgress(w, i, s, left),
           NEW req, req = w.sock[s].req, ShortPost(req), left <= 1 + req.clen,
           w.slot[i].len < 0 <=> left = 1 + req.clen
    PROVE  LET v == Receive(w, i, Unit(req, 2 + req.clen - left))
           IN  GoesOn(w, v, i, s, left - 1) /\ v.slot[i].len >= 0
<1>. DEFINE q == w.slot[i]
            so == w.sock[s]
            at == 2 + req.clen - left
            unit == Unit(req, at)
            v == Receive(w, i, unit)
<1>. SUFFICES GoesOn(w, v, i, s, left - 1) /\ v.slot[i].len >= 0
  OBVIOUS
<1>1. w \in Worlds /\ Serving(w, i, s) /\ Progress(q, so, left) /\ SlotOK(q)
  BY DEF InProgress, Serving
<1>2. q.len \in Int /\ req \in Asked /\ req.clen \in Nat
  <2>1. q \in Slot /\ so \in Sock
    BY <1>1, WorldParts
  <2>2. req \in Asked
    BY <2>1 DEF Sock
  <2>. QED BY <2>1, <2>2, SlotParts, AskedParts
<1>3. unit \in Units /\ (q.len < 0 => unit = req)
  <2>1. at \in Nat \ {0} /\ (q.len < 0 => at = 1)
    BY <1>2
  <2>. HIDE DEF at
  <2>2. at - 1 \in Nat
    BY <2>1
  <2>. QED BY <1>2, <2>1, <2>2, AskedParts DEF Unit, Units
<1>4. unit = Unit(req, 2 + req.clen - left)
  OBVIOUS
<1>. HIDE DEF unit
<1>5. v.slot[i].len >= 0
  BY <1>1, <1>2, <1>3, Received
<1>6. CASE q.len < 0
  <2>1. left = 1 + req.clen /\ left - 1 = req.clen
    BY <1>2, <1>6
  <2>2. Fresh(q, so, 1 + req.clen)
    <3>1. ~Collecting(q, so, left) /\ ~Storing(q, so, left)
      BY <1>2, <1>6 DEF Collecting, Storing, Uploading, Buffered
    <3>2. ~Taken(q, so, left)
      BY <1>2, <1>6 DEF Taken, Asking, Sending, Over
    <3>. QED BY <1>1, <2>1, <3>1, <3>2 DEF Progress
  <2>. QED BY <1>1, <1>3, <1>5, <1>6, <2>1, <2>2, HeaderGoesOn
<1>7. CASE q.len = 0
  <2>1. v = w
    <3>. DEFINE head == httpdParseHeader(w, i, unit)
                post == [w EXCEPT !.slot[i].buff = Append(@, unit), !.slot[i].received = @ + 1]
                full == Len(q.buff) + 1 >= q.buffSize \/ q.received + 1 = q.len
                emptied == [httpdProcessRequest(post, i) EXCEPT !.slot[i].buff = <<>>]
    <3>1. v = CASE q.len < 0 -> IF head.slot[i].len = 0 THEN httpdProcessRequest(head, i) ELSE head
                [] q.len > 0 -> IF full THEN emptied ELSE post
                [] q.len = 0 -> w
      BY DEF Receive
    <3>2. ~(q.len < 0) /\ ~(q.len > 0) /\ q.len = 0
      BY <1>7
    <3>. HIDE DEF v, head, post, emptied, full, q
    <3>. QED BY <3>1, <3>2
  <2>. HIDE DEF v
  <2>2. InProgress(w, i, s, left - 1)
    BY <1>2, <1>7, SkippedGoesOn
  <2>3. ServedOnly(w, w, i, s)
    BY DEF ServedOnly, Aside, SameEnds
  <2>. QED BY <1>5, <2>1, <2>2, <2>3 DEF GoesOn
<1>8. CASE q.len > 0
  <2>. HIDE DEF v
  <2>. QED BY <1>3, <1>4, <1>5, <1>8, PostGoesOn DEF v
<1>. QED
  BY <1>2, <1>6, <1>7, <1>8

GoesOnTwice(w, u, v, i, s, left) ==
    (\E n : GoesOn(w, u, i, s, n)) /\ GoesOn(u, v, i, s, left) => GoesOn(w, v, i, s, left)

LEMMA GoingOn ==
    ASSUME NEW w, NEW u, NEW v, NEW i, NEW s \in Socks, NEW left
    PROVE  GoesOnTwice(w, u, v, i, s, left)
BY ServedOnlyTwice DEF GoesOn, GoesOnTwice

LEMMA PiecesGoOn ==
    ASSUME NEW w, NEW i \in Slots, NEW s \in Socks, NEW left \in Nat, InProgress(w, i, s, left),
           NEW req, req = w.sock[s].req, ShortPost(req), left <= 1 + req.clen,
           w.slot[i].len < 0 <=> left = 1 + req.clen,
           NEW n \in 0..left
    PROVE  GoesOn(w, LastPiece(w, i, req, 1 + req.clen - left, n), i, s, left - n)
<1>. DEFINE at == 1 + req.clen - left
            got == CHOOSE g : Pieces(g, w, i, req, at, n)
            Good(k) == /\ GoesOn(w, got[k], i, s, left - k)
                       /\ got[k].slot[i].len < 0 <=> k = 0 /\ left = 1 + req.clen
            U == {k \in Nat : k <= n => Good(k)}
<1>1. Pieces(got, w, i, req, at, n)
  BY PiecesGot
<1>2. req.clen \in Nat
  <2>1. w.sock[s] \in Sock
    BY WorldParts DEF InProgress, Serving
  <2>2. req \in Asked
    BY <2>1 DEF Sock
  <2>. QED BY <2>2, AskedParts
<1>. HIDE DEF got
<1>3. 0 \in U
  <2>1. got[0] = w
    BY <1>1 DEF Pieces
  <2>2. ServedOnly(w, w, i, s)
    BY DEF ServedOnly, Aside, SameEnds
  <2>3. left - 0 = left
    OBVIOUS
  <2>4. GoesOn(w, got[0], i, s, left - 0)
    BY <2>1, <2>2, <2>3 DEF GoesOn
  <2>. QED BY <2>1, <2>4
<1>4. \A k \in U : k + 1 \in U
  <2>. SUFFICES ASSUME NEW k \in Nat, k + 1 <= n, Good(k) PROVE Good(k + 1)
    OBVIOUS
  <2>. DEFINE m == left - k
              u == got[k]
              v == got[k + 1]
  <2>0. k + 1 \in 0..n /\ k + 1 # 0 /\ (k + 1) - 1 = k /\ n <= left
    OBVIOUS
  <2>1. v = Receive(u, i, Unit(req, at + (k + 1)))
    <3>. HIDE DEF at
    <3>. QED BY <1>1, <2>0 DEF Pieces
  <2>2. /\ at + (k + 1) = 2 + req.clen - m /\ m \in Nat \ {0} /\ m <= 1 + req.clen
        /\ m - 1 = left - (k + 1) /\ (k = 0 <=> m = left)
        /\ m = 1 + req.clen <=> k = 0 /\ left = 1 + req.clen
    <3>. DEFINE clen == req.clen
    <3>1. clen \in Nat /\ left <= 1 + clen /\ k + 1 <= left
      BY <1>2, <2>0
    <3>. HIDE DEF clen
    <3>2. /\ 1 + clen - left + (k + 1) = 2 + clen - m /\ m \in Nat \ {0} /\ m <= 1 + clen
          /\ m - 1 = left - (k + 1) /\ (k = 0 <=> m = left)
          /\ m = 1 + clen <=> k = 0 /\ left = 1 + clen
      BY <3>1
    <3>. HIDE DEF m
    <3>. QED BY <3>2 DEF clen
  <2>3. InProgress(u, i, s, m) /\ u.sock[s].req = req
    BY DEF GoesOn, ServedOnly, SameEnds
  <2>4. u.slot[i].len < 0 <=> m = 1 + req.clen
    BY <2>2
  <2>5. v = Receive(u, i, Unit(req, 2 + req.clen - m))
    BY <2>1, <2>2
  <2>. HIDE DEF m, v, u, at
  <2>6. GoesOn(u, v, i, s, m - 1) /\ v.slot[i].len >= 0
    BY <2>2, <2>3, <2>4, <2>5, UnitGoesOn
  <2>7. GoesOn(w, v, i, s, m - 1)
    <3>1. GoesOn(w, u, i, s, left - k)
      BY DEF u
    <3>. QED BY <2>6, <3>1, GoingOn DEF GoesOnTwice
  <2>8. v.slot[i].len \in Int
    BY <2>6, WorldParts, SlotParts DEF GoesOn, InProgress, Serving
  <2>9. ~(v.slot[i].len < 0) /\ k + 1 # 0
    BY <2>6, <2>8
  <2>. QED BY <2>2, <2>7, <2>9 DEF v
<1>5. U = Nat
  <2>1. U \subseteq Nat
    OBVIOUS
  <2>. HIDE DEF U
  <2>. QED BY <1>3, <1>4, <2>1, Induction
<1>6. Good(n)
  <2>1. n \in U /\ n <= n
    BY <1>5
  <2>. QED BY <2>1
<1>. QED
  BY <1>6 DEF got, LastPiece

-----------------------------------------------------------------------------
(* The callbacks *)

\* An upload that is answered with success is in flash.
Uploaded ==
    \A s \in Socks :
        /\ sock[s].answers = <<>> /\ sock'[s].answers = <<"200">>
        /\ Found(sock[s].req).cgi = "firmware"
        => InPlace(sock[s].req, flash')

\* A callback serves the connection s, whose data there are left units of.
Progresses(v, s, left) ==
    LET i == sock[s].reverse
    IN  /\ Become(v) /\ unread' = [unread EXCEPT ![s] = left] /\ left \in 0..unread[s]
        /\ i # NoSlot
        /\ \A j \in Slots : j # i => v.slot[j] = slot[j]
        /\ \A t \in Socks : t # s => v.sock[t] = sock[t]
        /\ v.sock[s].reverse = i /\ v.sock[s].req = sock[s].req
        /\ Found(sock[s].req).cgi # "firmware" \/ unread[s] = 0 => v.flash = flash
        /\ Progress(v.slot[i], v.sock[s], left)
        /\ FlashOK(v.slot[i], v.sock[s], v.flash)
        /\ sock[s].answers = <<>> => Intact(v.sock[s], v.flash)

\* Whoever is connected asks for something that is known to the pool.
LEMMA UploadArrives ==
    ASSUME AnswerInv, NEW t \in Socks, sock[t].reverse # NoSlot,
           slot[sock[t].reverse].cgi = "firmware"
    PROVE  Arrives(sock[t], unread[t])
<1>. DEFINE q == slot[sock[t].reverse]
<1>1. Progress(q, sock[t], unread[t]) /\ sock[t].st # "idle"
  BY DEF AnswerInv, HttpdInv
<1>2. ~Fresh(q, sock[t], unread[t]) /\ ~Collecting(q, sock[t], unread[t]) /\ ~Taken(q, sock[t], unread[t])
  BY TakenFlash DEF Fresh, Collecting
<1>3. Uploading(q, sock[t], unread[t])
  BY <1>1, <1>2 DEF Progress, Storing
<1>4. unread[t] \in Nat
  BY DEF AnswerInv, HttpdInv, HttpdType
<1>. QED
  BY <1>1, <1>3, <1>4, FoundParts DEF Arrives, Uploading

LEMMA Progressed ==
    ASSUME AnswerInv, HttpdInv', NEW s \in Socks, NEW v, NEW left, Progresses(v, s, left)
    PROVE  AnswerInv' /\ Uploaded
<1>. DEFINE i == sock[s].reverse
<1>1. /\ slot' = v.slot /\ sock' = v.sock /\ flash' = v.flash
      /\ unread' = [unread EXCEPT ![s] = left] /\ left \in 0..unread[s] /\ i # NoSlot
  BY DEF Progresses, Become
<1>2. /\ unread \in [Socks -> Nat] /\ unread'[s] = left
      /\ \A t \in Socks : t # s => unread'[t] = unread[t]
      /\ unread[s] = 0 => left = 0
  <2>1. unread \in [Socks -> Nat]
    BY DEF AnswerInv, HttpdInv, HttpdType
  <2>2. unread[s] = 0 => left = 0
    BY <1>1, <2>1
  <2>. QED BY <1>1, <2>1, <2>2
<1>3. i \in Slots /\ sock[s].st # "idle" /\ HttpdInv
  BY <1>1, Place DEF AnswerInv, HttpdInv
<1>4. OneUpload'
  <2>1. \A t \in Socks : Arrives(sock'[t], unread'[t]) => Arrives(sock[t], unread[t])
    BY <1>1, <1>2, <1>3 DEF Arrives, Progresses
  <2>. QED BY <2>1 DEF AnswerInv, OneUpload
<1>5. \A t \in Socks : sock'[t].reverse = NoSlot => sock'[t].answers = <<>>
  BY <1>1, <1>3 DEF Progresses, AnswerInv
<1>6. ASSUME NEW t \in Socks, sock'[t].reverse # NoSlot
      PROVE  /\ Progress(slot'[sock'[t].reverse], sock'[t], unread'[t])
             /\ FlashOK(slot'[sock'[t].reverse], sock'[t], flash')
  <2>1. CASE t = s
    BY <1>1, <1>2, <2>1 DEF Progresses
  <2>2. CASE t # s
    <3>. DEFINE j == sock[t].reverse
    <3>1. sock'[t] = sock[t] /\ unread'[t] = unread[t] /\ j # NoSlot
      BY <1>1, <1>2, <1>6, <2>2 DEF Progresses
    <3>2. j \in Slots /\ j # i
      BY <1>1, <1>3, <2>2, <3>1, Place
    <3>3. slot'[j] = slot[j]
      BY <1>1, <3>2 DEF Progresses
    <3>4. Progress(slot[j], sock[t], unread[t]) /\ FlashOK(slot[j], sock[t], flash)
      BY <3>1 DEF AnswerInv
    <3>5. FlashOK(slot[j], sock[t], flash')
      <4>1. CASE slot[j].cgi = "firmware"
        <5>1. Arrives(sock[t], unread[t])
          BY <3>1, <4>1, UploadArrives
        <5>2. ~Arrives(sock[s], unread[s])
          BY <2>2, <5>1 DEF AnswerInv, OneUpload
        <5>3. Found(sock[s].req).cgi # "firmware" \/ unread[s] = 0
          BY <1>3, <5>2, FoundParts DEF Arrives
        <5>. QED BY <1>1, <3>4, <5>3 DEF Progresses
      <4>2. CASE slot[j].cgi # "firmware"
        BY <4>2 DEF FlashOK
      <4>. QED BY <4>1, <4>2
    <3>. QED BY <3>1, <3>3, <3>4, <3>5
  <2>. QED BY <2>1, <2>2
<1>7. Uploaded
  <2>. SUFFICES ASSUME NEW t \in Socks, sock[t].answers = <<>>, sock'[t].answers = <<"200">>,
                       Found(sock[t].req).cgi = "firmware"
                PROVE  InPlace(sock[t].req, flash')
    BY DEF Uploaded
  <2>1. t = s
    <3>1. <<>> # <<"200">>
      OBVIOUS
    <3>. QED BY <1>1, <3>1 DEF Progresses
  <2>. QED BY <1>1, <2>1 DEF Progresses, Intact
<1>. QED
  BY <1>4, <1>5, <1>6, <1>7 DEF AnswerInv

LEMMA ShortAll ==
    ASSUME ShortPosts, NEW req \in Asked
    PROVE  ShortPost(req)
<1>1. CASE req = NoRequest
  <2>1. req.clen = 0 /\ MAX_POST \in Nat \ {0}
    BY <1>1, HttpdAssumption DEF NoRequest
  <2>. QED BY <2>1 DEF ShortPost
<1>2. CASE req # NoRequest
  <2>1. req \in UNION {Requests[s] : s \in Socks}
    <3>. DEFINE All == UNION {Requests[s] : s \in Socks}
    <3>1. req \in All \cup {NoRequest}
      BY DEF Asked
    <3>. HIDE DEF All
    <3>2. req \in All
      BY <1>2, <3>1
    <3>. QED BY <3>2 DEF All
  <2>2. PICK s \in Socks : req \in Requests[s]
    BY <2>1, Zenon
  <2>. QED BY <2>2 DEF ShortPosts, ShortPost
<1>. QED
  BY <1>1, <1>2

LEMMA RecvAnswers ==
    ASSUME ShortPosts, AnswerInv, NEW s \in Socks, httpdRecvCb(s), HttpdInv'
    PROVE  AnswerInv' /\ Uploaded
<1>. DEFINE i == sock[s].reverse
            req == sock[s].req
            left == unread[s]
            at == 1 + req.clen - left
<1>1. PICK n \in 1..left :
         /\ Become(LastPiece(World, i, req, at, n))
         /\ unread' = [unread EXCEPT ![s] = @ - n]
  BY DEF httpdRecvCb, LastPiece, Pieces
<1>. DEFINE v == LastPiece(World, i, req, at, n)
<1>2. i # NoSlot /\ HttpdInv
  BY DEF httpdRecvCb, AnswerInv
<1>3. /\ i \in Slots /\ SlotOK(slot[i]) /\ World \in Worlds /\ World.slot = slot
      /\ World.sock = sock /\ World.flash = flash /\ World.out = <<>> /\ slot[i].conn = s
  BY <1>2, Place, WorldHere DEF HttpdInv, World
<1>4. /\ req \in Asked /\ req.clen \in Nat /\ left \in Nat /\ at \in Nat
      /\ slot[i].len < 0 <=> at = 0
  BY <1>2, Arriving
<1>5. /\ left <= 1 + req.clen /\ (at = 0 <=> left = 1 + req.clen)
      /\ n \in 0..left /\ left - n \in 0..left /\ left # 0
  BY <1>1, <1>4
<1>6. ShortPost(req)
  BY <1>4, ShortAll
<1>7. InProgress(World, i, s, left)
  BY <1>2, <1>3 DEF InProgress, Serving, AnswerInv
<1>8. World.slot[i].len < 0 <=> left = 1 + req.clen
  BY <1>3, <1>4, <1>5
<1>9. req = World.sock[s].req
  BY <1>3
<1>10. GoesOn(World, v, i, s, left - n)
  <2>. HIDE DEF v, req, i, left
  <2>1. GoesOn(World, LastPiece(World, i, req, 1 + req.clen - left, n), i, s, left - n)
    BY <1>3, <1>4, <1>5, <1>6, <1>7, <1>8, <1>9, PiecesGoOn
  <2>. QED BY <2>1 DEF v
<1>11. Become(v) /\ unread' = [unread EXCEPT ![s] = left - n]
  BY <1>1
<1>. HIDE DEF v
<1>12. sock[s].answers = <<>> => Intact(v.sock[s], v.flash)
  <2>. SUFFICES ASSUME sock[s].answers = <<>> PROVE Intact(v.sock[s], v.flash)
    OBVIOUS
  <2>1. <<>> # <<"200">>
    OBVIOUS
  <2>2. Intact(World.sock[s], World.flash)
    BY <1>3, <2>1 DEF Intact
  <2>. QED BY <1>10, <2>2 DEF GoesOn
<1>13. Progresses(v, s, left - n)
  BY <1>2, <1>3, <1>5, <1>10, <1>11, <1>12
     DEF Progresses, GoesOn, InProgress, ServedOnly, Aside, SameEnds
<1>. QED
  BY <1>13, Progressed

\* What a file has been sent of when its next chunk is
NextOf(req, k, data, n) ==
    /\ Found(req).cgi = "file" /\ k \in Nat
    /\ data = k * CHUNK /\ data <= FileLen[req.url]
    /\ n = Min2(CHUNK, FileLen[req.url] - data)

LEMMA NextChunk ==
    ASSUME NEW req, NEW k, NEW data, NEW n, NextOf(req, k, data, n)
    PROVE  /\ n \in Nat
           /\ n = CHUNK => /\ SubSeq(Whole(req), 1, k + 1) \o <<n>> = SubSeq(Whole(req), 1, (k + 1) + 1)
                           /\ data + n = (k + 1) * CHUNK /\ data + n <= FileLen[req.url]
           /\ n # CHUNK =>
                 SubSeq(Whole(req), 1, k + 1) \o (IF n > 0 THEN <<n>> ELSE <<>>) = Whole(req)
<1>. DEFINE a == Whole(req)
            l == FileLen[req.url]
            c == Chunks(l)
            z == CHUNK
            y == k * CHUNK
<1>1. l \in Nat /\ z \in Nat \ {0} /\ k \in Nat
  BY HttpdAssumption, UrlParts DEF Found, NextOf
<1>2. /\ a \in Seq(Answer) /\ Len(a) = 1 + Len(c) /\ Len(c) \in Nat
      /\ \A m \in 1..Len(c) : a[m + 1] = c[m]
  BY WholeParts DEF NextOf
<1>3. /\ z * (k + 1) <= l => Len(c) >= k + 1 /\ c[k + 1] = z
      /\ l < z * (k + 1) => Len(c) = (IF l > y THEN k + 1 ELSE k)
      /\ l < z * (k + 1) /\ l > y => c[k + 1] = l - y
  <2>1. y <= l
    BY DEF NextOf
  <2>2. l \in Nat
    BY <1>1
  <2>. HIDE DEF l
  <2>. QED BY <1>1, <2>1, <2>2, ChunkCount
<1>4. y \in Nat /\ z * (k + 1) = y + z /\ (k + 1) * CHUNK = y + z
  <2>1. k * CHUNK \in Nat /\ CHUNK * (k + 1) = k * CHUNK + CHUNK
        /\ (k + 1) * CHUNK = k * CHUNK + CHUNK
    BY <1>1
  <2>. QED BY <2>1
<1>5. n = Min2(z, l - y) /\ y <= l /\ data = y
  BY DEF NextOf
<1>. HIDE DEF a, l, c, z, y
<1>6. /\ n \in Nat
      /\ n = z => y + z <= l
      /\ n # z => l < y + z /\ n = l - y
      /\ data + n = y + n
  BY <1>1, <1>4, <1>5 DEF Min2
<1>7. CASE n = z
  <2>1. Len(c) >= k + 1 /\ c[k + 1] = n
    BY <1>3, <1>4, <1>6, <1>7
  <2>2. (k + 1) + 1 <= Len(a) /\ a[(k + 1) + 1] = n
    <3>1. k + 1 \in 1..Len(c)
      BY <1>1, <1>2, <2>1
    <3>2. (k + 1) + 1 <= 1 + Len(c)
      BY <1>1, <1>2, <2>1
    <3>. QED BY <1>2, <2>1, <3>1, <3>2
  <2>3. SubSeq(a, 1, (k + 1) + 1) = SubSeq(a, 1, k + 1) \o <<a[(k + 1) + 1]>>
    <3>1. k + 1 \in Nat
      BY <1>1
    <3>. DEFINE h == k + 1
    <3>2. h \in Nat /\ h + 1 <= Len(a)
      BY <2>2, <3>1
    <3>. HIDE DEF h
    <3>3. SubSeq(a, 1, h + 1) = SubSeq(a, 1, h) \o <<a[h + 1]>>
      BY <1>2, <3>2, PrefixMore
    <3>. QED BY <3>3 DEF h
  <2>4. data + n = (k + 1) * CHUNK /\ data + n <= l
    BY <1>4, <1>5, <1>6, <1>7
  <2>. QED BY <1>6, <1>7, <2>2, <2>3, <2>4 DEF a, l, z
<1>8. CASE n # z
  <2>1. l < z * (k + 1) /\ (l > y <=> n > 0) /\ (n > 0 => n = l - y)
    BY <1>1, <1>4, <1>5, <1>6, <1>8
  <2>2. Len(c) = (IF n > 0 THEN k + 1 ELSE k) /\ (n > 0 => c[k + 1] = n)
    BY <1>3, <2>1
  <2>3. SubSeq(a, 1, Len(a)) = a
    BY <1>2
  <2>4. CASE n > 0
    <3>1. Len(a) = (k + 1) + 1 /\ k + 1 \in 1..Len(c)
      <4>1. Len(c) = k + 1
        BY <2>2, <2>4
      <4>. QED BY <1>1, <1>2, <4>1
    <3>2. a[(k + 1) + 1] = n
      BY <1>2, <2>2, <2>4, <3>1
    <3>. DEFINE h == k + 1
    <3>3. h \in Nat /\ h + 1 <= Len(a)
      BY <1>1, <3>1
    <3>. HIDE DEF h
    <3>4. SubSeq(a, 1, h + 1) = SubSeq(a, 1, h) \o <<a[h + 1]>>
      BY <1>2, <3>3, PrefixMore
    <3>5. SubSeq(a, 1, k + 1) \o <<n>> = a
      BY <2>3, <3>1, <3>2, <3>4 DEF h
    <3>. QED BY <1>6, <1>8, <2>4, <3>5 DEF a, z
  <2>5. CASE ~(n > 0)
    <3>1. Len(a) = k + 1
      <4>1. Len(c) = k
        BY <2>2, <2>5
      <4>. QED BY <1>1, <1>2, <4>1
    <3>2. SubSeq(a, 1, k + 1) = a /\ a \o <<>> = a
      BY <1>2, <2>3, <3>1
    <3>. QED BY <1>6, <1>8, <2>5, <3>2 DEF a, z
  <2>. QED BY <2>4, <2>5
<1>. QED
  BY <1>7, <1>8

\* What has been sent is counted.
Counted(w, v, s) ==
    /\ v \in Worlds /\ SameEnds(w, v) /\ v.slot = w.slot /\ v.flash = w.flash /\ v.out = w.out
    /\ \A t \in Socks : t # s => v.sock[t] = w.sock[t]
    /\ v.sock[s].sent = w.sock[s].sent - 1 /\ v.sock[s].answers = w.sock[s].answers

LEMMA CountedParts ==
    ASSUME NEW w \in Worlds, NEW s \in Socks
    PROVE  Counted(w, [w EXCEPT !.sock[s].sent = @ - 1], s)
<1>. DEFINE v == [w EXCEPT !.sock[s].sent = @ - 1]
<1>. SUFFICES Counted(w, v, s)
  OBVIOUS
<1>. DEFINE so == [w.sock[s] EXCEPT !.sent = @ - 1]
<1>1. w.sock[s] \in Sock
  BY WorldParts
<1>2. so.sent = w.sock[s].sent - 1 /\ so.answers = w.sock[s].answers
  BY <1>1 DEF Sock
<1>3. v = [w EXCEPT !.sock = [w.sock EXCEPT ![s] = so]]
  BY DEF Worlds
<1>4. OnlySends(w, v)
  BY SentCounted
<1>. HIDE DEF so, v
<1>5. /\ v.flash = w.flash /\ v.out = w.out /\ v.sock[s] = so
      /\ \A t \in Socks : t # s => v.sock[t] = w.sock[t]
  BY <1>3 DEF Worlds
<1>. QED
  BY <1>2, <1>4, <1>5 DEF OnlySends, Counted

\* v is w without the handler of place i.
GivesUp(w, v, i) ==
    /\ v \in Worlds /\ v.sock = w.sock /\ v.flash = w.flash /\ v.out = w.out
    /\ v.slot[i].cgi = "NULL" /\ v.slot[i].len = w.slot[i].len
    /\ \A j \in Slots : j # i => v.slot[j] = w.slot[j]

LEMMA GivenUp ==
    ASSUME NEW w \in Worlds, NEW i \in Slots, NEW v, v = [w EXCEPT !.slot[i].cgi = "NULL"]
    PROVE  GivesUp(w, v, i)
<1>. DEFINE p == [w.slot[i] EXCEPT !.cgi = "NULL"]
<1>1. w.slot[i] \in Slot
  BY WorldParts
<1>2. p \in Slot /\ p.cgi = "NULL" /\ p.len = w.slot[i].len
  BY <1>1 DEF Slot
<1>3. v = SlotPut(w, i, p)
  BY DEF SlotPut, Worlds
<1>. HIDE DEF p
<1>4. Puts(w, v, i, p)
  BY <1>2, <1>3, PutParts
<1>. QED
  BY <1>2, <1>4 DEF Puts, GivesUp

\* v is w after the next chunk of the file was sent to s.
Sends(w, v, i, s) ==
    /\ v \in Worlds /\ v.flash = w.flash /\ SameEnds(w, v)
    /\ \A j \in Slots : j # i => v.slot[j] = w.slot[j]
    /\ \A t \in Socks : t # s => v.sock[t] = w.sock[t]
    /\ Sending(v.slot[i], v.sock[s], 0, 1) \/ Over(v.slot[i], v.sock[s], 0)

LEMMA ChunkSent ==
    ASSUME NEW w \in Worlds, NEW i \in Slots, NEW s \in Socks, w.slot[i].conn = s, w.out = <<>>,
           SlotOK(w.slot[i]), Sending(w.slot[i], w.sock[s], 0, 0)
    PROVE  LET called == CallCgi(w, i)
           IN  Sends(w, httpdFlush(IF called.r = "MORE" THEN called
                                   ELSE [called EXCEPT !.slot[i].cgi = "NULL"], i), i, s)
<1>. DEFINE q == w.slot[i]
            so == w.sock[s]
            req == so.req
            n == Min2(CHUNK, FileLen[q.req.url] - q.data)
            called == CallCgi(w, i)
            p == called.slot[i]
            done == [called EXCEPT !.slot[i].cgi = "NULL"]
            u == IF called.r = "MORE" THEN called ELSE done
            v == httpdFlush(u, i)
<1>. SUFFICES Sends(w, v, i, s)
  OBVIOUS
<1>1. /\ q.cgi = "file" /\ Found(req).cgi = "file" /\ ~Refused(req) /\ q.req = req
      /\ q.len >= 0 /\ so.st = "up" /\ so.sent = 0
  BY DEF Sending
<1>2. PICK k \in Nat : /\ q.data = k * CHUNK /\ q.data <= FileLen[req.url]
                       /\ so.answers = SubSeq(Whole(req), 1, k + 1)
  BY DEF Sending
<1>3. q.data # NULL
  <2>1. k * CHUNK \in Nat
    BY HttpdAssumption
  <2>. QED BY <1>2, <2>1 DEF NULL
<1>4. called = cgiEspFsHook(w, i)
  BY <1>1 DEF CallCgi
<1>5. Reads(w, called, i, s, n)
  BY <1>1, <1>3, <1>4, FileReads
<1>. HIDE DEF called
<1>6. NextOf(req, k, q.data, n)
  BY <1>1, <1>2 DEF NextOf
<1>. HIDE DEF n
<1>7. /\ n \in Nat
      /\ n = CHUNK => /\ SubSeq(Whole(req), 1, k + 1) \o <<n>> = SubSeq(Whole(req), 1, (k + 1) + 1)
                      /\ q.data + n = (k + 1) * CHUNK /\ q.data + n <= FileLen[req.url]
      /\ n # CHUNK =>
            SubSeq(Whole(req), 1, k + 1) \o (IF n > 0 THEN <<n>> ELSE <<>>) = Whole(req)
      /\ CHUNK \in Nat \ {0}
  BY <1>6, NextChunk, HttpdAssumption
<1>8. /\ called \in Worlds /\ called.flash = w.flash /\ called.out = <<>> /\ SameEnds(w, called)
      /\ Aside(w, called, i, s) /\ SameRequest(q, p) /\ p.data = q.data + n
      /\ called.r = (IF n # CHUNK THEN "DONE" ELSE "MORE")
      /\ called.sock[s].sent = 0 + (IF n > 0 THEN 1 ELSE 0)
      /\ called.sock[s].answers = so.answers \o (IF n > 0 THEN <<n>> ELSE <<>>)
  BY <1>1, <1>5 DEF Reads
<1>9. CASE n = CHUNK
  <2>1. u = called /\ v = called
    BY <1>8, <1>9 DEF httpdFlush
  <2>. HIDE DEF u, v
  <2>2. called.sock[s].sent = 1 /\ n > 0
    BY <1>7, <1>8, <1>9
  <2>3. /\ p.data = (k + 1) * CHUNK /\ p.data <= FileLen[req.url] /\ k + 1 \in Nat
        /\ called.sock[s].answers = SubSeq(Whole(req), 1, (k + 1) + 1)
    BY <1>2, <1>7, <1>8, <1>9, <2>2
  <2>4. called.sock[s].req = req /\ called.sock[s].st = "up"
    BY <1>1, <1>8 DEF SameEnds
  <2>5. Sending(p, called.sock[s], 0, 1)
    BY <1>1, <1>8, <2>2, <2>3, <2>4 DEF Sending, SameRequest
  <2>. QED BY <1>8, <2>1, <2>5 DEF Sends, Aside
<1>10. CASE n # CHUNK
  <2>1. u = done /\ "DONE" # "MORE"
    BY <1>8, <1>10
  <2>2. GivesUp(called, done, i)
    BY <1>8, GivenUp
  <2>. HIDE DEF done
  <2>3. v = done
    BY <1>8, <2>1, <2>2 DEF httpdFlush, GivesUp
  <2>. HIDE DEF u, v
  <2>4. done.sock[s].sent \in {0, 1}
    BY <1>8, <2>2 DEF GivesUp
  <2>5. done.sock[s].answers = Whole(req)
    BY <1>2, <1>7, <1>8, <1>10, <2>2 DEF GivesUp
  <2>6. Answers(req) = {Whole(req)}
    BY <1>1, AnswerSets
  <2>7. /\ SameEnds(w, done) /\ done.sock[s].req = req /\ done.sock[s].st = "up"
        /\ done.slot[i].len >= 0 /\ done.slot[i].cgi = "NULL"
    BY <1>1, <1>8, <2>2 DEF SameEnds, GivesUp, SameRequest
  <2>8. Over(done.slot[i], done.sock[s], 0)
    BY <2>4, <2>5, <2>6, <2>7 DEF Over
  <2>. QED BY <1>8, <2>2, <2>3, <2>7, <2>8 DEF Sends, GivesUp, Aside
<1>. QED
  BY <1>9, <1>10

LEMMA SentAnswers ==
    ASSUME AnswerInv, NEW s \in Socks, httpdSentCb(s), HttpdInv'
    PROVE  AnswerInv' /\ Uploaded
<1>. DEFINE i == sock[s].reverse
            w == [World EXCEPT !.sock[s].sent = @ - 1]
            closed == [w EXCEPT !.sock[s].st = "closing"]
            called == CallCgi(w, i)
            v == httpdFlush(IF called.r = "MORE" THEN called
                            ELSE [called EXCEPT !.slot[i].cgi = "NULL"], i)
<1>1. /\ World \in Worlds /\ World.slot = slot /\ World.sock = sock /\ World.flash = flash
      /\ World.out = <<>> /\ HttpdInv
  BY WorldHere DEF AnswerInv, HttpdInv, World
<1>0. w = [World EXCEPT !.sock[s].sent = @ - 1]
  OBVIOUS
<1>4. \/ i = NoSlot /\ Become(w)
      \/ i # NoSlot /\ slot[i].cgi = "NULL" /\ Become(closed)
      \/ i # NoSlot /\ slot[i].cgi # "NULL" /\ Become(v)
  BY DEF httpdSentCb
<1>. HIDE DEF w
<1>2. /\ w \in Worlds /\ SameEnds(World, w) /\ w.slot = slot /\ w.flash = flash /\ w.out = <<>>
      /\ \A t \in Socks : t # s => w.sock[t] = sock[t]
      /\ w.sock[s].sent = sock[s].sent - 1 /\ w.sock[s].answers = sock[s].answers
  <2>1. /\ w \in Worlds /\ SameEnds(World, w) /\ w.slot = World.slot /\ w.flash = World.flash
        /\ w.out = World.out
        /\ \A t \in Socks : t # s => w.sock[t] = World.sock[t]
        /\ w.sock[s].sent = World.sock[s].sent - 1 /\ w.sock[s].answers = World.sock[s].answers
    <3>1. Counted(World, w, s)
      BY <1>0, <1>1, CountedParts
    <3>. QED BY <3>1 DEF Counted
  <2>. QED BY <1>1, <2>1
<1>3. unread' = unread /\ sock[s].sent > 0
  BY DEF httpdSentCb
<1>5. unread[s] \in Nat /\ unread' = [unread EXCEPT ![s] = unread[s]] /\ unread[s] \in 0..unread[s]
  BY <1>1, <1>3 DEF HttpdInv, HttpdType
<1>6. w.sock[s].reverse = i /\ w.sock[s].req = sock[s].req /\ w.sock[s].st = sock[s].st
  BY <1>1, <1>2 DEF SameEnds
<1>7. CASE i = NoSlot /\ Become(w)
  <2>1. /\ slot' = slot /\ sock' = w.sock /\ flash' = flash
    BY <1>2, <1>7 DEF Become
  <2>2. \A t \in Socks : /\ sock'[t].reverse = sock[t].reverse /\ sock'[t].req = sock[t].req
                         /\ sock'[t].st = sock[t].st /\ sock'[t].answers = sock[t].answers
                         /\ sock[t].reverse # NoSlot => sock'[t] = sock[t]
    BY <1>2, <1>6, <1>7, <2>1
  <2>3. OneUpload'
    BY <1>3, <2>2 DEF AnswerInv, OneUpload, Arrives
  <2>4. Uploaded
    <3>1. <<>> # <<"200">>
      OBVIOUS
    <3>. QED BY <2>2, <3>1 DEF Uploaded
  <2>. QED BY <1>3, <2>1, <2>2, <2>3, <2>4 DEF AnswerInv
<1>8. CASE i # NoSlot
  <2>1. i \in Slots /\ slot[i].conn = s /\ SlotOK(slot[i])
    BY <1>1, <1>8, Place
  <2>2. Progress(slot[i], sock[s], unread[s])
    BY <1>8 DEF AnswerInv
  <2>3. ~Waiting(sock[s])
    BY <1>3 DEF Waiting
  <2>4. Sending(slot[i], sock[s], unread[s], 1) \/ Over(slot[i], sock[s], unread[s])
    BY <2>2, <2>3 DEF Progress, Fresh, Collecting, Storing, Uploading, Taken, Asking
  <2>5. CASE slot[i].cgi = "NULL" /\ Become(closed)
    <3>. DEFINE so == [w.sock[s] EXCEPT !.st = "closing"]
    <3>1. w.sock[s] \in Sock
      BY <1>2, WorldParts
    <3>2. /\ so.reverse = w.sock[s].reverse /\ so.req = w.sock[s].req /\ so.st = "closing"
          /\ so.sent = w.sock[s].sent /\ so.answers = w.sock[s].answers
      BY <3>1 DEF Sock
    <3>3. closed = [w EXCEPT !.sock = [w.sock EXCEPT ![s] = so]]
      BY <1>2 DEF Worlds
    <3>. HIDE DEF so, closed
    <3>4. /\ closed.slot = slot /\ closed.flash = flash /\ closed.sock[s] = so
          /\ \A t \in Socks : t # s => closed.sock[t] = sock[t]
      BY <1>2, <3>3 DEF Worlds
    <3>5. Over(slot[i], sock[s], unread[s])
      BY <2>4, <2>5 DEF Sending
    <3>6. sock[s].answers \in Answers(sock[s].req) /\ sock[s].sent = 1
      BY <1>3, <2>3, <3>5 DEF Over
    <3>7. Over(slot[i], so, unread[s])
      BY <1>2, <1>6, <3>2, <3>5, <3>6 DEF Over
    <3>8. Progress(slot[i], so, unread[s]) /\ FlashOK(slot[i], so, flash)
      BY <2>5, <3>7 DEF Progress, Taken, FlashOK
    <3>9. sock[s].answers = <<>> => Intact(so, flash)
      <4>1. <<>> # <<"200">>
        OBVIOUS
      <4>. QED BY <1>2, <3>2, <4>1 DEF Intact
    <3>10. Progresses(closed, s, unread[s])
      BY <1>5, <1>6, <1>8, <2>5, <3>2, <3>4, <3>8, <3>9 DEF Progresses
    <3>. QED BY <3>10, Progressed
  <2>6. CASE slot[i].cgi # "NULL" /\ Become(v)
    <3>1. Sending(slot[i], sock[s], unread[s], 1)
      BY <2>4, <2>6 DEF Over
    <3>2. Sending(w.slot[i], w.sock[s], 0, 0) /\ unread[s] = 0
      BY <1>2, <1>6, <3>1 DEF Sending
    <3>3. Sends(w, v, i, s)
      BY <1>2, <2>1, <3>2, ChunkSent
    <3>. HIDE DEF v
    <3>4. /\ v.flash = flash /\ v.sock[s].reverse = i /\ v.sock[s].req = sock[s].req
          /\ \A j \in Slots : j # i => v.slot[j] = slot[j]
          /\ \A t \in Socks : t # s => v.sock[t] = sock[t]
      BY <1>2, <1>6, <3>3 DEF Sends, SameEnds
    <3>5. Taken(v.slot[i], v.sock[s], 0)
      BY <3>3 DEF Sends, Taken
    <3>6. Progress(v.slot[i], v.sock[s], 0) /\ FlashOK(v.slot[i], v.sock[s], v.flash)
      BY <3>5, TakenFlash DEF Progress, FlashOK
    <3>7. Intact(v.sock[s], v.flash)
      BY <3>1, <3>4 DEF Intact, Sending
    <3>8. Progresses(v, s, unread[s])
      BY <1>5, <1>8, <2>6, <3>2, <3>4, <3>6, <3>7 DEF Progresses
    <3>. QED BY <3>8, Progressed
  <2>. QED BY <1>4, <1>8, <2>5, <2>6
<1>. QED
  BY <1>4, <1>7, <1>8

\* Of a connection that begins or ends, nothing has been sent.
Changes(s) ==
    /\ flash' = flash
    /\ \A t \in Socks : t # s =>
          /\ sock'[t] = sock[t] /\ unread'[t] = unread[t]
          /\ sock[t].reverse # NoSlot => slot'[sock[t].reverse] = slot[sock[t].reverse]
    /\ sock'[s].answers = <<>>
    /\ Arrives(sock'[s], unread'[s]) => \A t \in Socks : t # s => ~Arrives(sock[t], unread[t])
    /\ sock'[s].reverse # NoSlot => Fresh(slot'[sock'[s].reverse], sock'[s], unread'[s])

LEMMA Changed ==
    ASSUME AnswerInv, HttpdInv', NEW s \in Socks, Changes(s)
    PROVE  AnswerInv' /\ Uploaded
<1>1. OneUpload'
  <2>. SUFFICES ASSUME NEW t \in Socks, NEW u \in Socks,
                       Arrives(sock'[t], unread'[t]), Arrives(sock'[u], unread'[u])
                PROVE  t = u
    BY DEF OneUpload
  <2>. QED BY DEF Changes, AnswerInv, OneUpload
<1>2. \A t \in Socks : sock'[t].reverse = NoSlot => sock'[t].answers = <<>>
  BY DEF Changes, AnswerInv
<1>3. ASSUME NEW t \in Socks, sock'[t].reverse # NoSlot
      PROVE  /\ Progress(slot'[sock'[t].reverse], sock'[t], unread'[t])
             /\ FlashOK(slot'[sock'[t].reverse], sock'[t], flash')
  <2>1. CASE t = s
    BY <1>3, <2>1 DEF Changes, Progress, FlashOK, Fresh
  <2>2. CASE t # s
    BY <1>3, <2>2 DEF Changes, AnswerInv
  <2>. QED BY <2>1, <2>2
<1>4. Uploaded
  <2>1. <<>> # <<"200">>
    OBVIOUS
  <2>. QED BY <2>1 DEF Uploaded, Changes
<1>. QED
  BY <1>1, <1>2, <1>3, <1>4 DEF AnswerInv

LEMMA NothingChanged ==
    ASSUME AnswerInv, HttpdInv', slot' = slot, sock' = sock, unread' = unread, flash' = flash
    PROVE  AnswerInv' /\ Uploaded
<1>1. <<>> # <<"200">>
  OBVIOUS
<1>. QED
  BY <1>1 DEF AnswerInv, OneUpload, Uploaded

\* A handler that is called to clean up sends nothing and writes nothing.
Quiet(w, v) == v.sock = w.sock /\ v.flash = w.flash

LEMMA RetiresQuietly ==
    ASSUME NEW w \in Worlds, NEW i \in Slots, SlotOK(w.slot[i])
    PROVE  Quiet(w, httpdRetireConn(w, i))
<1>. DEFINE alone == [w.slot[i] EXCEPT !.conn = NoSock]
            w1 == [w EXCEPT !.slot[i].conn = NoSock]
            called == CallCgi(w1, i)
            w2 == IF w1.slot[i].cgi = "NULL" THEN w1 ELSE called
            v == httpdRetireConn(w, i)
<1>. SUFFICES Quiet(w, v)
  OBVIOUS
<1>1. v = [w2 EXCEPT !.slot[i] = FreeSlot]
  BY DEF httpdRetireConn
<1>. HIDE DEF v
<1>2. w.slot[i] \in Slot
  BY WorldParts
<1>3. alone \in Slot /\ alone.conn = NoSock /\ SlotOK(alone)
  BY <1>2 DEF Slot, SlotOK
<1>4. w1 = SlotPut(w, i, alone)
  BY <1>2 DEF SlotPut, Worlds
<1>. HIDE DEF alone, w1
<1>5. w1 \in Worlds /\ w1.slot[i] = alone /\ Quiet(w, w1)
  <2>1. Puts(w, w1, i, alone)
    BY <1>3, <1>4, PutParts
  <2>. QED BY <2>1 DEF Puts, Quiet
<1>6. CASE alone.cgi = "NULL"
  BY <1>1, <1>5, <1>6 DEF Quiet, Worlds
<1>7. CASE alone.cgi # "NULL"
  <2>1. called \in Worlds
    BY <1>3, <1>5, <1>7, CgiHandled DEF Handled
  <2>2. Quiet(w1, called)
    <3>1. alone.cgi \in {"file", "firmware", "json"}
      BY <1>3, <1>7, SlotParts
    <3>2. CASE alone.cgi = "file"
      <4>1. called = Returns(espFsClose(w1, alone.data), "DONE")
        BY <1>3, <1>5, <3>2 DEF CallCgi, cgiEspFsHook
      <4>. HIDE DEF called
      <4>. QED BY <1>5, <4>1 DEF Returns, espFsClose, Quiet, Worlds
    <3>3. CASE alone.cgi = "firmware"
      <4>1. called = Returns(w1, "DONE")
        BY <1>3, <1>5, <3>3 DEF CallCgi, cgiUploadFirmware
      <4>. HIDE DEF called
      <4>. QED BY <1>5, <4>1 DEF Returns, Quiet, Worlds
    <3>4. CASE alone.cgi = "json"
      <4>1. called = Returns(w1, "DONE")
        BY <1>3, <1>5, <3>4 DEF CallCgi, WEB_CgiJsonHook
      <4>. HIDE DEF called
      <4>. QED BY <1>5, <4>1 DEF Returns, Quiet, Worlds
    <3>. QED BY <3>1, <3>2, <3>3, <3>4
  <2>. HIDE DEF called
  <2>. QED BY <1>1, <1>5, <1>7, <2>1, <2>2 DEF Quiet, Worlds
<1>. QED
  BY <1>6, <1>7

LEMMA DisconAnswers ==
    ASSUME AnswerInv, NEW s \in Socks, httpdDisconCb(s), HttpdInv'
    PROVE  AnswerInv' /\ Uploaded
<1>. DEFINE i == sock[s].reverse
            w == [World EXCEPT !.sock[s] = IdleSock]
            retired == httpdRetireConn(w, i)
            v == IF i = NoSlot THEN w ELSE retired
<1>1. Become(v) /\ unread' = [unread EXCEPT ![s] = 0]
  BY DEF httpdDisconCb
<1>2. /\ World \in Worlds /\ World.slot = slot /\ World.sock = sock /\ World.flash = flash
      /\ HttpdInv
  BY WorldHere DEF AnswerInv, HttpdInv, World
<1>3. /\ w \in Worlds /\ w.slot = slot /\ w.flash = flash
      /\ w.sock[s] = IdleSock /\ \A t \in Socks : t # s => w.sock[t] = sock[t]
  BY <1>2, FreeParts DEF Worlds
<1>. HIDE DEF w
<1>4. \A t \in Socks : t # s => unread'[t] = unread[t]
  BY <1>1, <1>2 DEF HttpdInv, HttpdType
<1>5. Quiet(w, v) /\ (i # NoSlot => \A j \in Slots : j # i => v.slot[j] = slot[j])
      /\ (i = NoSlot => v.slot = slot)
  <2>1. CASE i = NoSlot
    BY <1>3, <2>1 DEF Quiet
  <2>2. CASE i # NoSlot
    <3>1. i \in Slots /\ SlotOK(w.slot[i])
      BY <1>2, <1>3, <2>2, Place
    <3>2. Quiet(w, retired)
      BY <1>3, <3>1, RetiresQuietly
    <3>3. \A j \in Slots : j # i => retired.slot[j] = w.slot[j]
      BY <1>3, <3>1, Retired
    <3>. QED BY <1>3, <2>2, <3>2, <3>3
  <2>. QED BY <2>1, <2>2
<1>. HIDE DEF v
<1>6. /\ sock'[s] = IdleSock /\ \A t \in Socks : t # s => sock'[t] = sock[t]
      /\ flash' = flash /\ slot' = v.slot
  BY <1>1, <1>3, <1>5 DEF Become, Quiet
<1>7. ASSUME NEW t \in Socks, t # s, sock[t].reverse # NoSlot
      PROVE  slot'[sock[t].reverse] = slot[sock[t].reverse]
  <2>1. sock[t].reverse \in Slots
    BY <1>2, <1>7, Place
  <2>2. i # NoSlot => sock[t].reverse # i
    BY <1>2, <1>7, Place
  <2>. QED BY <1>5, <1>6, <2>1, <2>2
<1>8. IdleSock.st = "idle" /\ IdleSock.reverse = NoSlot /\ IdleSock.answers = <<>>
  BY FreeParts DEF IdleSock
<1>9. Changes(s)
  BY <1>4, <1>6, <1>7, <1>8 DEF Changes, Arrives
<1>. QED
  BY <1>9, Changed

LEMMA DataAnswers ==
    ASSUME AnswerInv, NEW s \in Socks, WEB_Data(s), HttpdInv'
    PROVE  AnswerInv' /\ Uploaded
<1>1. PICK asked \in {mcu.asked, mcu.asked \ {s}} :
         LET w == [World EXCEPT !.mcu.asked = asked]
             i == Min(httpdLookUpConn(s))
         IN  Become(IF httpdLookUpConn(s) # {} /\ slot[i].cgi = "json"
                    THEN httpdSetCGIResponse(w, i) ELSE w)
  BY DEF WEB_Data
<1>. DEFINE w == [World EXCEPT !.mcu.asked = asked]
            i == Min(httpdLookUpConn(s))
            heard == [w EXCEPT !.response = TRUE]
            passed == httpdProcessRequest(heard, i)
            v == [passed EXCEPT !.response = FALSE]
<1>2. unread' = unread /\ HttpdInv
  BY DEF WEB_Data, AnswerInv
<1>3. /\ World \in Worlds /\ World.slot = slot /\ World.sock = sock /\ World.flash = flash
      /\ World.out = <<>>
  BY <1>2, WorldHere DEF HttpdInv, World
<1>4. w \in Worlds /\ w.slot = slot /\ w.sock = sock /\ w.flash = flash /\ w.out = <<>>
  <2>. DEFINE m == [World.mcu EXCEPT !.asked = asked]
  <2>1. World.mcu \in Mcu /\ World.mcu = mcu
    BY <1>3, WorldParts DEF World
  <2>2. m \in Mcu
    BY <2>1 DEF Mcu
  <2>3. w = [World EXCEPT !.mcu = m]
    BY <1>3 DEF Worlds
  <2>. HIDE DEF m
  <2>. QED BY <1>3, <2>2, <2>3 DEF Worlds
<1>. HIDE DEF w
<1>5. \/ Become(w)
      \/ httpdLookUpConn(s) # {} /\ slot[i].cgi = "json" /\ Become(v)
  BY <1>1 DEF w, httpdSetCGIResponse
<1>6. CASE Become(w)
  BY <1>2, <1>4, <1>6, NothingChanged DEF Become
<1>7. CASE httpdLookUpConn(s) # {} /\ slot[i].cgi = "json" /\ Become(v)
  <2>1. i \in Slots /\ slot[i].conn = s
    <3>1. i \in httpdLookUpConn(s)
      <4>1. httpdLookUpConn(s) \subseteq Slots
        BY DEF httpdLookUpConn
      <4>. QED BY <1>7, <4>1, MinSlot
    <3>. QED BY <3>1 DEF httpdLookUpConn
  <2>. HIDE DEF i
  <2>2. sock[s].reverse = i /\ i # NoSlot
    BY <1>2, <2>1 DEF HttpdInv, PoolOK, Linked, NoSlot, Slots
  <2>3. SlotOK(slot[i]) /\ Progress(slot[i], sock[s], unread[s])
    BY <1>2, <2>1, <2>2 DEF HttpdInv, PoolOK, AnswerInv
  <2>4. Asking(slot[i], sock[s])
    BY <1>7, <2>3 DEF Progress, Fresh, Collecting, Storing, Uploading, Taken, Sending, Over
  <2>5. heard \in Worlds /\ heard.slot = slot /\ heard.sock = sock /\ heard.flash = flash
        /\ heard.out = <<>>
    BY <1>4 DEF Worlds
  <2>. HIDE DEF heard
  <2>6. Outcome(heard, passed, i, s, unread[s])
    <3>1. Serving(heard, i, s)
      BY <2>1, <2>3, <2>5 DEF Serving
    <3>. QED BY <2>1, <2>4, <2>5, <3>1, LaterOutcome
  <2>. HIDE DEF passed
  <2>7. /\ v.slot = passed.slot /\ v.sock = passed.sock /\ v.flash = passed.flash
    BY <2>6 DEF Outcome, Worlds
  <2>. HIDE DEF v
  <2>8. Found(sock[s].req).cgi = "json"
    BY <2>4 DEF Asking
  <2>9. /\ v.flash = flash /\ v.sock[s].reverse = i /\ v.sock[s].req = sock[s].req
        /\ \A j \in Slots : j # i => v.slot[j] = slot[j]
        /\ \A t \in Socks : t # s => v.sock[t] = sock[t]
    BY <2>2, <2>5, <2>6, <2>7, <2>8 DEF Outcome, SameEnds, Aside
  <2>10. Taken(v.slot[i], v.sock[s], unread[s])
    <3>1. ~Ready(passed.slot[i], passed.sock[s], unread[s], passed.flash)
      BY <2>7, <2>8, <2>9 DEF Ready, Uploading
    <3>. QED BY <2>6, <2>7, <3>1 DEF Outcome
  <2>11. Progress(v.slot[i], v.sock[s], unread[s]) /\ FlashOK(v.slot[i], v.sock[s], v.flash)
    BY <2>10, TakenFlash DEF Progress, FlashOK
  <2>12. unread' = [unread EXCEPT ![s] = unread[s]] /\ unread[s] \in 0..unread[s]
    BY <1>2 DEF HttpdInv, HttpdType
  <2>13. Intact(v.sock[s], v.flash)
    BY <2>8, <2>9 DEF Intact
  <2>14. Progresses(v, s, unread[s])
    BY <1>7, <2>2, <2>9, <2>11, <2>12, <2>13 DEF Progresses
  <2>. QED BY <2>14, Progressed
<1>. QED
  BY <1>5, <1>6, <1>7

LEMMA ConnectAnswers ==
    ASSUME AnswerInv, NEW s \in Socks, httpdConnectCb(s), HttpdInv'
    PROVE  AnswerInv' /\ Uploaded
<1>. DEFINE free == {j \in Slots : slot[j].conn = NoSock}
            i == Min(free)
<1>1. PICK req \in Requests[s] :
         /\ sock[s].st = "idle"
         /\ req.url = "/flash/upload" =>
               \A t \in Socks : sock[t].st = "idle" \/ sock[t].req.url # "/flash/upload"
                                \/ unread[t] = 0
         /\ IF free = {}
            THEN sock' = [sock EXCEPT ![s] = [IdleSock EXCEPT !.st = "closing", !.req = req]]
                 /\ UNCHANGED slot
            ELSE /\ sock' = [sock EXCEPT ![s] =
                                [IdleSock EXCEPT !.st = "up", !.req = req, !.reverse = i]]
                 /\ slot' = [slot EXCEPT ![i] =
                                [@ EXCEPT !.conn = s, !.buff = <<>>, !.received = 0, !.len = NULL]]
         /\ unread' = [unread EXCEPT ![s] = IF free = {} THEN 0 ELSE 1 + req.clen]
         /\ UNCHANGED <<flash, files, mcu>>
  BY DEF httpdConnectCb
<1>2. /\ HttpdInv /\ slot \in [Slots -> Slot] /\ sock \in [Socks -> Sock]
      /\ unread \in [Socks -> Nat]
  BY DEF AnswerInv, HttpdInv, HttpdType
<1>3. \A t \in Socks : t # s => sock'[t] = sock[t] /\ unread'[t] = unread[t]
  BY <1>1, <1>2
<1>4. req.url = "/flash/upload" => \A t \in Socks : ~Arrives(sock[t], unread[t])
  BY <1>1 DEF Arrives
<1>5. CASE free = {}
  <2>. DEFINE so == [IdleSock EXCEPT !.st = "closing", !.req = req]
  <2>1. so.reverse = NoSlot /\ so.answers = <<>>
    BY DEF IdleSock
  <2>2. sock'[s] = so /\ slot' = slot /\ unread'[s] = 0 /\ flash' = flash
    BY <1>1, <1>2, <1>5
  <2>. HIDE DEF so
  <2>3. Changes(s)
    BY <1>3, <2>1, <2>2 DEF Changes, Arrives
  <2>. QED BY <2>3, Changed
<1>6. CASE free # {}
  <2>. DEFINE so == [IdleSock EXCEPT !.st = "up", !.req = req, !.reverse = i]
              q == [slot[i] EXCEPT !.conn = s, !.buff = <<>>, !.received = 0, !.len = NULL]
              left == 1 + req.clen
  <2>1. i \in Slots /\ slot[i].conn = NoSock
    <3>1. i \in free
      BY <1>6, MinSlot
    <3>. QED BY <3>1
  <2>2. sock' = [sock EXCEPT ![s] = so] /\ slot' = [slot EXCEPT ![i] = q]
        /\ unread' = [unread EXCEPT ![s] = left] /\ flash' = flash
    BY <1>1, <1>6
  <2>. HIDE DEF i
  <2>3. so.reverse = i /\ so.req = req /\ so.st = "up" /\ so.sent = 0 /\ so.answers = <<>>
    BY DEF IdleSock
  <2>4. slot[i] \in Slot /\ slot[i].cgi = "NULL"
    BY <1>2, <2>1 DEF HttpdInv, PoolOK, Attended
  <2>5. q.len = NULL /\ q.cgi = "NULL" /\ q.received = 0 /\ q.buff = <<>>
    <3>. DEFINE a == [slot[i] EXCEPT !.conn = s]
                b == [a EXCEPT !.buff = <<>>]
                c == [b EXCEPT !.received = 0]
    <3>1. a \in Slot /\ a.conn = s /\ a.cgi = "NULL"
      BY <2>4 DEF Slot
    <3>2. q = [c EXCEPT !.len = NULL] /\ <<>> \in Seq(Units)
      BY <2>4 DEF Slot
    <3>. HIDE DEF a, q, NULL
    <3>3. b \in Slot /\ b.cgi = "NULL" /\ b.buff = <<>>
      BY <3>1, <3>2 DEF Slot
    <3>. HIDE DEF b
    <3>4. c \in Slot /\ c.cgi = "NULL" /\ c.buff = <<>> /\ c.received = 0
      BY <3>3 DEF Slot
    <3>. HIDE DEF c
    <3>. QED BY <3>2, <3>4 DEF Slot
  <2>. HIDE DEF so, q
  <2>6. sock'[s] = so /\ slot'[i] = q /\ unread'[s] = left
        /\ \A j \in Slots : j # i => slot'[j] = slot[j]
    BY <1>2, <2>1, <2>2
  <2>7. Fresh(q, so, left)
    BY <2>3, <2>5 DEF Fresh, Waiting
  <2>8. ASSUME NEW t \in Socks, t # s, sock[t].reverse # NoSlot
        PROVE  slot'[sock[t].reverse] = slot[sock[t].reverse]
    <3>1. sock[t].reverse \in Slots /\ slot[sock[t].reverse].conn = t /\ t # NoSock
      BY <1>2, <2>8, Place
    <3>. QED BY <2>1, <2>6, <3>1
  <2>9. Arrives(so, left) => \A t \in Socks : ~Arrives(sock[t], unread[t])
    BY <1>4, <2>3 DEF Arrives
  <2>. HIDE DEF left
  <2>10. Changes(s)
    BY <1>3, <2>2, <2>3, <2>6, <2>7, <2>8, <2>9 DEF Changes
  <2>. QED BY <2>10, Changed
<1>. QED
  BY <1>5, <1>6

LEMMA AnswerInit == Init => AnswerInv
<1>. SUFFICES ASSUME Init PROVE AnswerInv
  OBVIOUS
<1>1. HttpdInv
  BY HttpdInit
<1>2. \A s \in Socks : sock[s].st = "idle" /\ sock[s].reverse = NoSlot /\ sock[s].answers = <<>>
  BY DEF Init, IdleSock
<1>. QED
  BY <1>1, <1>2 DEF AnswerInv, OneUpload, Arrives

LEMMA AnswerStep == ShortPosts /\ AnswerInv /\ [Next]_vars => AnswerInv' /\ Uploaded
<1>. SUFFICES ASSUME ShortPosts, AnswerInv, [Next]_vars PROVE AnswerInv' /\ Uploaded
  OBVIOUS
<1>1. HttpdInv'
  BY HttpdStep DEF AnswerInv
<1>2. CASE WEB_Setup
  BY <1>1, <1>2, NothingChanged DEF WEB_Setup
<1>3. ASSUME NEW s \in Socks, httpdConnectCb(s) PROVE AnswerInv' /\ Uploaded
  BY <1>1, <1>3, ConnectAnswers
<1>4. ASSUME NEW s \in Socks, httpdRecvCb(s) PROVE AnswerInv' /\ Uploaded
  BY <1>1, <1>4, RecvAnswers
<1>5. ASSUME NEW s \in Socks, httpdSentCb(s) PROVE AnswerInv' /\ Uploaded
  BY <1>1, <1>5, SentAnswers
<1>6. ASSUME NEW s \in Socks, httpdDisconCb(s) PROVE AnswerInv' /\ Uploaded
  BY <1>1, <1>6, DisconAnswers
<1>7. ASSUME NEW s \in Socks, WEB_Data(s) PROVE AnswerInv' /\ Uploaded
  BY <1>1, <1>7, DataAnswers
<1>8. CASE UNCHANGED vars
  BY <1>1, <1>8, NothingChanged DEF vars
<1>. QED
  BY <1>2, <1>3, <1>4, <1>5, <1>6, <1>7, <1>8 DEF Next

\* There is an answer to every request.
LEMMA SomeAnswer ==
    ASSUME NEW req
    PROVE  \E answer \in Answers(req) : answer \in Seq(Answer)
<1>. DEFINE c == Found(req).cgi
<1>1. c \in {"NULL", "file", "firmware", "json"}
  BY FoundParts
<1>2. \A code \in Codes : <<code>> \in Seq(Answer)
  BY DEF Answer
<1>3. \A code \in Codes : <<code>> \in Answers(req) => \E answer \in Answers(req) : answer \in Seq(Answer)
  BY <1>2
<1>4. CASE Refused(req)
  BY <1>3, <1>4, AnswerSets DEF Codes
<1>5. CASE ~Refused(req) /\ c = "NULL"
  BY <1>3, <1>5, AnswerSets DEF Codes
<1>6. CASE c = "firmware"
  <2>1. <<"400">> \in Answers(req) \/ <<"200">> \in Answers(req)
    BY <1>6, AnswerSets
  <2>. QED BY <1>3, <2>1 DEF Codes
<1>7. CASE c = "json"
  <2>1. <<"500">> \in Answers(req)
    BY <1>7, AnswerSets
  <2>. QED BY <1>3, <2>1 DEF Codes
<1>8. CASE ~Refused(req) /\ c = "file"
  <2>1. Whole(req) \in Answers(req) /\ Whole(req) \in Seq(Answer)
    BY <1>8, AnswerSets, WholeParts
  <2>. QED BY <2>1
<1>. QED
  BY <1>1, <1>4, <1>5, <1>6, <1>7, <1>8

\* Of a file that is sent, no more has been than there is.
LEMMA SentLength ==
    ASSUME NEW req, Found(req).cgi = "file", NEW k \in Nat, k * CHUNK <= FileLen[req.url]
    PROVE  Len(SubSeq(Whole(req), 1, k + 1)) = k + 1
<1>. DEFINE a == Whole(req)
            l == FileLen[req.url]
            c == Chunks(l)
            y == CHUNK * (k + 1)
<1>1. l \in Nat /\ CHUNK \in Nat \ {0} /\ y \in Nat
  <2>1. l \in Nat /\ CHUNK \in Nat \ {0}
    BY HttpdAssumption, UrlParts DEF Found
  <2>. QED BY <2>1
<1>2. a \in Seq(Answer) /\ Len(a) = 1 + Len(c) /\ Len(c) \in Nat
  BY WholeParts
<1>3. /\ y <= l => Len(c) >= k + 1
      /\ l < y => Len(c) = (IF l > k * CHUNK THEN k + 1 ELSE k)
  <2>1. l \in Nat /\ k * CHUNK <= l
    BY <1>1
  <2>. HIDE DEF l
  <2>. QED BY <2>1, ChunkCount
<1>. HIDE DEF a, l, c, y
<1>4. Len(c) >= k
  BY <1>1, <1>2, <1>3
<1>5. k + 1 <= Len(a) /\ k + 1 \in Nat
  BY <1>2, <1>4
<1>. DEFINE h == k + 1
<1>6. h <= Len(a) /\ h \in Nat
  BY <1>5
<1>. HIDE DEF h
<1>7. Len(SubSeq(a, 1, h)) = h
  BY <1>2, <1>6
<1>. QED
  BY <1>7 DEF a, h

LEMMA InvariantAnswers == AnswerInv => RightAnswers
<1>. SUFFICES ASSUME AnswerInv, NEW s \in Socks, sock[s].reverse # NoSlot
              PROVE  /\ sock[s].sent <= 1
                     /\ \E answer \in Answers(sock[s].req) :
                           \/ sock[s].answers = answer
                           \/ /\ sock[s].st = "up"
                              /\ sock[s].answers = SubSeq(answer, 1, Len(sock[s].answers))
  BY DEF RightAnswers
<1>. DEFINE so == sock[s]
            q == slot[so.reverse]
<1>1. Progress(q, so, unread[s])
  BY DEF AnswerInv
<1>2. CASE Waiting(so)
  <2>1. so.sent = 0 /\ so.st = "up" /\ so.answers = <<>>
    BY <1>2 DEF Waiting
  <2>2. PICK answer \in Answers(so.req) : answer \in Seq(Answer)
    BY SomeAnswer
  <2>3. SubSeq(answer, 1, 0) = <<>> /\ Len(<<>>) = 0
    BY <2>2
  <2>. QED BY <2>1, <2>2, <2>3
<1>3. CASE Sending(q, so, unread[s], 1)
  <2>1. /\ Found(so.req).cgi = "file" /\ ~Refused(so.req) /\ so.st = "up" /\ so.sent = 1
    BY <1>3 DEF Sending
  <2>2. PICK k \in Nat : /\ q.data = k * CHUNK /\ q.data <= FileLen[so.req.url]
                         /\ so.answers = SubSeq(Whole(so.req), 1, k + 1)
    BY <1>3 DEF Sending
  <2>3. Len(so.answers) = k + 1
    BY <2>1, <2>2, SentLength
  <2>4. Whole(so.req) \in Answers(so.req)
    BY <2>1, AnswerSets
  <2>. QED BY <2>1, <2>2, <2>3, <2>4
<1>4. CASE so.answers \in Answers(so.req) /\ so.sent \in {0, 1}
  BY <1>4
<1>. QED
  BY <1>1, <1>2, <1>3, <1>4
     DEF Progress, Fresh, Collecting, Storing, Uploading, Taken, Asking, Over

\* Every unit of a request has its place in flash.
LEMMA AllFits ==
    ASSUME Bounded, NEW s \in Socks, NEW req \in Requests[s], NEW k \in 1..req.clen
    PROVE  k - 1 \in Addresses
<1>. DEFINE Lens == {r.clen : r \in UNION {Requests[t] : t \in Socks}} \cup {1}
<1>1. PICK n \in Nat : \A t \in Socks : \A r \in Requests[t] : r.clen <= n
  BY DEF Bounded
<1>2. ASSUME NEW x \in Lens PROVE x \in Nat /\ x <= n + 1
  <2>1. CASE x = 1
    BY <2>1
  <2>2. CASE x # 1
    <3>1. PICK r \in UNION {Requests[t] : t \in Socks} : x = r.clen
      BY <2>2
    <3>2. PICK t \in Socks : r \in Requests[t]
      BY Zenon
    <3>3. x \in Nat /\ x <= n
      BY <1>1, <3>1, <3>2, HttpdAssumption
    <3>. QED BY <3>3
  <2>. QED BY <2>1, <2>2
<1>3. req.clen \in Lens
  <2>1. req \in UNION {Requests[t] : t \in Socks}
    BY Zenon
  <2>. QED BY <2>1
<1>. DEFINE T == {n + 1 - x : x \in Lens}
<1>4. FIRMWARE_SIZE = Max(Lens)
  BY DEF FIRMWARE_SIZE
<1>. HIDE DEF Lens
<1>5. \E x \in Lens : \A y \in Lens : x >= y
  <2>1. T \subseteq Nat /\ T # {}
    <3>1. \A x \in Lens : n + 1 - x \in Nat
      BY <1>2
    <3>. QED BY <1>3, <3>1
  <2>. HIDE DEF T
  <2>2. PICK m \in T : \A z \in T : m <= z
    BY <2>1, Smallest
  <2>3. PICK x \in Lens : m = n + 1 - x
    BY DEF T
  <2>4. ASSUME NEW y \in Lens PROVE x >= y
    <3>1. n + 1 - y \in T
      BY DEF T
    <3>2. n + 1 - x <= n + 1 - y
      BY <2>2, <2>3, <3>1
    <3>. QED BY <1>2, <3>2
  <2>. QED BY <2>4
<1>6. Max(Lens) \in Lens /\ \A y \in Lens : Max(Lens) >= y
  BY <1>5 DEF Max
<1>7. FIRMWARE_SIZE \in Nat /\ FIRMWARE_SIZE >= req.clen /\ req.clen \in Nat
  BY <1>2, <1>3, <1>4, <1>6
<1>. QED
  BY <1>7 DEF Addresses

LEMMA StepUploads ==
    ASSUME Bounded, AnswerInv, Uploaded, NEW s \in Socks,
           sock[s].answers = <<>>, sock'[s].answers = <<"200">>, sock[s].req.url = "/flash/upload"
    PROVE  \A k \in 1..sock[s].req.clen : flash'[k - 1] = <<sock[s].req.body, k>>
<1>. DEFINE req == sock[s].req
<1>1. InPlace(req, flash')
  BY FoundParts DEF Uploaded
<1>2. req \in Asked
  BY DEF AnswerInv, HttpdInv, HttpdType, Sock
<1>3. req \in UNION {Requests[t] : t \in Socks}
  <2>1. req # NoRequest
    <3>1. NoRequest.url = "" /\ "" # "/flash/upload"
      BY DEF NoRequest
    <3>2. req.url = "/flash/upload"
      OBVIOUS
    <3>. HIDE DEF req
    <3>. QED BY <3>1, <3>2
  <2>. DEFINE All == UNION {Requests[t] : t \in Socks}
  <2>2. req \in All \cup {NoRequest}
    BY <1>2 DEF Asked
  <2>. HIDE DEF All
  <2>3. req \in All
    BY <2>1, <2>2
  <2>. QED BY <2>3 DEF All
<1>4. PICK t \in Socks : req \in Requests[t]
  BY <1>3, Zenon
<1>5. \A k \in 1..req.clen : k - 1 \in Addresses
  BY <1>4, AllFits
<1>. QED
  BY <1>1, <1>5 DEF InPlace

\* Whatever a browser asks for, and however its POST is cut into packets, it
\* is sent a part of an answer to its own request, and all of it by the time
\* the server closes the connection; no packet is sent before the last is
\* confirmed.
THEOREM RightAnswersHolds ==
    ASSUME ShortPosts
    PROVE  Spec => []RightAnswers
<1>1. AnswerInv /\ [Next]_vars => AnswerInv'
  BY AnswerStep
<1>2. Spec => []AnswerInv
  BY <1>1, AnswerInit, PTL DEF Spec
<1>. QED
  BY <1>2, InvariantAnswers, PTL

\* When cgiUploadFirmware answers 200, flash holds every unit of the POST in
\* its place, whatever the size of buffer and sector and whatever uploads
\* were broken off before.
THEOREM UploadIntactHolds ==
    ASSUME ShortPosts, Bounded
    PROVE  Spec => UploadIntact
<1>1. AnswerInv /\ [Next]_vars => AnswerInv'
  BY AnswerStep
<1>2. Spec => []AnswerInv
  BY <1>1, AnswerInit, PTL DEF Spec
<1>3. AnswerInv /\ [Next]_vars =>
        [\A s \in Socks :
          /\ sock[s].answers = <<>> /\ sock'[s].answers = <<"200">>
          /\ sock[s].req.url = "/flash/upload"
          => \A k \in 1..sock[s].req.clen : flash'[k - 1] = <<sock[s].req.body, k>>]_vars
  BY AnswerStep, StepUploads
<1>. QED
  BY <1>2, <1>3, PTL DEF Spec, UploadIntact
=============================================================================
