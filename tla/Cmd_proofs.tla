----------------------------- MODULE Cmd_proofs -----------------------------
(***************************************************************************)
(* The table of callbacks is right, and what is undamaged is executed, for *)
(* every packet length, table, set of names and number of troubles: lost   *)
(* and damaged characters, restarts of either side.                        *)
(*                                                                         *)
(* That the table is cannot be seen from it alone: a callback is of no     *)
(* earlier life than the last SYNC only because the line keeps its order,  *)
(* and because damage cannot make of a packet another one whose checksum   *)
(* is right.  The invariant, CmdInv, therefore says of the parser's buffer *)
(* and of the line that the lives of the packets their characters belong   *)
(* to are in order, and between that of the last SYNC that was taken and   *)
(* the MCU's own.                                                          *)
(*                                                                         *)
(* The parser takes a batch of characters, and what it puts out a batch of *)
(* packets: both are folds.  The invariant is carried through each of them *)
(* by induction over its length, with the lemmas of SequenceLemmas.        *)
(*                                                                         *)
(* For the packets the invariant is IntactInv: the line has one frame that *)
(* is whole, and what the parser has read of it, it has understood.        *)
(***************************************************************************)
EXTENDS Cmd, SequenceTheorems, SequenceLemmas

-----------------------------------------------------------------------------
(* Types *)

\* What a packet consists of, and what a character may be.
Word == {"SYNC", "ADD_CB", "STATUS", "MQTT_SETUP", "zero", "x"}
        \cup {Values[l] : l \in DOMAIN Values} \cup Names
Code == Word \cup Printable \cup {"END", "ESC", "ESC_END", "ESC_ESC", "lo", "hi"}
Tag == Packets \cup {<<>>}
Character == [k : Code, of : Tag]
Parser ==
    [escaped : BOOLEAN, inpkt : BOOLEAN, buf : Seq(Character), packets : Seq(Packets),
     console : Seq(Code)]
OnTheWay == [char : Character, first : BOOLEAN, whole : Tag]

Callback == [name : Names \cup {"wifiCb", "x"}, cb : Nat]
Message == [cmd : {"SYNC", "RESP_V", "RESP_CB"}, value : Int]
Esp ==
    [cmdInSync : BOOLEAN, callbacks : Seq(Callback), wifiCbAdded : BOOLEAN,
     lastWifiStatus : Nat, wifiState : 0..5, mqttCb : Int, programming : BOOLEAN, synced : Int]
EspOut ==
    [cmdInSync : BOOLEAN, callbacks : Seq(Callback), wifiCbAdded : BOOLEAN,
     lastWifiStatus : Nat, wifiState : 0..5, mqttCb : Int, programming : BOOLEAN, synced : Int,
     out : Seq(Message)]

CmdType ==
    /\ line \in Seq(OnTheWay)
    /\ parser \in Parser
    /\ esp \in Esp
    /\ mcu \in [life : Nat, inSync : BOOLEAN]
    /\ troubles \in Nat
    /\ mcu.life + troubles <= Troubles

-----------------------------------------------------------------------------
(* The lives whose callbacks a packet may register: one or none *)

LivesIn(content) == {l \in DOMAIN Values : Len(content) >= 2 /\ content[2] = Values[l]}

\* No life in a is after one in b.
Before(a, b) == \A l \in LivesIn(a), m \in LivesIn(b) : l <= m
Between(lo, a, hi) == \A l \in LivesIn(a) : lo <= l /\ l <= hi

\* What is on its way: of lives between two, in their order.
BufferOK(buf, lo, hi) == \A i \in DOMAIN buf : Between(lo, buf[i].of, hi)
LineOK(ln, lo, hi) ==
    /\ \A i \in DOMAIN ln : Between(lo, ln[i].char.of, hi)
    /\ \A i, j \in DOMAIN ln : i < j => Before(ln[i].char.of, ln[j].char.of)
BufferFirst(buf, ln) == \A i \in DOMAIN buf, j \in DOMAIN ln : Before(buf[i].of, ln[j].char.of)

\* The table of callbacks of e.
TableOK(e) ==
    /\ e.wifiCbAdded => \E i \in DOMAIN e.callbacks : e.callbacks[i].name = "wifiCb"
    /\ \A i \in DOMAIN e.callbacks : e.callbacks[i].cb >= e.synced
    /\ \A i, j \in DOMAIN e.callbacks : e.callbacks[i].name = e.callbacks[j].name => i = j

\* The inductive invariant: what the table holds, what may still reach it,
\* and in which order.
CmdInv ==
    /\ CmdType
    /\ TableOK(esp)
    /\ esp.synced <= mcu.life
    /\ BufferOK(parser.buf, esp.synced, mcu.life)
    /\ LineOK(line, esp.synced, mcu.life)
    /\ BufferFirst(parser.buf, line)

-----------------------------------------------------------------------------
(* Facts about the types *)

LEMMA WordsOf ==
    /\ \A l \in DOMAIN Values : Values[l] \in Word
    /\ \A name \in Names : name \in Word
    /\ "SYNC" \in Word /\ "ADD_CB" \in Word /\ "STATUS" \in Word /\ "MQTT_SETUP" \in Word
    /\ "zero" \in Word /\ "x" \in Word
    /\ \A w \in Word : w \in Code
BY DEF Word, Code

LEMMA OneToFour ==
    ASSUME NEW S, NEW a \in S, NEW b \in S, NEW c \in S, NEW d \in S
    PROVE  <<a>> \in Seq(S) /\ <<a, b>> \in Seq(S) /\ <<a, b, c>> \in Seq(S) /\ <<a, b, c, d>> \in Seq(S)
OBVIOUS

\* The packets there are.
LEMMA PacketForms ==
    ASSUME NEW p \in Packets
    PROVE  \/ \E l \in DOMAIN Values : p = <<"SYNC", Values[l]>>
           \/ p = <<"STATUS", "zero">>
           \/ \E l \in DOMAIN Values, name \in Names : p = <<"ADD_CB", Values[l], name>>
           \/ \E l \in DOMAIN Values : p = <<"MQTT_SETUP", Values[l]>>
           \/ p = <<"SYNC", "zero">>
           \/ p = <<"ADD_CB", "zero", "x">>
           \/ p = <<"STATUS">>
           \/ p = <<"STATUS", "zero", "x", "x">>
<1>1. CASE p \in {<<"SYNC", v>> : v \in {Values[l] : l \in DOMAIN Values}}
  BY <1>1, Zenon
<1>2. CASE p \in {<<"ADD_CB", v, name>> : v \in {Values[l] : l \in DOMAIN Values}, name \in Names}
  <2>1. PICK v \in {Values[l] : l \in DOMAIN Values}, name \in Names : p = <<"ADD_CB", v, name>>
    BY <1>2
  <2>. QED BY <2>1, Zenon
<1>3. CASE p \in {<<"MQTT_SETUP", v>> : v \in {Values[l] : l \in DOMAIN Values}}
  BY <1>3, Zenon
<1>4. CASE p \in OddPackets \/ p = <<"STATUS", "zero">>
  BY <1>4, Zenon DEF OddPackets
<1>. QED
  BY <1>1, <1>2, <1>3, <1>4 DEF Packets

LEMMA PacketType == \A p \in Packets : p \in Seq(Word) /\ p # <<>>
<1>. SUFFICES ASSUME NEW p \in Packets PROVE p \in Seq(Word) /\ p # <<>>
  OBVIOUS
<1>1. \A a, b, c, d \in Word : /\ <<a>> \in Seq(Word) /\ <<a, b>> \in Seq(Word)
                               /\ <<a, b, c>> \in Seq(Word) /\ <<a, b, c, d>> \in Seq(Word)
  OBVIOUS
<1>2. \A a, b, c, d : /\ <<a>> # <<>> /\ <<a, b>> # <<>> /\ <<a, b, c>> # <<>>
                      /\ <<a, b, c, d>> # <<>>
  OBVIOUS
<1>3. p \in Seq(Word)
  <2>1. \/ \E l \in DOMAIN Values : p = <<"SYNC", Values[l]>> \/ p = <<"MQTT_SETUP", Values[l]>>
        \/ \E l \in DOMAIN Values, name \in Names : p = <<"ADD_CB", Values[l], name>>
        \/ p = <<"STATUS", "zero">> \/ p = <<"SYNC", "zero">> \/ p = <<"ADD_CB", "zero", "x">>
        \/ p = <<"STATUS">> \/ p = <<"STATUS", "zero", "x", "x">>
    BY PacketForms
  <2>2. CASE \E l \in DOMAIN Values : p = <<"SYNC", Values[l]>> \/ p = <<"MQTT_SETUP", Values[l]>>
    BY <2>2, <1>1, WordsOf
  <2>3. CASE \E l \in DOMAIN Values, name \in Names : p = <<"ADD_CB", Values[l], name>>
    BY <2>3, <1>1, WordsOf
  <2>4. CASE \/ p = <<"STATUS", "zero">> \/ p = <<"SYNC", "zero">> \/ p = <<"ADD_CB", "zero", "x">>
             \/ p = <<"STATUS">> \/ p = <<"STATUS", "zero", "x", "x">>
    BY <2>4, <1>1, WordsOf
  <2>. QED BY <2>1, <2>2, <2>3, <2>4
<1>4. p # <<>>
  BY <1>2, PacketForms, Zenon
<1>. QED
  BY <1>3, <1>4

\* A packet without a callback has no lives, and one with a callback has one.
LEMMA Lives ==
    /\ LivesIn(<<>>) = {}
    /\ LivesIn(<<"STATUS", "zero">>) = {} /\ LivesIn(<<"SYNC", "zero">>) = {}
    /\ LivesIn(<<"ADD_CB", "zero", "x">>) = {} /\ LivesIn(<<"STATUS">>) = {}
    /\ LivesIn(<<"STATUS", "zero", "x", "x">>) = {}
    /\ \A l \in DOMAIN Values :
          /\ LivesIn(<<"SYNC", Values[l]>>) = {l} /\ LivesIn(<<"MQTT_SETUP", Values[l]>>) = {l}
          /\ \A name \in Names : LivesIn(<<"ADD_CB", Values[l], name>>) = {l}
<1>1. \A l, m \in DOMAIN Values : Values[l] # "zero" /\ (Values[l] = Values[m] => l = m)
  BY CmdAssumption
<1>2. LivesIn(<<>>) = {} /\ LivesIn(<<"STATUS">>) = {}
  BY DEF LivesIn
<1>3. /\ LivesIn(<<"STATUS", "zero">>) = {} /\ LivesIn(<<"SYNC", "zero">>) = {}
      /\ LivesIn(<<"ADD_CB", "zero", "x">>) = {}
      /\ LivesIn(<<"STATUS", "zero", "x", "x">>) = {}
  BY <1>1 DEF LivesIn
<1>4. ASSUME NEW l \in DOMAIN Values
      PROVE  /\ LivesIn(<<"SYNC", Values[l]>>) = {l} /\ LivesIn(<<"MQTT_SETUP", Values[l]>>) = {l}
             /\ \A name \in Names : LivesIn(<<"ADD_CB", Values[l], name>>) = {l}
  BY <1>1 DEF LivesIn
<1>. QED
  BY <1>2, <1>3, <1>4

LEMMA LivesAreNat == \A content : LivesIn(content) \subseteq Nat
BY CmdAssumption DEF LivesIn

LEMMA LifeOfIs == \A l \in DOMAIN Values : LifeOf(Values[l]) = l
BY CmdAssumption DEF LifeOf

-----------------------------------------------------------------------------
(* The parser *)

LEMMA CodesType ==
    ASSUME NEW chars \in Seq(Character)
    PROVE  Codes(chars) \in Seq(Code) /\ Len(Codes(chars)) = Len(chars)
<1>1. \A i \in 1..Len(chars) : chars[i].k \in Code
  <2>. SUFFICES ASSUME NEW i \in 1..Len(chars) PROVE chars[i].k \in Code
    OBVIOUS
  <2>1. chars[i] \in Character
    OBVIOUS
  <2>. QED BY <2>1 DEF Character
<1>2. DOMAIN chars = 1..Len(chars) /\ Len(chars) \in Nat
  OBVIOUS
<1>. QED
  BY <1>1, <1>2 DEF Codes

\* What a parser is after its parts have been changed.
LEMMA ParserParts ==
    ASSUME NEW p \in Parser
    PROVE  /\ p.buf \in Seq(Character) /\ p.packets \in Seq(Packets) /\ p.console \in Seq(Code)
           /\ p.escaped \in BOOLEAN /\ p.inpkt \in BOOLEAN
BY DEF Parser

\* Of the characters it is given a parser keeps the codes and what they are
\* the CRC of.
LEMMA UnescapedKeeps ==
    ASSUME NEW c \in Character
    PROVE  Unescaped(c) \in Character /\ Unescaped(c).of \in {c.of, <<>>}
BY DEF Unescaped, Char, Character, Code, Tag

LEMMA KeepKeeps ==
    ASSUME NEW p \in Parser, NEW c \in Character
    PROVE  /\ Keep(p, c) \in Parser
           /\ Keep(p, c).packets = p.packets
           /\ Keep(p, c).buf \in {p.buf, Append(p.buf, c)}
<1>1. Append(p.buf, c) \in Seq(Character)
  BY ParserParts
<1>. QED
  BY <1>1 DEF Keep, Parser

\* The packet handed on is the one its CRC says.
LEMMA HandsOn ==
    ASSUME NEW p \in Parser
    PROVE  /\ slip_process(p) \in Parser
           /\ slip_process(p).packets = p.packets
              \/ \E i \in DOMAIN p.buf :
                    /\ p.buf[i].of \in Packets
                    /\ slip_process(p).packets = Append(p.packets, p.buf[i].of)
<1>. DEFINE n == Len(p.buf)
            content == Codes(SubSeq(p.buf, 1, n - 2))
<1>1. n \in Nat /\ p.buf \in Seq(Character)
  BY ParserParts
<1>0. slip_process(p) =
         CASE n = 0                -> p
           [] n > 2 /\ p.inpkt     -> IF SubSeq(p.buf, n - 1, n) = CRC(content)
                                      THEN [p EXCEPT !.packets = Append(@, content)] ELSE p
           [] n > 0 /\ ~(n > 2 /\ p.inpkt) -> [p EXCEPT !.console = @ \o Codes(p.buf)]
  <2>. HIDE DEF content
  <2>. QED BY Zenon DEF slip_process, content
<1>2. CASE n = 0
  <2>1. ~(n > 2) /\ ~(n > 0)
    BY <1>2
  <2>2. slip_process(p) = p
    <3>. HIDE DEF content, n
    <3>. QED BY <1>0, <1>2, <2>1, Zenon
  <2>. QED BY <2>2
<1>3. CASE n > 2 /\ p.inpkt
  <2>1. n # 0
    BY <1>1, <1>3
  <2>2. slip_process(p) = IF SubSeq(p.buf, n - 1, n) = CRC(content)
                          THEN [p EXCEPT !.packets = Append(@, content)] ELSE p
    <3>. HIDE DEF content, n
    <3>. QED BY <2>1, <1>0, <1>3, Zenon
  <2>3. CASE SubSeq(p.buf, n - 1, n) = CRC(content)
    <3>1. p.buf[n] = [k |-> "hi", of |-> content]
      <4>1. SubSeq(p.buf, n - 1, n)[2] = p.buf[n]
        <5>. HIDE DEF content
        <5>. QED BY <1>1, <1>3
      <4>2. SubSeq(p.buf, n - 1, n)[2] = [k |-> "hi", of |-> content]
        <5>1. \A x : CRC(x)[2] = [k |-> "hi", of |-> x]
          BY DEF CRC
        <5>. HIDE DEF content, n
        <5>. QED BY <2>3, <5>1, Zenon
      <4>. QED BY <4>1, <4>2, Zenon
    <3>2. p.buf[n] \in Character
      BY <1>1, <1>3
    <3>3. content \in Tag /\ p.buf[n].of = content
      <4>. HIDE DEF content
      <4>. QED BY <3>1, <3>2 DEF Character
    <3>4. content # <<>>
      <4>1. SubSeq(p.buf, 1, n - 2) \in Seq(Character) /\ Len(SubSeq(p.buf, 1, n - 2)) = n - 2
        BY <1>1, <1>3
      <4>2. Len(content) = n - 2
        BY <4>1, CodesType
      <4>. HIDE DEF content
      <4>. QED BY <4>2, <1>3, <1>1
    <3>5. content \in Packets
      <4>. HIDE DEF content
      <4>. QED BY <3>3, <3>4 DEF Tag
    <3>6. Append(p.packets, content) \in Seq(Packets)
      BY <3>5, ParserParts
    <3>7. slip_process(p) = [p EXCEPT !.packets = Append(p.packets, content)]
      BY <2>2, <2>3
    <3>8. slip_process(p) \in Parser /\ slip_process(p).packets = Append(p.packets, content)
      <4>. HIDE DEF content
      <4>. QED BY <3>6, <3>7 DEF Parser
    <3>9. n \in DOMAIN p.buf
      BY <1>1, <1>3
    <3>. HIDE DEF content, n
    <3>. QED BY <3>3, <3>5, <3>8, <3>9
  <2>4. CASE ~(SubSeq(p.buf, n - 1, n) = CRC(content))
    BY <2>2, <2>4
  <2>. QED BY <2>3, <2>4
<1>4. CASE n # 0 /\ ~(n > 2 /\ p.inpkt)
  <2>0. n > 0
    BY <1>1, <1>4
  <2>1. slip_process(p) = [p EXCEPT !.console = @ \o Codes(p.buf)]
    <3>. HIDE DEF content, n
    <3>. QED BY <1>0, <1>4, <2>0, Zenon
  <2>2. p.console \o Codes(p.buf) \in Seq(Code)
    BY <1>1, CodesType, ParserParts
  <2>. QED BY <2>1, <2>2 DEF Parser
<1>. QED
  BY <1>2, <1>3, <1>4

\* What a parser q has handed on and what it has in its buffer is of lives
\* between lo and hi; what it has handed on is in the order of the lives.
ParsedOK(q, lo, hi) ==
    /\ \A i \in DOMAIN q.packets : Between(lo, q.packets[i], hi)
    /\ \A i, j \in DOMAIN q.packets : i < j => Before(q.packets[i], q.packets[j])
    /\ BufferOK(q.buf, lo, hi)
    /\ \A i \in DOMAIN q.packets, j \in DOMAIN q.buf : Before(q.packets[i], q.buf[j].of)
\* None of it is of a later life than what is in a.
Ahead(q, a) ==
    /\ \A i \in DOMAIN q.packets : Before(q.packets[i], a)
    /\ \A i \in DOMAIN q.buf : Before(q.buf[i].of, a)

LEMMA NoLives == \A a, lo, hi : Before(<<>>, a) /\ Before(a, <<>>) /\ Between(lo, <<>>, hi)
BY Lives DEF Before, Between

\* A parser r that has handed on no more than q, and has one character
\* more in its buffer, or fewer.
LEMMA BufferGrows ==
    ASSUME NEW q \in Parser, NEW r \in Parser, NEW c \in Character, NEW lo, NEW hi,
           ParsedOK(q, lo, hi), Between(lo, c.of, hi), Ahead(q, c.of),
           r.packets = q.packets, r.buf \in {q.buf, Append(q.buf, c), <<>>}
    PROVE  /\ ParsedOK(r, lo, hi)
           /\ \A a : Ahead(q, a) /\ Before(c.of, a) => Ahead(r, a)
<1>1. q.buf \in Seq(Character) /\ DOMAIN q.buf = 1..Len(q.buf) /\ Len(q.buf) \in Nat
  BY ParserParts
<1>2. CASE r.buf = q.buf
  BY <1>2 DEF ParsedOK, Ahead
<1>3. CASE r.buf = <<>>
  BY <1>3 DEF ParsedOK, Ahead, BufferOK
<1>4. CASE r.buf = Append(q.buf, c)
  <2>1. \A i \in DOMAIN r.buf : r.buf[i] = c \/ (i \in DOMAIN q.buf /\ r.buf[i] = q.buf[i])
    BY <1>1, <1>4
  <2>2. \A i \in DOMAIN r.buf : r.buf[i].of = c.of \/ (i \in DOMAIN q.buf /\ r.buf[i].of = q.buf[i].of)
    BY <2>1
  <2>3. BufferOK(r.buf, lo, hi)
    BY <2>2, Zenon DEF BufferOK, ParsedOK
  <2>4. \A i \in DOMAIN r.packets, j \in DOMAIN r.buf : Before(r.packets[i], r.buf[j].of)
    BY <2>2, Zenon DEF ParsedOK, Ahead
  <2>5. ParsedOK(r, lo, hi)
    BY <2>3, <2>4 DEF ParsedOK
  <2>6. \A a : Ahead(q, a) /\ Before(c.of, a) => Ahead(r, a)
    BY <2>2 DEF Ahead
  <2>. QED BY <2>5, <2>6
<1>. QED
  BY <1>2, <1>3, <1>4

\* A parser r that has handed on something it had in its buffer, and has
\* nothing in it any more.
LEMMA PacketOut ==
    ASSUME NEW q \in Parser, NEW r \in Parser, NEW i \in DOMAIN q.buf, NEW lo, NEW hi,
           ParsedOK(q, lo, hi), q.buf[i].of \in Packets,
           r.packets = Append(q.packets, q.buf[i].of), r.buf = <<>>
    PROVE  /\ ParsedOK(r, lo, hi)
           /\ \A a : Ahead(q, a) => Ahead(r, a)
<1>. DEFINE t == q.buf[i].of
<1>1. q.packets \in Seq(Packets) /\ DOMAIN q.packets = 1..Len(q.packets) /\ Len(q.packets) \in Nat
  BY ParserParts
<1>2. /\ DOMAIN r.packets = 1..Len(q.packets) + 1
      /\ r.packets[Len(q.packets) + 1] = t
      /\ \A j \in 1..Len(q.packets) : r.packets[j] = q.packets[j]
  <2>. HIDE DEF t
  <2>1. r.packets = Append(q.packets, t)
    BY DEF t
  <2>. QED BY <1>1, <2>1
<1>3. Between(lo, t, hi) /\ (\A j \in DOMAIN q.packets : Before(q.packets[j], t))
  BY DEF ParsedOK, BufferOK
<1>4. \A a : Ahead(q, a) => Before(t, a)
  BY DEF Ahead
<1>. HIDE DEF t
<1>5. \A j \in DOMAIN r.packets : Between(lo, r.packets[j], hi)
  BY <1>1, <1>2, <1>3 DEF ParsedOK
<1>6. \A j, k \in DOMAIN r.packets : j < k => Before(r.packets[j], r.packets[k])
  <2>. SUFFICES ASSUME NEW j \in DOMAIN r.packets, NEW k \in DOMAIN r.packets, j < k
                PROVE  Before(r.packets[j], r.packets[k])
    OBVIOUS
  <2>1. j \in DOMAIN q.packets /\ r.packets[j] = q.packets[j]
    BY <1>1, <1>2
  <2>2. (k \in DOMAIN q.packets /\ r.packets[k] = q.packets[k]) \/ r.packets[k] = t
    BY <1>1, <1>2
  <2>. QED BY <2>1, <2>2, <1>3 DEF ParsedOK
<1>7. ParsedOK(r, lo, hi)
  BY <1>5, <1>6 DEF ParsedOK, BufferOK
<1>8. \A a : Ahead(q, a) => Ahead(r, a)
  <2>1. \A j \in DOMAIN r.packets : r.packets[j] = t \/ (j \in DOMAIN q.packets /\ r.packets[j] = q.packets[j])
    BY <1>1, <1>2
  <2>2. DOMAIN r.buf = {}
    OBVIOUS
  <2>. QED BY <2>1, <2>2, <1>4 DEF Ahead
<1>. QED
  BY <1>7, <1>8

LEMMA ResetIs ==
    ASSUME NEW p \in Parser
    PROVE  /\ slip_reset(p) \in Parser
           /\ slip_reset(p).packets = p.packets
           /\ slip_reset(p).buf = <<>>
<1>1. <<>> \in Seq(Character)
  OBVIOUS
<1>. DEFINE e == <<>>
<1>. HIDE DEF e
<1>2. slip_reset(p) = [p EXCEPT !.inpkt = TRUE, !.escaped = FALSE, !.buf = e]
  BY Zenon DEF slip_reset, e
<1>3. e \in Seq(Character)
  BY <1>1 DEF e
<1>4. slip_reset(p) \in Parser /\ slip_reset(p).packets = p.packets /\ slip_reset(p).buf = e
  BY <1>2, <1>3 DEF Parser
<1>. QED
  BY <1>4 DEF e

LEMMA CharParsed ==
    ASSUME NEW q \in Parser, NEW c \in Character
    PROVE  LET r == slip_parse_char(q, c) IN
           /\ r \in Parser
           /\ \/ \E d \in Character : /\ d.of \in {c.of, <<>>} /\ r.packets = q.packets
                                      /\ r.buf \in {q.buf, Append(q.buf, d), <<>>}
              \/ \E i \in DOMAIN q.buf : /\ q.buf[i].of \in Packets /\ r.buf = <<>>
                                         /\ r.packets = Append(q.packets, q.buf[i].of)
<1>. DEFINE r == slip_parse_char(q, c)
<1>1. CASE c.k = "END"
  <2>1. r = slip_reset(slip_process(q))
    BY <1>1, Zenon DEF slip_parse_char
  <2>2. /\ slip_reset(slip_process(q)) \in Parser
        /\ slip_reset(slip_process(q)).packets = slip_process(q).packets
        /\ slip_reset(slip_process(q)).buf = <<>>
    BY HandsOn, ResetIs
  <2>3. c.of \in {c.of, <<>>}
    OBVIOUS
  <2>. HIDE DEF r
  <2>4. CASE slip_process(q).packets = q.packets
    BY <2>1, <2>2, <2>3, <2>4, Zenon DEF r
  <2>5. CASE slip_process(q).packets # q.packets
    BY <2>1, <2>2, <2>5, HandsOn, Zenon DEF r
  <2>. QED BY <2>4, <2>5
<1>2. CASE c.k # "END" /\ q.escaped
  <2>1. r = [Keep(q, Unescaped(c)) EXCEPT !.escaped = FALSE]
    BY <1>2, Zenon DEF slip_parse_char
  <2>2. Unescaped(c) \in Character /\ Unescaped(c).of \in {c.of, <<>>}
    BY UnescapedKeeps
  <2>3. /\ Keep(q, Unescaped(c)) \in Parser
        /\ Keep(q, Unescaped(c)).packets = q.packets
        /\ Keep(q, Unescaped(c)).buf \in {q.buf, Append(q.buf, Unescaped(c))}
    BY <2>2, KeepKeeps
  <2>4. r \in Parser /\ r.packets = q.packets /\ r.buf \in {q.buf, Append(q.buf, Unescaped(c))}
    <3>. HIDE DEF r
    <3>. QED BY <2>1, <2>3 DEF Parser
  <2>. HIDE DEF r
  <2>5. r.buf \in {q.buf, Append(q.buf, Unescaped(c)), <<>>}
    BY <2>4
  <2>. QED BY <2>2, <2>4, <2>5, Zenon DEF r
<1>3. CASE c.k # "END" /\ ~q.escaped /\ c.k = "ESC" /\ q.inpkt
  <2>1. r = [q EXCEPT !.escaped = TRUE]
    BY <1>3, Zenon DEF slip_parse_char
  <2>2. r \in Parser /\ r.packets = q.packets /\ r.buf = q.buf
    <3>. HIDE DEF r
    <3>. QED BY <2>1 DEF Parser
  <2>3. r.buf \in {q.buf, Append(q.buf, c), <<>>} /\ c.of \in {c.of, <<>>}
    BY <2>2
  <2>. HIDE DEF r
  <2>. QED BY <2>2, <2>3, Zenon DEF r
<1>4. CASE c.k # "END" /\ ~q.escaped /\ ~(c.k = "ESC" /\ q.inpkt)
  <2>. DEFINE s == IF StartsText(q, c) THEN [q EXCEPT !.inpkt = FALSE] ELSE q
  <2>1. r = Keep(s, c)
    BY <1>4, Zenon DEF slip_parse_char
  <2>2. s \in Parser /\ s.packets = q.packets /\ s.buf = q.buf
    BY DEF Parser
  <2>. HIDE DEF s
  <2>3. r \in Parser /\ r.packets = q.packets /\ r.buf \in {q.buf, Append(q.buf, c)}
    BY <2>1, <2>2, KeepKeeps
  <2>4. r.buf \in {q.buf, Append(q.buf, c), <<>>} /\ c.of \in {c.of, <<>>}
    BY <2>3
  <2>. HIDE DEF r
  <2>. QED BY <2>3, <2>4, Zenon DEF r
<1>. QED
  BY <1>1, <1>2, <1>3, <1>4

\* A character keeps the parser in order.
LEMMA CharKeeps ==
    ASSUME NEW q \in Parser, NEW c \in Character, NEW lo, NEW hi,
           ParsedOK(q, lo, hi), Between(lo, c.of, hi), Ahead(q, c.of)
    PROVE  /\ slip_parse_char(q, c) \in Parser
           /\ ParsedOK(slip_parse_char(q, c), lo, hi)
           /\ \A a : Ahead(q, a) /\ Before(c.of, a) => Ahead(slip_parse_char(q, c), a)
<1>. DEFINE r == slip_parse_char(q, c)
<1>1. r \in Parser
  BY CharParsed
<1>2. CASE \E d \in Character : /\ d.of \in {c.of, <<>>} /\ r.packets = q.packets
                                /\ r.buf \in {q.buf, Append(q.buf, d), <<>>}
  <2>. PICK d \in Character : /\ d.of \in {c.of, <<>>} /\ r.packets = q.packets
                              /\ r.buf \in {q.buf, Append(q.buf, d), <<>>}
    BY <1>2
  <2>1. Between(lo, d.of, hi)
    BY NoLives
  <2>2. Ahead(q, d.of)
    BY NoLives DEF Ahead
  <2>3. \A a : Before(c.of, a) => Before(d.of, a)
    BY NoLives
  <2>. HIDE DEF r
  <2>. QED BY <1>1, <2>1, <2>2, <2>3, BufferGrows DEF r
<1>3. CASE \E i \in DOMAIN q.buf : /\ q.buf[i].of \in Packets /\ r.buf = <<>>
                                   /\ r.packets = Append(q.packets, q.buf[i].of)
  <2>. HIDE DEF r
  <2>. QED BY <1>1, <1>3, PacketOut DEF r
<1>. QED
  BY <1>1, <1>2, <1>3, CharParsed

-----------------------------------------------------------------------------
(* The two folds: a buffer of characters through the parser, and the       *)
(* packets handed on through the commands                                  *)

\* The parsers on the way.
LEMMA ParsersOnTheWay ==
    ASSUME NEW p \in Parser, NEW chars \in Seq(Character)
    PROVE  \E f : /\ f[0] = p
                  /\ \A k \in 1..Len(chars) : f[k] = slip_parse_char(f[k - 1], chars[k])
                  /\ FoldLeft(slip_parse_char, p, chars) = f[Len(chars)]
<1>. DEFINE F == [z \in Parser \X Character |-> slip_parse_char(z[1], z[2])]
            n == Len(chars)
            Is(g) == g = [u \in SUBSET (1..n) |->
                            IF u = {} THEN p ELSE slip_parse_char(g[u \ {Max(u)}], chars[Max(u)])]
            iter == CHOOSE g : Is(g)
            f == [k \in 0..n |-> iter[1..k]]
<1>1. n \in Nat /\ DOMAIN chars = 1..n /\ \A i \in 1..n : chars[i] \in Character
  OBVIOUS
<1>2. F \in [Parser \X Character -> Parser]
  BY CharParsed
<1>3. PICK g \in [SUBSET (1..n) -> Parser] : FoldsUp(g, F, p, chars, n)
  <2>. HIDE DEF F
  <2>. QED BY <1>2, FoldExists
<1>4. Is(g)
  <2>1. \A u \in SUBSET (1..n) : u # {} => F[<<g[u \ {Max(u)}], chars[Max(u)]>>]
                                              = slip_parse_char(g[u \ {Max(u)}], chars[Max(u)])
    <3>. SUFFICES ASSUME NEW u \in SUBSET (1..n), u # {}
                  PROVE  F[<<g[u \ {Max(u)}], chars[Max(u)]>>]
                            = slip_parse_char(g[u \ {Max(u)}], chars[Max(u)])
      OBVIOUS
    <3>1. Max(u) \in 1..n
      BY <1>1, MaxIn
    <3>2. u \ {Max(u)} \in SUBSET (1..n)
      OBVIOUS
    <3>3. g[u \ {Max(u)}] \in Parser /\ chars[Max(u)] \in Character
      <4>. HIDE DEF n
      <4>. QED BY <1>1, <3>1, <3>2
    <3>. QED BY <3>3
  <2>2. g = [u \in SUBSET (1..n) |-> IF u = {} THEN p ELSE F[<<g[u \ {Max(u)}], chars[Max(u)]>>]]
    BY <1>3, Zenon DEF FoldsUp
  <2>. HIDE DEF F, n
  <2>. QED BY <2>1, <2>2, Zenon
<1>5. Is(iter)
  <2>. HIDE DEF Is
  <2>. QED BY <1>4, Zenon
<1>6. FoldLeft(slip_parse_char, p, chars) = iter[1..n]
  BY <1>1, Zenon DEF FoldLeft, MapThenFoldSet
<1>. HIDE DEF iter
<1>7. iter[{}] = p
  BY <1>5
<1>8. \A k \in 1..n : iter[1..k] = slip_parse_char(iter[1..k - 1], chars[k])
  <2>. SUFFICES ASSUME NEW k \in 1..n
                PROVE  iter[1..k] = slip_parse_char(iter[1..k - 1], chars[k])
    OBVIOUS
  <2>1. k - 1 \in Nat /\ (k - 1) + 1 = k /\ 1..k \in SUBSET (1..n)
    BY <1>1
  <2>2. 1..k # {} /\ Max(1..k) = k /\ (1..k) \ {k} = 1..k - 1
    BY <2>1, UpTo
  <2>3. iter[1..k] = IF 1..k = {} THEN p
                     ELSE slip_parse_char(iter[(1..k) \ {Max(1..k)}], chars[Max(1..k)])
    <3>. HIDE DEF n
    <3>. QED BY <1>5, <2>1, Zenon
  <2>. QED BY <2>2, <2>3, Zenon
<1>9. f[0] = p
  <2>1. 1..0 = {} /\ 0 \in 0..n
    BY <1>1
  <2>. QED BY <2>1, <1>7
<1>10. \A k \in 1..n : f[k] = slip_parse_char(f[k - 1], chars[k])
  <2>1. \A k \in 1..n : k \in 0..n /\ k - 1 \in 0..n
    BY <1>1
  <2>. QED BY <2>1, <1>8, Zenon
<1>11. f[n] = iter[1..n]
  BY <1>1
<1>. HIDE DEF f
<1>. QED
  BY <1>6, <1>9, <1>10, <1>11

\* What is handed on of the first n characters, and what is kept of them.
LEMMA BufferParsed ==
    ASSUME NEW p \in Parser, NEW ln \in Seq(OnTheWay), NEW n \in 1..Len(ln), NEW lo, NEW hi,
           BufferOK(p.buf, lo, hi), LineOK(ln, lo, hi), BufferFirst(p.buf, ln)
    PROVE  LET q == slip_parse_buf(p, [i \in 1..n |-> ln[i].char]) IN
           /\ q \in Parser
           /\ ParsedOK(q, lo, hi)
           /\ \A j \in n + 1..Len(ln) : Ahead(q, ln[j].char.of)
<1>. DEFINE chars == [i \in 1..n |-> ln[i].char]
            p0 == [p EXCEPT !.packets = <<>>, !.console = <<>>]
            q == FoldLeft(slip_parse_char, p0, chars)
<1>1. Len(ln) \in Nat /\ n \in Nat /\ \A i \in 1..Len(ln) : ln[i].char \in Character
  <2>1. \A i \in 1..Len(ln) : ln[i] \in OnTheWay
    OBVIOUS
  <2>. QED BY <2>1 DEF OnTheWay
<1>2. /\ chars \in Seq(Character) /\ Len(chars) = n
      /\ \A i \in 1..n : chars[i] = ln[i].char /\ chars[i] \in Character
  BY <1>1
<1>3. p0 \in Parser /\ p0.packets = <<>> /\ p0.buf = p.buf
  <2>. DEFINE e == <<>>
  <2>1. e \in Seq(Packets) /\ e \in Seq(Code)
    OBVIOUS
  <2>. HIDE DEF e
  <2>2. p0 = [p EXCEPT !.packets = e, !.console = e]
    BY Zenon DEF e
  <2>3. p0 \in Parser /\ p0.packets = e /\ p0.buf = p.buf
    <3>. HIDE DEF p0
    <3>. QED BY <2>1, <2>2 DEF Parser
  <2>. HIDE DEF p0
  <2>. QED BY <2>3 DEF e
<1>. HIDE DEF p0, chars
<1>4. ParsedOK(p0, lo, hi)
  BY <1>3 DEF ParsedOK
<1>5. \A j \in 1..Len(ln) : Ahead(p0, ln[j].char.of)
  <2>1. DOMAIN ln = 1..Len(ln) /\ DOMAIN p0.packets = {}
    BY <1>3
  <2>. QED BY <1>3, <2>1, Zenon DEF Ahead, BufferFirst
<1>6. PICK f : /\ f[0] = p0
               /\ \A k \in 1..n : f[k] = slip_parse_char(f[k - 1], chars[k])
               /\ q = f[n]
  BY <1>2, <1>3, ParsersOnTheWay
<1>. HIDE DEF q
<1>. DEFINE Good(k) == /\ f[k] \in Parser /\ ParsedOK(f[k], lo, hi)
                       /\ \A j \in k + 1..Len(ln) : Ahead(f[k], ln[j].char.of)
            U == {k \in Nat : k <= n => Good(k)}
<1>7. 0 \in U
  BY <1>3, <1>4, <1>5, <1>6
<1>8. \A k \in U : k + 1 \in U
  <2>. SUFFICES ASSUME NEW k \in Nat, k + 1 <= n, Good(k) PROVE Good(k + 1)
    BY <1>1
  <2>1. /\ k + 1 \in 1..n /\ k + 1 \in k + 1..Len(ln) /\ (k + 1) - 1 = k /\ k + 1 \in DOMAIN ln
        /\ \A j \in (k + 1) + 1..Len(ln) : j \in k + 1..Len(ln) /\ k + 1 < j /\ j \in DOMAIN ln
    BY <1>1
  <2>. DEFINE c == ln[k + 1].char
  <2>2. f[k + 1] = slip_parse_char(f[k], c)
    BY <1>2, <1>6, <2>1, Zenon
  <2>3. c \in Character /\ Between(lo, c.of, hi) /\ Ahead(f[k], c.of)
    BY <1>1, <1>2, <2>1 DEF LineOK
  <2>4. \A j \in (k + 1) + 1..Len(ln) : Ahead(f[k], ln[j].char.of) /\ Before(c.of, ln[j].char.of)
    BY <2>1 DEF LineOK
  <2>5. f[k] \in Parser /\ ParsedOK(f[k], lo, hi)
    OBVIOUS
  <2>. HIDE DEF c, Good
  <2>6. /\ slip_parse_char(f[k], c) \in Parser
        /\ ParsedOK(slip_parse_char(f[k], c), lo, hi)
        /\ \A a : Ahead(f[k], a) /\ Before(c.of, a) => Ahead(slip_parse_char(f[k], c), a)
    BY <2>3, <2>5, CharKeeps
  <2>. QED BY <2>2, <2>4, <2>6 DEF Good
<1>9. U = Nat
  <2>1. U \subseteq Nat
    OBVIOUS
  <2>. HIDE DEF U
  <2>. QED BY <1>7, <1>8, <2>1, Induction
<1>10. Good(n)
  <2>1. n \in U /\ n <= n
    BY <1>1, <1>9
  <2>. HIDE DEF Good
  <2>. QED BY <2>1
<1>11. q \in Parser /\ ParsedOK(q, lo, hi) /\ (\A j \in n + 1..Len(ln) : Ahead(q, ln[j].char.of))
  BY <1>6, <1>10
<1>. DEFINE r == [q EXCEPT !.console = @ \o Codes(q.buf), !.buf = <<>>]
<1>12. r \in Parser /\ r.packets = q.packets /\ r.buf = <<>>
  <2>. DEFINE e == <<>>
              t == q.console \o Codes(q.buf)
  <2>1. e \in Seq(Character)
    OBVIOUS
  <2>2. t \in Seq(Code)
    BY <1>11, CodesType, ParserParts
  <2>. HIDE DEF e, t
  <2>3. r = [q EXCEPT !.console = t, !.buf = e]
    BY Zenon DEF e, t
  <2>4. r \in Parser /\ r.packets = q.packets /\ r.buf = e
    <3>. HIDE DEF r
    <3>. QED BY <1>11, <2>1, <2>2, <2>3 DEF Parser
  <2>. HIDE DEF r
  <2>. QED BY <2>4 DEF e
<1>. HIDE DEF r
<1>13. ParsedOK(r, lo, hi) /\ (\A j \in n + 1..Len(ln) : Ahead(r, ln[j].char.of))
  BY <1>11, <1>12 DEF ParsedOK, Ahead, BufferOK
<1>14. slip_parse_buf(p, chars) \in {q, r}
  BY Zenon DEF slip_parse_buf, q, r, p0
<1>15. CASE slip_parse_buf(p, chars) = q
  BY <1>11, <1>15 DEF chars
<1>16. CASE slip_parse_buf(p, chars) = r
  BY <1>12, <1>13, <1>16 DEF chars
<1>. QED
  BY <1>14, <1>15, <1>16

-----------------------------------------------------------------------------
(* The commands *)

LEMMA EspParts ==
    ASSUME NEW e \in EspOut
    PROVE  /\ e.callbacks \in Seq(Callback) /\ e.out \in Seq(Message) /\ e.wifiState \in 0..5
           /\ e.wifiCbAdded \in BOOLEAN /\ e.cmdInSync \in BOOLEAN /\ e.programming \in BOOLEAN
           /\ e.lastWifiStatus \in Nat /\ e.mqttCb \in Int /\ e.synced \in Int
BY DEF EspOut

\* What r has of e's.
SameTable(r, e) ==
    r.callbacks = e.callbacks /\ r.wifiCbAdded = e.wifiCbAdded /\ r.synced = e.synced

LEMMA RespondKeeps ==
    ASSUME NEW e \in EspOut, NEW cmd \in {"SYNC", "RESP_V", "RESP_CB"}, NEW value \in Int
    PROVE  Respond(e, cmd, value) \in EspOut /\ SameTable(Respond(e, cmd, value), e)
<1>1. Append(e.out, [cmd |-> cmd, value |-> value]) \in Seq(Message)
  BY EspParts DEF Message
<1>. QED
  BY <1>1 DEF Respond, EspOut, SameTable

HasWifiCb(e) == \E i \in DOMAIN e.callbacks : e.callbacks[i].name = "wifiCb"
AllSince(e, lo) == \A i \in DOMAIN e.callbacks : e.callbacks[i].cb >= lo
OncePerName(e) ==
    \A i, j \in DOMAIN e.callbacks : e.callbacks[i].name = e.callbacks[j].name => i = j

\* A callback that is added replaces that of its name, or is put at the end.
LEMMA AddCbKeeps ==
    ASSUME NEW e \in EspOut, NEW name \in Names \cup {"wifiCb", "x"}, NEW cb \in Nat, NEW lo \in Int
    PROVE  LET r == cmdAddCb(e, name, cb) IN
           /\ r \in EspOut /\ r.synced = e.synced /\ r.wifiCbAdded = e.wifiCbAdded
           /\ AllSince(e, lo) /\ cb >= lo => AllSince(r, lo)
           /\ OncePerName(e) => OncePerName(r)
           /\ HasWifiCb(e) \/ (e.callbacks = <<>> /\ name = "wifiCb") => HasWifiCb(r)
<1>. DEFINE known == {i \in DOMAIN e.callbacks : e.callbacks[i].name = name}
            new == [name |-> name, cb |-> cb]
            r == cmdAddCb(e, name, cb)
            t == [i \in DOMAIN e.callbacks |-> IF i \in known THEN new ELSE e.callbacks[i]]
<1>1. /\ e.callbacks \in Seq(Callback) /\ Len(e.callbacks) \in Nat
      /\ DOMAIN e.callbacks = 1..Len(e.callbacks)
  BY EspParts
<1>2. new \in Callback /\ new.name = name /\ new.cb = cb
  BY DEF Callback
<1>3. \A i \in DOMAIN e.callbacks : e.callbacks[i].cb \in Nat
  <2>1. \A i \in DOMAIN e.callbacks : e.callbacks[i] \in Callback
    BY <1>1
  <2>. QED BY <2>1 DEF Callback
<1>4. CASE known # {}
  <2>1. r = [e EXCEPT !.callbacks = t]
    <3>. HIDE DEF known
    <3>. QED BY <1>4, Zenon DEF cmdAddCb, known
  <2>2. \A i \in DOMAIN e.callbacks : e.callbacks[i] \in Callback
    BY <1>1
  <2>3. t \in Seq(Callback)
    <3>. HIDE DEF known, new
    <3>. QED BY <1>1, <1>2, <2>2
  <2>4. /\ DOMAIN t = DOMAIN e.callbacks
        /\ \A i \in DOMAIN e.callbacks : /\ t[i].name = e.callbacks[i].name
                                         /\ t[i].cb = cb \/ t[i].cb = e.callbacks[i].cb
    <3>1. \A i \in DOMAIN e.callbacks : t[i] = IF i \in known THEN new ELSE e.callbacks[i]
      OBVIOUS
    <3>2. \A i \in known : e.callbacks[i].name = name
      OBVIOUS
    <3>. HIDE DEF known, new
    <3>. QED BY <1>2, <3>1, <3>2
  <2>. HIDE DEF t
  <2>5. r \in EspOut /\ r.callbacks = t /\ r.synced = e.synced /\ r.wifiCbAdded = e.wifiCbAdded
    <3>. HIDE DEF r
    <3>. QED BY <2>1, <2>3 DEF EspOut
  <2>. HIDE DEF r
  <2>6. AllSince(e, lo) /\ cb >= lo => AllSince(r, lo)
    <3>. HIDE DEF known, new
    <3>. QED BY <2>4, <2>5 DEF AllSince
  <2>7. OncePerName(e) => OncePerName(r)
    BY <2>4, <2>5, Zenon DEF OncePerName
  <2>8. HasWifiCb(e) => HasWifiCb(r)
    BY <2>4, <2>5, Zenon DEF HasWifiCb
  <2>9. e.callbacks # <<>>
    BY <1>4
  <2>. QED BY <2>5, <2>6, <2>7, <2>8, <2>9 DEF r
<1>5. CASE known = {} /\ Len(e.callbacks) < MAX_CALLBACKS
  <2>. DEFINE u == Append(e.callbacks, new)
  <2>1. r = [e EXCEPT !.callbacks = u]
    <3>. HIDE DEF known
    <3>. QED BY <1>5, Zenon DEF cmdAddCb, known
  <2>2. /\ u \in Seq(Callback) /\ DOMAIN u = 1..Len(e.callbacks) + 1
        /\ u[Len(e.callbacks) + 1] = new
        /\ \A i \in 1..Len(e.callbacks) : u[i] = e.callbacks[i]
    <3>. HIDE DEF new
    <3>. QED BY <1>1, <1>2
  <2>3. \A i \in DOMAIN e.callbacks : e.callbacks[i].name # name
    BY <1>5
  <2>. HIDE DEF u
  <2>4. r \in EspOut /\ r.callbacks = u /\ r.synced = e.synced /\ r.wifiCbAdded = e.wifiCbAdded
    <3>. HIDE DEF r
    <3>. QED BY <2>1, <2>2 DEF EspOut
  <2>5. \A i \in DOMAIN u : \/ i = Len(e.callbacks) + 1 /\ u[i] = new
                            \/ i \in DOMAIN e.callbacks /\ u[i] = e.callbacks[i]
    BY <1>1, <2>2
  <2>. HIDE DEF r, new, known
  <2>6. AllSince(e, lo) /\ cb >= lo => AllSince(r, lo)
    BY <1>2, <2>4, <2>5 DEF AllSince
  <2>7. OncePerName(e) => OncePerName(r)
    <3>. SUFFICES ASSUME OncePerName(e), NEW i \in DOMAIN u, NEW j \in DOMAIN u,
                         u[i].name = u[j].name
                  PROVE  i = j
      BY <2>4 DEF OncePerName
    <3>. QED BY <1>2, <2>3, <2>5 DEF OncePerName
  <2>8. HasWifiCb(e) \/ name = "wifiCb" => HasWifiCb(r)
    <3>1. HasWifiCb(e) => HasWifiCb(r)
      BY <1>1, <2>2, <2>4 DEF HasWifiCb
    <3>2. name = "wifiCb" => HasWifiCb(r)
      <4>1. Len(e.callbacks) + 1 \in DOMAIN u
        BY <1>1, <2>2
      <4>. QED BY <4>1, <1>2, <2>2, <2>4, Zenon DEF HasWifiCb
    <3>. QED BY <3>1, <3>2
  <2>. QED BY <2>4, <2>6, <2>7, <2>8 DEF r
<1>6. CASE known = {} /\ ~(Len(e.callbacks) < MAX_CALLBACKS)
  <2>1. r = e
    <3>. HIDE DEF known
    <3>. QED BY <1>6, Zenon DEF cmdAddCb, known
  <2>2. e.callbacks # <<>>
    BY <1>6, CmdAssumption
  <2>. HIDE DEF r
  <2>. QED BY <2>1, <2>2 DEF r
<1>. QED
  BY <1>4, <1>5, <1>6

LEMMA WifiCbKeeps ==
    ASSUME NEW e \in EspOut
    PROVE  cmdWifiCb(e) \in EspOut /\ SameTable(cmdWifiCb(e), e)
<1>. DEFINE q == [e EXCEPT !.lastWifiStatus = e.wifiState]
            value == cmdGetCbByName(e, "wifiCb")
<1>1. q \in EspOut /\ SameTable(q, e)
  BY EspParts DEF EspOut, SameTable
<1>2. value \in Int
  <2>. DEFINE found == {i \in DOMAIN e.callbacks : e.callbacks[i].name = "wifiCb"}
  <2>1. CASE found = {}
    BY <2>1 DEF cmdGetCbByName, NoLife
  <2>2. CASE found # {}
    <3>1. value = e.callbacks[CHOOSE i \in found : TRUE].cb
      BY <2>2, Zenon DEF cmdGetCbByName
    <3>2. (CHOOSE i \in found : TRUE) \in DOMAIN e.callbacks
      BY <2>2, Zenon
    <3>3. \A i \in DOMAIN e.callbacks : e.callbacks[i].cb \in Int
      <4>1. \A i \in DOMAIN e.callbacks : e.callbacks[i] \in Callback
        BY EspParts
      <4>. QED BY <4>1 DEF Callback
    <3>. QED BY <3>1, <3>2, <3>3, Zenon
  <2>. QED BY <2>1, <2>2
<1>3. cmdWifiCb(e) \in {e, Respond(q, "RESP_CB", value)}
  BY Zenon DEF cmdWifiCb
<1>. HIDE DEF q, value
<1>4. Respond(q, "RESP_CB", value) \in EspOut /\ SameTable(Respond(q, "RESP_CB", value), q)
  BY <1>1, <1>2, RespondKeeps
<1>. QED
  BY <1>1, <1>3, <1>4, Zenon DEF SameTable

LEMMA TableParts ==
    ASSUME NEW e
    PROVE  TableOK(e) <=> /\ e.wifiCbAdded => HasWifiCb(e)
                          /\ AllSince(e, e.synced)
                          /\ OncePerName(e)
BY Zenon DEF TableOK, HasWifiCb, AllSince, OncePerName

LEMMA SameTableOK ==
    ASSUME NEW e, NEW r, TableOK(e), SameTable(r, e)
    PROVE  TableOK(r)
BY DEF TableOK, SameTable

\* What the handlers change of e one after the other.
LEMMA ChangesKeep ==
    ASSUME NEW e \in EspOut, NEW s \in Int
    PROVE  /\ [e EXCEPT !.lastWifiStatus = 255] \in EspOut
           /\ SameTable([e EXCEPT !.lastWifiStatus = 255], e)
           /\ [e EXCEPT !.cmdInSync = TRUE, !.synced = s] \in EspOut
           /\ [e EXCEPT !.cmdInSync = TRUE, !.synced = s].callbacks = e.callbacks
           /\ [e EXCEPT !.cmdInSync = TRUE, !.synced = s].wifiCbAdded = e.wifiCbAdded
           /\ [e EXCEPT !.cmdInSync = TRUE, !.synced = s].synced = s
<1>1. [e EXCEPT !.lastWifiStatus = 255] \in EspOut
  BY DEF EspOut
<1>2. SameTable([e EXCEPT !.lastWifiStatus = 255], e)
  BY DEF EspOut, SameTable
<1>3. [e EXCEPT !.cmdInSync = TRUE, !.synced = s] \in EspOut
  BY DEF EspOut
<1>4. /\ [e EXCEPT !.cmdInSync = TRUE, !.synced = s].callbacks = e.callbacks
      /\ [e EXCEPT !.cmdInSync = TRUE, !.synced = s].wifiCbAdded = e.wifiCbAdded
      /\ [e EXCEPT !.cmdInSync = TRUE, !.synced = s].synced = s
  BY DEF EspOut
<1>. QED
  BY <1>1, <1>2, <1>3, <1>4

\* A SYNC starts the table anew.
LEMMA SyncKeeps ==
    ASSUME NEW e \in EspOut, NEW l \in DOMAIN Values
    PROVE  LET r == cmdSync(e, Values[l]) IN r \in EspOut /\ TableOK(r) /\ r.synced = l
<1>. DEFINE none == <<>>
            a == [e EXCEPT !.callbacks = none, !.wifiCbAdded = TRUE]
            q == Respond(a, "RESP_V", l)
            b == [q EXCEPT !.cmdInSync = TRUE, !.synced = l]
            c == cmdAddCb(b, "wifiCb", l)
            d == [c EXCEPT !.lastWifiStatus = 255]
<1>1. l \in Nat /\ LifeOf(Values[l]) = l /\ Values[l] # "zero"
  BY CmdAssumption, LifeOfIs
<1>2. none \in Seq(Callback)
  OBVIOUS
<1>3. cmdSync(e, Values[l]) = cmdWifiCb(d)
  BY <1>1, Zenon DEF cmdSync
<1>. HIDE DEF none
<1>4. a \in EspOut /\ a.callbacks = none /\ a.wifiCbAdded = TRUE
  BY <1>2 DEF EspOut
<1>. HIDE DEF a
<1>5. q \in EspOut /\ q.callbacks = none /\ q.wifiCbAdded = TRUE
  <2>1. "RESP_V" \in {"SYNC", "RESP_V", "RESP_CB"} /\ l \in Int
    BY <1>1
  <2>2. q \in EspOut /\ SameTable(q, a)
    BY <1>4, <2>1, RespondKeeps
  <2>. HIDE DEF q
  <2>. QED BY <1>4, <2>2 DEF SameTable
<1>. HIDE DEF q
<1>6. b \in EspOut /\ b.callbacks = none /\ b.wifiCbAdded = TRUE /\ b.synced = l
  <2>1. l \in Int
    BY <1>1
  <2>. QED BY <1>5, <2>1, ChangesKeep
<1>. HIDE DEF b
<1>7. AllSince(b, l) /\ OncePerName(b) /\ b.callbacks = <<>>
  <2>1. b.callbacks = <<>>
    BY <1>6 DEF none
  <2>. QED BY <2>1 DEF AllSince, OncePerName
<1>8. /\ c \in EspOut /\ c.synced = l /\ c.wifiCbAdded = TRUE
      /\ AllSince(c, l) /\ OncePerName(c) /\ HasWifiCb(c)
  <2>1. "wifiCb" \in Names \cup {"wifiCb", "x"} /\ l \in Int /\ l >= l
    BY <1>1
  <2>. QED BY <1>1, <1>6, <1>7, <2>1, AddCbKeeps
<1>. HIDE DEF c
<1>9. d \in EspOut /\ SameTable(d, c)
  <2>1. l \in Int /\ c \in EspOut
    BY <1>1, <1>8
  <2>. QED BY <2>1, ChangesKeep
<1>. HIDE DEF d
<1>10. cmdWifiCb(d) \in EspOut /\ SameTable(cmdWifiCb(d), c)
  BY <1>9, WifiCbKeeps DEF SameTable
<1>11. TableOK(c)
  BY <1>8, TableParts
<1>. QED
  BY <1>3, <1>8, <1>10, <1>11, SameTableOK, Zenon DEF SameTable

LEMMA AddCallbackKeeps ==
    ASSUME NEW e \in EspOut, NEW l \in DOMAIN Values, NEW name \in Names
    PROVE  LET r == cmdAddCallback(e, <<"ADD_CB", Values[l], name>>) IN
           /\ r \in EspOut /\ r.synced = e.synced
           /\ TableOK(e) /\ e.synced <= l => TableOK(r)
<1>. DEFINE r == cmdAddCb(e, name, l)
<1>1. l \in Nat /\ LifeOf(Values[l]) = l /\ Values[l] # "zero"
  BY CmdAssumption, LifeOfIs
<1>2. cmdAddCallback(e, <<"ADD_CB", Values[l], name>>) = r
  <2>. DEFINE content == <<"ADD_CB", Values[l], name>>
  <2>1. Len(content) = 3 /\ content[2] = Values[l] /\ content[3] = name
    OBVIOUS
  <2>. HIDE DEF content
  <2>2. cmdAddCallback(e, content) = cmdAddCb(e, content[3], LifeOf(content[2]))
    BY <1>1, <2>1, Zenon DEF cmdAddCallback
  <2>. QED BY <1>1, <2>1, <2>2 DEF content
<1>3. /\ r \in EspOut /\ r.synced = e.synced /\ r.wifiCbAdded = e.wifiCbAdded
      /\ AllSince(e, e.synced) /\ l >= e.synced => AllSince(r, e.synced)
      /\ OncePerName(e) => OncePerName(r)
      /\ HasWifiCb(e) => HasWifiCb(r)
  <2>1. name \in Names \cup {"wifiCb", "x"} /\ e.synced \in Int
    BY EspParts
  <2>. HIDE DEF r
  <2>. QED BY <1>1, <2>1, AddCbKeeps DEF r
<1>. HIDE DEF r
<1>4. ASSUME TableOK(e), e.synced <= l PROVE TableOK(r)
  <2>1. l >= e.synced
    BY <1>1, <1>4, EspParts
  <2>. QED BY <1>3, <1>4, <2>1, TableParts
<1>. QED
  BY <1>2, <1>3, <1>4

LEMMA SetupKeeps ==
    ASSUME NEW e \in EspOut, NEW l \in DOMAIN Values
    PROVE  LET r == MQTTCMD_Setup(e, Values[l]) IN r \in EspOut /\ SameTable(r, e)
<1>. DEFINE q == [e EXCEPT !.mqttCb = LifeOf(Values[l])]
<1>1. LifeOf(Values[l]) \in Int
  BY CmdAssumption, LifeOfIs
<1>2. q \in EspOut /\ SameTable(q, e) /\ q.mqttCb \in Int
  BY <1>1 DEF EspOut, SameTable
<1>3. MQTTCMD_Setup(e, Values[l]) \in {q, Respond(q, "RESP_CB", q.mqttCb)}
  BY Zenon DEF MQTTCMD_Setup
<1>. HIDE DEF q
<1>4. Respond(q, "RESP_CB", q.mqttCb) \in EspOut /\ SameTable(Respond(q, "RESP_CB", q.mqttCb), q)
  BY <1>2, RespondKeeps
<1>. QED
  BY <1>2, <1>3, <1>4, Zenon DEF SameTable

\* A packet of the MCU's lives since the last SYNC leaves the table as it
\* should be.
LEMMA PacketKeeps ==
    ASSUME NEW e \in EspOut, NEW content \in Packets
    PROVE  LET r == cmdParsePacket(e, content) IN
           /\ r \in EspOut
           /\ r.synced = e.synced \/ r.synced \in LivesIn(content)
           /\ TableOK(e) /\ (\A l \in LivesIn(content) : e.synced <= l) => TableOK(r)
<1>. DEFINE r == cmdParsePacket(e, content)
            Ok(x) == /\ x \in EspOut
                     /\ x.synced = e.synced \/ x.synced \in LivesIn(content)
                     /\ TableOK(e) /\ (\A l \in LivesIn(content) : e.synced <= l) => TableOK(x)
<1>1. Ok(e)
  OBVIOUS
<1>2. \A cmd \in {"SYNC", "RESP_V"} : Ok(Respond(e, cmd, NoLife))
  <2>1. NoLife \in Int
    BY DEF NoLife
  <2>2. \A cmd \in {"SYNC", "RESP_V"} : /\ Respond(e, cmd, NoLife) \in EspOut
                                        /\ SameTable(Respond(e, cmd, NoLife), e)
    BY <2>1, RespondKeeps
  <2>. QED BY <2>2, SameTableOK, Zenon DEF SameTable
<1>3. Ok(cmdExec(e, content))
  <2>1. CASE \E l \in DOMAIN Values : content = <<"SYNC", Values[l]>>
    <3>. PICK l \in DOMAIN Values : content = <<"SYNC", Values[l]>>
      BY <2>1
    <3>1. cmdExec(e, content) = cmdSync(e, Values[l])
      <4>1. content[1] = "SYNC" /\ content[2] = Values[l]
        OBVIOUS
      <4>. QED BY <4>1, Zenon DEF cmdExec
    <3>2. LivesIn(content) = {l}
      BY Lives
    <3>. QED BY <3>1, <3>2, SyncKeeps
  <2>2. CASE \E l \in DOMAIN Values, name \in Names : content = <<"ADD_CB", Values[l], name>>
    <3>. PICK l \in DOMAIN Values, name \in Names : content = <<"ADD_CB", Values[l], name>>
      BY <2>2
    <3>1. cmdExec(e, content) = cmdAddCallback(e, content)
      <4>1. content[1] = "ADD_CB"
        OBVIOUS
      <4>. QED BY <4>1 DEF cmdExec
    <3>2. LivesIn(content) = {l}
      BY Lives
    <3>. DEFINE x == cmdAddCallback(e, content)
    <3>3. x \in EspOut /\ x.synced = e.synced /\ (TableOK(e) /\ e.synced <= l => TableOK(x))
      BY AddCallbackKeeps
    <3>. HIDE DEF x
    <3>4. Ok(x)
      BY <3>2, <3>3
    <3>. QED BY <3>1, <3>4 DEF x
  <2>3. CASE \E l \in DOMAIN Values : content = <<"MQTT_SETUP", Values[l]>>
    <3>. PICK l \in DOMAIN Values : content = <<"MQTT_SETUP", Values[l]>>
      BY <2>3
    <3>1. cmdExec(e, content) = MQTTCMD_Setup(e, Values[l])
      <4>1. content[1] = "MQTT_SETUP" /\ content[2] = Values[l]
        OBVIOUS
      <4>. QED BY <4>1 DEF cmdExec
    <3>. QED BY <3>1, SetupKeeps, SameTableOK DEF SameTable
  <2>4. CASE content = <<"SYNC", "zero">>
    <3>1. cmdExec(e, content) = Respond(e, "RESP_V", NoLife)
      <4>1. content[1] = "SYNC" /\ content[2] = "zero"
        BY <2>4
      <4>. QED BY <4>1 DEF cmdExec, cmdSync
    <3>. QED BY <3>1, <1>2
  <2>5. CASE content = <<"ADD_CB", "zero", "x">>
    <3>1. cmdExec(e, content) = e
      <4>1. content[1] = "ADD_CB" /\ content[2] = "zero"
        BY <2>5
      <4>. QED BY <4>1 DEF cmdExec, cmdAddCallback
    <3>. QED BY <3>1, <1>1
  <2>6. CASE \/ content = <<"STATUS", "zero">> \/ content = <<"STATUS">>
             \/ content = <<"STATUS", "zero", "x", "x">>
    <3>1. cmdExec(e, content) = Respond(e, "RESP_V", NoLife)
      <4>1. content[1] = "STATUS"
        BY <2>6
      <4>. QED BY <4>1 DEF cmdExec, cmdWifiStatus
    <3>. QED BY <3>1, <1>2
  <2>. HIDE DEF Ok
  <2>. QED BY <2>1, <2>2, <2>3, <2>4, <2>5, <2>6, PacketForms
<1>4. r \in {e, Respond(e, "SYNC", NoLife), cmdExec(e, content)}
  <2>1. CASE Len(content) < 2
    BY <2>1, Zenon DEF cmdParsePacket
  <2>2. CASE Len(content) >= 2 /\ ~e.cmdInSync /\ content[1] # "SYNC"
    <3>1. Len(content) \in Nat
      BY PacketType
    <3>2. ~(Len(content) < 2)
      BY <2>2, <3>1
    <3>. QED BY <2>2, <3>2, Zenon DEF cmdParsePacket
  <2>3. CASE ~(Len(content) < 2) /\ ~(Len(content) >= 2 /\ ~e.cmdInSync /\ content[1] # "SYNC")
    BY <2>3, Zenon DEF cmdParsePacket
  <2>. QED BY <2>1, <2>2, <2>3
<1>. HIDE DEF r
<1>5. Ok(r)
  <2>. HIDE DEF Ok
  <2>. QED BY <1>1, <1>2, <1>3, <1>4
<1>. QED
  BY <1>5 DEF r

\* What the ESP is after each of the packets.
LEMMA EspsOnTheWay ==
    ASSUME NEW e \in EspOut, NEW packets \in Seq(Packets)
    PROVE  \E f : /\ f[0] = e
                  /\ \A k \in 1..Len(packets) : f[k] = cmdParsePacket(f[k - 1], packets[k])
                  /\ FoldLeft(cmdParsePacket, e, packets) = f[Len(packets)]
<1>. DEFINE F == [z \in EspOut \X Packets |-> cmdParsePacket(z[1], z[2])]
            n == Len(packets)
            Is(g) == g = [u \in SUBSET (1..n) |->
                            IF u = {} THEN e ELSE cmdParsePacket(g[u \ {Max(u)}], packets[Max(u)])]
            iter == CHOOSE g : Is(g)
            f == [k \in 0..n |-> iter[1..k]]
<1>1. n \in Nat /\ DOMAIN packets = 1..n /\ \A i \in 1..n : packets[i] \in Packets
  OBVIOUS
<1>2. F \in [EspOut \X Packets -> EspOut]
  BY PacketKeeps
<1>3. PICK g \in [SUBSET (1..n) -> EspOut] : FoldsUp(g, F, e, packets, n)
  <2>. HIDE DEF F
  <2>. QED BY <1>2, FoldExists
<1>4. Is(g)
  <2>1. \A u \in SUBSET (1..n) : u # {} => F[<<g[u \ {Max(u)}], packets[Max(u)]>>]
                                              = cmdParsePacket(g[u \ {Max(u)}], packets[Max(u)])
    <3>. SUFFICES ASSUME NEW u \in SUBSET (1..n), u # {}
                  PROVE  F[<<g[u \ {Max(u)}], packets[Max(u)]>>]
                            = cmdParsePacket(g[u \ {Max(u)}], packets[Max(u)])
      OBVIOUS
    <3>1. Max(u) \in 1..n
      BY <1>1, MaxIn
    <3>2. u \ {Max(u)} \in SUBSET (1..n)
      OBVIOUS
    <3>3. g[u \ {Max(u)}] \in EspOut /\ packets[Max(u)] \in Packets
      <4>. HIDE DEF n
      <4>. QED BY <1>1, <3>1, <3>2
    <3>. QED BY <3>3
  <2>2. g = [u \in SUBSET (1..n) |-> IF u = {} THEN e ELSE F[<<g[u \ {Max(u)}], packets[Max(u)]>>]]
    BY <1>3, Zenon DEF FoldsUp
  <2>. HIDE DEF F, n
  <2>. QED BY <2>1, <2>2, Zenon
<1>5. Is(iter)
  <2>. HIDE DEF Is
  <2>. QED BY <1>4, Zenon
<1>6. FoldLeft(cmdParsePacket, e, packets) = iter[1..n]
  BY <1>1, Zenon DEF FoldLeft, MapThenFoldSet
<1>. HIDE DEF iter
<1>7. iter[{}] = e
  BY <1>5
<1>8. \A k \in 1..n : iter[1..k] = cmdParsePacket(iter[1..k - 1], packets[k])
  <2>. SUFFICES ASSUME NEW k \in 1..n
                PROVE  iter[1..k] = cmdParsePacket(iter[1..k - 1], packets[k])
    OBVIOUS
  <2>1. k - 1 \in Nat /\ (k - 1) + 1 = k /\ 1..k \in SUBSET (1..n)
    BY <1>1
  <2>2. 1..k # {} /\ Max(1..k) = k /\ (1..k) \ {k} = 1..k - 1
    BY <2>1, UpTo
  <2>3. iter[1..k] = IF 1..k = {} THEN e
                     ELSE cmdParsePacket(iter[(1..k) \ {Max(1..k)}], packets[Max(1..k)])
    <3>. HIDE DEF n
    <3>. QED BY <1>5, <2>1, Zenon
  <2>. QED BY <2>2, <2>3, Zenon
<1>9. f[0] = e
  <2>1. 1..0 = {} /\ 0 \in 0..n
    BY <1>1
  <2>. QED BY <2>1, <1>7
<1>10. \A k \in 1..n : f[k] = cmdParsePacket(f[k - 1], packets[k])
  <2>1. \A k \in 1..n : k \in 0..n /\ k - 1 \in 0..n
    BY <1>1
  <2>. QED BY <2>1, <1>8, Zenon
<1>11. f[n] = iter[1..n]
  BY <1>1
<1>. HIDE DEF f
<1>. QED
  BY <1>6, <1>9, <1>10, <1>11

\* Packets of lives since the last SYNC, in their order, leave the table as it
\* should be, and what comes after them is of such lives again.
LEMMA CommandsKeep ==
    ASSUME NEW e \in EspOut, NEW packets \in Seq(Packets), NEW hi \in Int,
           TableOK(e), e.synced <= hi,
           \A i \in DOMAIN packets : Between(e.synced, packets[i], hi),
           \A i, j \in DOMAIN packets : i < j => Before(packets[i], packets[j])
    PROVE  LET r == FoldLeft(cmdParsePacket, e, packets) IN
           /\ r \in EspOut /\ TableOK(r) /\ r.synced <= hi
           /\ \A a : /\ Between(e.synced, a, hi)
                     /\ \A i \in DOMAIN packets : Before(packets[i], a)
                     => Between(r.synced, a, hi)
<1>. DEFINE n == Len(packets)
            r == FoldLeft(cmdParsePacket, e, packets)
            Since(x, k) == x = e.synced \/ \E i \in 1..k : x \in LivesIn(packets[i])
<1>1. n \in Nat /\ DOMAIN packets = 1..n /\ \A i \in 1..n : packets[i] \in Packets
  OBVIOUS
<1>2. PICK f : /\ f[0] = e
               /\ \A k \in 1..n : f[k] = cmdParsePacket(f[k - 1], packets[k])
               /\ r = f[n]
  BY EspsOnTheWay
<1>. HIDE DEF r
<1>. DEFINE Good(k) == f[k] \in EspOut /\ TableOK(f[k]) /\ Since(f[k].synced, k)
            U == {k \in Nat : k <= n => Good(k)}
<1>3. 0 \in U
  BY <1>2
<1>4. \A k \in U : k + 1 \in U
  <2>. SUFFICES ASSUME NEW k \in Nat, k + 1 <= n, Good(k) PROVE Good(k + 1)
    BY <1>1
  <2>1. k + 1 \in 1..n /\ (k + 1) - 1 = k /\ 1..k \subseteq 1..n /\ \A i \in 1..k : i < k + 1
    BY <1>1
  <2>. DEFINE t == packets[k + 1]
  <2>2. f[k + 1] = cmdParsePacket(f[k], t) /\ t \in Packets
    BY <1>1, <1>2, <2>1, Zenon
  <2>3. \A l \in LivesIn(t) : f[k].synced <= l
    <3>. SUFFICES ASSUME NEW l \in LivesIn(t) PROVE f[k].synced <= l
      OBVIOUS
    <3>1. e.synced <= l
      BY <1>1, <2>1 DEF Between
    <3>2. ASSUME NEW i \in 1..k, f[k].synced \in LivesIn(packets[i]) PROVE f[k].synced <= l
      <4>1. Before(packets[i], t)
        BY <1>1, <2>1
      <4>. QED BY <3>2, <4>1 DEF Before
    <3>. QED BY <3>1, <3>2
  <2>4. f[k] \in EspOut /\ TableOK(f[k])
    OBVIOUS
  <2>5. /\ f[k + 1] \in EspOut
        /\ f[k + 1].synced = f[k].synced \/ f[k + 1].synced \in LivesIn(t)
        /\ TableOK(f[k + 1])
    <3>. HIDE DEF t
    <3>. QED BY <2>2, <2>3, <2>4, PacketKeeps
  <2>6. Since(f[k + 1].synced, k + 1)
    <3>1. k + 1 \in 1..k + 1 /\ 1..k \subseteq 1..k + 1
      OBVIOUS
    <3>. QED BY <2>5, <3>1
  <2>. QED BY <2>5, <2>6
<1>5. U = Nat
  <2>1. U \subseteq Nat
    OBVIOUS
  <2>. HIDE DEF U
  <2>. QED BY <1>3, <1>4, <2>1, Induction
<1>6. Good(n)
  <2>1. n \in U /\ n <= n
    BY <1>1, <1>5
  <2>. HIDE DEF Good
  <2>. QED BY <2>1
<1>7. r \in EspOut /\ TableOK(r) /\ Since(r.synced, n)
  BY <1>2, <1>6
<1>8. r.synced <= hi
  BY <1>1, <1>7 DEF Between
<1>9. ASSUME NEW a, Between(e.synced, a, hi), \A i \in DOMAIN packets : Before(packets[i], a)
      PROVE  Between(r.synced, a, hi)
  <2>. SUFFICES ASSUME NEW l \in LivesIn(a) PROVE r.synced <= l /\ l <= hi
    BY DEF Between
  <2>1. e.synced <= l /\ l <= hi
    BY <1>9 DEF Between
  <2>2. ASSUME NEW i \in 1..n, r.synced \in LivesIn(packets[i]) PROVE r.synced <= l
    BY <1>1, <1>9, <2>2 DEF Before
  <2>. QED BY <1>7, <2>1, <2>2
<1>. HIDE DEF n, Since, Good
<1>. QED
  BY <1>7, <1>8, <1>9 DEF r

-----------------------------------------------------------------------------
(* What is on its way *)

LEMMA LineParts ==
    ASSUME NEW ln \in Seq(OnTheWay)
    PROVE  /\ DOMAIN ln = 1..Len(ln) /\ Len(ln) \in Nat
           /\ \A i \in DOMAIN ln : /\ ln[i] \in OnTheWay /\ ln[i].char \in Character
                                   /\ ln[i].first \in BOOLEAN /\ ln[i].whole \in Tag
<1>1. \A i \in DOMAIN ln : ln[i] \in OnTheWay
  OBVIOUS
<1>. QED
  BY <1>1 DEF OnTheWay

\* A line of which every character is one of ln, in the order of ln, or one
\* that is of no packet.
LEMMA LineFrom ==
    ASSUME NEW ln \in Seq(OnTheWay), NEW new \in Seq(OnTheWay), NEW lo, NEW hi,
           NEW from \in [DOMAIN new -> DOMAIN ln],
           \A i, j \in DOMAIN new : i < j => from[i] < from[j],
           \A i \in DOMAIN new : new[i].char.of \in {ln[from[i]].char.of, <<>>},
           LineOK(ln, lo, hi)
    PROVE  /\ LineOK(new, lo, hi)
           /\ \A buf : BufferFirst(buf, ln) => BufferFirst(buf, new)
<1>1. \A i \in DOMAIN new : Between(lo, new[i].char.of, hi)
  BY NoLives DEF LineOK
<1>2. \A i, j \in DOMAIN new : i < j => Before(new[i].char.of, new[j].char.of)
  <2>. SUFFICES ASSUME NEW i \in DOMAIN new, NEW j \in DOMAIN new, i < j
                PROVE  Before(new[i].char.of, new[j].char.of)
    OBVIOUS
  <2>1. from[i] \in DOMAIN ln /\ from[j] \in DOMAIN ln /\ from[i] < from[j]
    OBVIOUS
  <2>2. Before(ln[from[i]].char.of, ln[from[j]].char.of)
    BY <2>1 DEF LineOK
  <2>. QED BY <2>2, NoLives
<1>3. ASSUME NEW buf, BufferFirst(buf, ln) PROVE BufferFirst(buf, new)
  BY <1>3, NoLives DEF BufferFirst
<1>. QED
  BY <1>1, <1>2, <1>3 DEF LineOK

\* A part of the line.
LEMMA PartOfLine ==
    ASSUME NEW ln \in Seq(OnTheWay), NEW m \in 1..Len(ln) + 1, NEW n \in 0..Len(ln), NEW lo, NEW hi,
           LineOK(ln, lo, hi)
    PROVE  /\ SubSeq(ln, m, n) \in Seq(OnTheWay)
           /\ LineOK(SubSeq(ln, m, n), lo, hi)
           /\ \A buf : BufferFirst(buf, ln) => BufferFirst(buf, SubSeq(ln, m, n))
<1>. DEFINE new == SubSeq(ln, m, n)
            from == [i \in DOMAIN new |-> m + i - 1]
<1>1. /\ new \in Seq(OnTheWay)
      /\ \A i \in DOMAIN new : m + i - 1 \in DOMAIN ln /\ new[i] = ln[m + i - 1] /\ i \in Nat
  OBVIOUS
<1>. HIDE DEF new
<1>2. from \in [DOMAIN new -> DOMAIN ln]
  BY <1>1
<1>3. \A i, j \in DOMAIN new : i < j => from[i] < from[j]
  BY <1>1
<1>4. \A i \in DOMAIN new : new[i].char.of \in {ln[from[i]].char.of, <<>>}
  BY <1>1
<1>. HIDE DEF from
<1>5. LineOK(new, lo, hi) /\ \A buf : BufferFirst(buf, ln) => BufferFirst(buf, new)
  BY <1>1, <1>2, <1>3, <1>4, LineFrom
<1>. QED
  BY <1>1, <1>5 DEF new

\* A character is lost.
LEMMA LineLoses ==
    ASSUME NEW ln \in Seq(OnTheWay), NEW k \in DOMAIN ln, NEW lo, NEW hi, LineOK(ln, lo, hi)
    PROVE  /\ RemoveAt(ln, k) \in Seq(OnTheWay)
           /\ LineOK(RemoveAt(ln, k), lo, hi)
           /\ \A buf : BufferFirst(buf, ln) => BufferFirst(buf, RemoveAt(ln, k))
<1>. DEFINE a == SubSeq(ln, 1, k - 1)
            b == SubSeq(ln, k + 1, Len(ln))
            new == a \o b
            from == [i \in DOMAIN new |-> IF i < k THEN i ELSE i + 1]
<1>1. Len(ln) \in Nat /\ k \in 1..Len(ln) /\ DOMAIN ln = 1..Len(ln)
  OBVIOUS
<1>2. /\ a \in Seq(OnTheWay) /\ Len(a) = k - 1 /\ \A i \in 1..k - 1 : a[i] = ln[i]
      /\ b \in Seq(OnTheWay) /\ Len(b) = Len(ln) - k
      /\ \A i \in 1..Len(ln) - k : b[i] = ln[k + i]
  BY <1>1
<1>3. RemoveAt(ln, k) = new
  BY Zenon DEF RemoveAt
<1>. HIDE DEF a, b
<1>4. /\ new \in Seq(OnTheWay) /\ DOMAIN new = 1..Len(ln) - 1
      /\ \A i \in 1..Len(ln) - 1 : new[i] = IF i < k THEN ln[i] ELSE ln[i + 1]
  <2>1. new \in Seq(OnTheWay) /\ Len(new) = Len(ln) - 1
    <3>1. new \in Seq(OnTheWay) /\ Len(new) = Len(a) + Len(b)
      BY <1>2, ConcatProperties
    <3>. HIDE DEF new
    <3>. QED BY <1>1, <1>2, <3>1
  <2>2. \A i \in 1..Len(ln) - 1 : new[i] = IF i <= k - 1 THEN a[i] ELSE b[i - (k - 1)]
    BY <1>1, <1>2
  <2>3. ASSUME NEW i \in 1..Len(ln) - 1 PROVE new[i] = IF i < k THEN ln[i] ELSE ln[i + 1]
    <3>1. CASE i < k
      BY <1>1, <1>2, <2>2, <3>1
    <3>2. CASE ~(i < k)
      <4>1. i - (k - 1) \in 1..Len(ln) - k /\ k + (i - (k - 1)) = i + 1 /\ ~(i <= k - 1)
        BY <1>1, <3>2
      <4>2. new[i] = b[i - (k - 1)]
        BY <2>2, <4>1
      <4>3. b[i - (k - 1)] = ln[k + (i - (k - 1))]
        BY <1>2, <4>1
      <4>. QED BY <3>2, <4>1, <4>2, <4>3
    <3>. QED BY <3>1, <3>2
  <2>. HIDE DEF new
  <2>. QED BY <2>1, <2>3
<1>. HIDE DEF new
<1>5. from \in [DOMAIN new -> DOMAIN ln]
  BY <1>1, <1>4
<1>6. \A i, j \in DOMAIN new : i < j => from[i] < from[j]
  BY <1>1, <1>4
<1>7. \A i \in DOMAIN new : new[i].char.of \in {ln[from[i]].char.of, <<>>}
  BY <1>1, <1>4
<1>. HIDE DEF from
<1>8. LineOK(new, lo, hi) /\ \A buf : BufferFirst(buf, ln) => BufferFirst(buf, new)
  BY <1>4, <1>5, <1>6, <1>7, LineFrom
<1>. QED
  BY <1>3, <1>4, <1>8

\* A character becomes another.
LEMMA LineChanges ==
    ASSUME NEW ln \in Seq(OnTheWay), NEW k \in DOMAIN ln, NEW lo, NEW hi, LineOK(ln, lo, hi),
           NEW c \in {"END", "ESC"} \cup Printable
    PROVE  LET new == [ln EXCEPT ![k] = [char |-> Char(c), first |-> FALSE, whole |-> <<>>]] IN
           /\ new \in Seq(OnTheWay)
           /\ LineOK(new, lo, hi)
           /\ \A buf : BufferFirst(buf, ln) => BufferFirst(buf, new)
<1>. DEFINE d == [char |-> Char(c), first |-> FALSE, whole |-> <<>>]
            new == [ln EXCEPT ![k] = d]
            from == [i \in DOMAIN new |-> i]
<1>1. ln[k] \in OnTheWay /\ DOMAIN ln = 1..Len(ln) /\ Len(ln) \in Nat /\ <<>> \in Tag
  BY LineParts DEF Tag
<1>2. Char(c) \in Character /\ Char(c).of = <<>>
  BY DEF Char, Character, Code, Tag
<1>3. d \in OnTheWay /\ d.char.of = <<>>
  BY <1>1, <1>2 DEF OnTheWay
<1>4. [ln EXCEPT ![k] = [char |-> Char(c), first |-> FALSE, whole |-> <<>>]] = new
  OBVIOUS
<1>. HIDE DEF d
<1>5. /\ new \in Seq(OnTheWay) /\ DOMAIN new = DOMAIN ln
      /\ \A i \in DOMAIN ln : new[i] = IF i = k THEN d ELSE ln[i]
  BY <1>1, <1>3
<1>. HIDE DEF new
<1>6. from \in [DOMAIN new -> DOMAIN ln] /\ \A i, j \in DOMAIN new : i < j => from[i] < from[j]
  BY <1>5
<1>7. \A i \in DOMAIN new : new[i].char.of \in {ln[from[i]].char.of, <<>>}
  BY <1>3, <1>5
<1>. HIDE DEF from
<1>8. LineOK(new, lo, hi) /\ \A buf : BufferFirst(buf, ln) => BufferFirst(buf, new)
  BY <1>5, <1>6, <1>7, LineFrom
<1>. QED
  BY <1>4, <1>5, <1>8

\* The frame of a packet: its characters are of the packet or of none.
LEMMA FrameIs ==
    ASSUME NEW p \in Packets
    PROVE  Frame(p) \in Seq([k : Code, of : {p, <<>>}])
<1>. DEFINE C == [k : Code, of : {p, <<>>}]
            packet == [i \in DOMAIN p |-> Char(p[i])] \o CRC(p)
            escaped == [i \in DOMAIN packet |-> Escaped(packet[i])]
<1>1. \A k \in Code : Char(k) \in C
  BY DEF Char
<1>2. [i \in DOMAIN p |-> Char(p[i])] \in Seq(C)
  <2>1. p \in Seq(Word) /\ DOMAIN p = 1..Len(p) /\ Len(p) \in Nat
    BY PacketType
  <2>2. \A i \in DOMAIN p : p[i] \in Code
    BY <2>1, WordsOf
  <2>3. \A i \in DOMAIN p : Char(p[i]) \in C
    BY <1>1, <2>2
  <2>. HIDE DEF C
  <2>. QED BY <2>1, <2>3
<1>3. CRC(p) \in Seq(C)
  <2>1. [k |-> "lo", of |-> p] \in C /\ [k |-> "hi", of |-> p] \in C
    BY DEF Code
  <2>. HIDE DEF C
  <2>. QED BY <2>1 DEF CRC
<1>4. \A c \in C : Escaped(c) \in Seq(C)
  <2>. SUFFICES ASSUME NEW c \in C PROVE Escaped(c) \in Seq(C)
    OBVIOUS
  <2>1. Char("ESC") \in C /\ Char("ESC_END") \in C /\ Char("ESC_ESC") \in C
    BY <1>1 DEF Code
  <2>2. Escaped(c) \in {<<Char("ESC"), Char("ESC_END")>>, <<Char("ESC"), Char("ESC_ESC")>>, <<c>>}
    BY Zenon DEF Escaped
  <2>3. \A a, b \in C : <<a, b>> \in Seq(C) /\ <<a>> \in Seq(C)
    <3>. HIDE DEF C
    <3>. QED OBVIOUS
  <2>. HIDE DEF C
  <2>. QED BY <2>1, <2>2, <2>3
<1>5. packet \in Seq(C)
  <2>. HIDE DEF C
  <2>. QED BY <1>2, <1>3, ConcatProperties
<1>. HIDE DEF packet
<1>6. escaped \in Seq(Seq(C))
  <2>1. DOMAIN packet = 1..Len(packet) /\ Len(packet) \in Nat /\ \A i \in DOMAIN packet : packet[i] \in C
    <3>. HIDE DEF C
    <3>. QED BY <1>5
  <2>2. \A i \in DOMAIN packet : Escaped(packet[i]) \in Seq(C)
    BY <1>4, <2>1
  <2>. HIDE DEF C
  <2>. QED BY <2>1, <2>2
<1>. HIDE DEF escaped
<1>7. FlattenSeq(escaped) \in Seq(C)
  BY <1>6, FlattenType
<1>8. <<Char("END")>> \in Seq(C)
  <2>1. Char("END") \in C
    BY <1>1 DEF Code
  <2>. HIDE DEF C
  <2>. QED BY <2>1
<1>9. <<Char("END")>> \o FlattenSeq(escaped) \o <<Char("END")>> \in Seq(C)
  <2>. HIDE DEF C
  <2>1. <<Char("END")>> \o FlattenSeq(escaped) \in Seq(C)
    BY <1>7, <1>8, ConcatProperties
  <2>. QED BY <1>8, <2>1, ConcatProperties
<1>. QED
  BY <1>9 DEF Frame, escaped, packet

LEMMA OnLineIs ==
    ASSUME NEW t \in Tag, NEW whole \in Tag, NEW chars \in Seq([k : Code, of : {t, <<>>}])
    PROVE  /\ OnLine(chars, whole) \in Seq(OnTheWay)
           /\ \A i \in DOMAIN OnLine(chars, whole) : OnLine(chars, whole)[i].char.of \in {t, <<>>}
<1>. DEFINE C == [k : Code, of : {t, <<>>}]
            x(i) == [char |-> chars[i], first |-> whole # <<>> /\ i = 1,
                     whole |-> IF i = Len(chars) THEN whole ELSE <<>>]
<1>1. Len(chars) \in Nat /\ DOMAIN chars = 1..Len(chars) /\ \A i \in DOMAIN chars : chars[i] \in C
  <2>. HIDE DEF C
  <2>. SUFFICES ASSUME chars \in Seq(C) PROVE Len(chars) \in Nat /\ DOMAIN chars = 1..Len(chars)
                                              /\ \A i \in DOMAIN chars : chars[i] \in C
    BY DEF C
  <2>. QED OBVIOUS
<1>2. <<>> \in Tag
  BY DEF Tag
<1>3. \A c \in C : c \in Character /\ c.of \in {t, <<>>}
  BY <1>2 DEF Character
<1>4. \A i \in DOMAIN chars : x(i) \in OnTheWay /\ x(i).char.of \in {t, <<>>}
  <2>. SUFFICES ASSUME NEW i \in DOMAIN chars PROVE x(i) \in OnTheWay /\ x(i).char.of \in {t, <<>>}
    OBVIOUS
  <2>1. chars[i] \in Character /\ chars[i].of \in {t, <<>>}
    BY <1>1, <1>3
  <2>2. (IF i = Len(chars) THEN whole ELSE <<>>) \in Tag
    BY <1>2
  <2>3. (whole # <<>> /\ i = 1) \in BOOLEAN
    OBVIOUS
  <2>. DEFINE w == IF i = Len(chars) THEN whole ELSE <<>>
              b == whole # <<>> /\ i = 1
  <2>. HIDE DEF C, w, b
  <2>4. w \in Tag /\ b \in BOOLEAN
    BY <2>2, <2>3 DEF w, b
  <2>5. [char |-> chars[i], first |-> b, whole |-> w] \in OnTheWay
    BY <2>1, <2>4 DEF OnTheWay
  <2>6. [char |-> chars[i], first |-> b, whole |-> w].char = chars[i]
    OBVIOUS
  <2>. QED BY <2>1, <2>5, <2>6 DEF w, b
<1>5. OnLine(chars, whole) = [i \in DOMAIN chars |-> x(i)]
  BY DEF OnLine
<1>. HIDE DEF x
<1>. QED
  BY <1>1, <1>4, <1>5

\* What a microcontroller of life hi sends is put at the end.
LEMMA LineAppends ==
    ASSUME NEW ln \in Seq(OnTheWay), NEW new \in Seq(OnTheWay), NEW t, NEW lo \in Int, NEW hi \in Int,
           LineOK(ln, lo, hi), lo <= hi, LivesIn(t) \subseteq {hi},
           \A i \in DOMAIN new : new[i].char.of \in {t, <<>>}
    PROVE  /\ ln \o new \in Seq(OnTheWay)
           /\ LineOK(ln \o new, lo, hi)
           /\ \A buf : BufferFirst(buf, ln) /\ BufferOK(buf, lo, hi) => BufferFirst(buf, ln \o new)
<1>. DEFINE both == ln \o new
            n == Len(ln)
<1>1. n \in Nat /\ DOMAIN ln = 1..n /\ Len(new) \in Nat /\ DOMAIN new = 1..Len(new)
  OBVIOUS
<1>2. /\ both \in Seq(OnTheWay) /\ DOMAIN both = 1..n + Len(new)
      /\ \A i \in 1..n : both[i] = ln[i]
      /\ \A i \in 1..Len(new) : both[n + i] = new[i]
  <2>1. both \in Seq(OnTheWay) /\ Len(both) = n + Len(new)
    BY ConcatProperties
  <2>. QED BY <1>1, <2>1
<1>3. \A i \in DOMAIN both : \/ i \in DOMAIN ln /\ both[i] = ln[i]
                             \/ i > n /\ both[i].char.of \in {t, <<>>}
  <2>. HIDE DEF both
  <2>. SUFFICES ASSUME NEW i \in DOMAIN both, ~(i \in 1..n)
                PROVE  i > n /\ both[i].char.of \in {t, <<>>}
    BY <1>1, <1>2
  <2>1. i > n /\ i - n \in 1..Len(new) /\ n + (i - n) = i
    BY <1>1, <1>2
  <2>. QED BY <1>1, <1>2, <2>1
<1>. HIDE DEF both
<1>4. Between(lo, t, hi) /\ Between(lo, <<>>, hi)
  <2>1. Between(lo, t, hi)
    BY DEF Between
  <2>. QED BY <2>1, NoLives
<1>5. \A a : Between(lo, a, hi) => Before(a, t)
  BY DEF Between, Before
<1>6. \A i \in DOMAIN both : Between(lo, both[i].char.of, hi)
  BY <1>3, <1>4 DEF LineOK
<1>7. \A i, j \in DOMAIN both : i < j => Before(both[i].char.of, both[j].char.of)
  <2>. SUFFICES ASSUME NEW i \in DOMAIN both, NEW j \in DOMAIN both, i < j
                PROVE  Before(both[i].char.of, both[j].char.of)
    OBVIOUS
  <2>1. CASE j \in DOMAIN ln /\ both[j] = ln[j]
    <3>1. i \in DOMAIN ln /\ both[i] = ln[i]
      BY <1>1, <1>2, <2>1
    <3>. QED BY <2>1, <3>1 DEF LineOK
  <2>2. CASE both[j].char.of \in {t, <<>>}
    BY <1>5, <1>6, <2>2, NoLives
  <2>. QED BY <1>3, <2>1, <2>2
<1>8. ASSUME NEW buf, BufferFirst(buf, ln), BufferOK(buf, lo, hi) PROVE BufferFirst(buf, both)
  <2>. SUFFICES ASSUME NEW i \in DOMAIN buf, NEW j \in DOMAIN both
                PROVE  Before(buf[i].of, both[j].char.of)
    BY DEF BufferFirst
  <2>1. Between(lo, buf[i].of, hi)
    BY <1>8 DEF BufferOK
  <2>2. CASE j \in DOMAIN ln /\ both[j] = ln[j]
    BY <1>8, <2>2 DEF BufferFirst
  <2>3. CASE both[j].char.of \in {t, <<>>}
    BY <1>5, <2>1, <2>3, NoLives
  <2>. QED BY <1>3, <2>2, <2>3
<1>. QED
  BY <1>2, <1>6, <1>7, <1>8 DEF LineOK, both

LEMMA Widens ==
    ASSUME NEW lo \in Int, NEW hi \in Int, NEW lower \in Int, NEW higher \in Int,
           lower <= lo, hi <= higher
    PROVE  /\ \A a : Between(lo, a, hi) => Between(lower, a, higher)
           /\ \A ln : LineOK(ln, lo, hi) => LineOK(ln, lower, higher)
           /\ \A buf : BufferOK(buf, lo, hi) => BufferOK(buf, lower, higher)
<1>1. \A a : Between(lo, a, hi) => Between(lower, a, higher)
  BY LivesAreNat DEF Between
<1>. QED
  BY <1>1 DEF LineOK, BufferOK

-----------------------------------------------------------------------------
(* The state of the ESP, with and without what a callback sends *)

LEMMA WithOutIs ==
    ASSUME NEW e \in Esp
    PROVE  WithOut(e) \in EspOut /\ SameTable(WithOut(e), e) /\ WithOut(e).wifiState = e.wifiState
<1>. DEFINE none == <<>>
            r == [cmdInSync |-> e.cmdInSync, callbacks |-> e.callbacks, wifiCbAdded |-> e.wifiCbAdded,
                  lastWifiStatus |-> e.lastWifiStatus, wifiState |-> e.wifiState, mqttCb |-> e.mqttCb,
                  programming |-> e.programming, synced |-> e.synced, out |-> none]
<1>1. none \in Seq(Message)
  OBVIOUS
<1>2. WithOut(e) = r
  <2>. HIDE DEF none
  <2>1. WithOut(e) = [f \in DOMAIN e \cup {"out"} |-> IF f \in DOMAIN e THEN e[f] ELSE none]
    BY Zenon DEF WithOut, none
  <2>2. DOMAIN e = {"cmdInSync", "callbacks", "wifiCbAdded", "lastWifiStatus", "wifiState", "mqttCb",
                    "programming", "synced"}
    BY DEF Esp
  <2>. QED BY <2>1, <2>2
<1>. HIDE DEF none
<1>3. r \in EspOut
  BY <1>1 DEF Esp, EspOut
<1>. QED
  BY <1>2, <1>3 DEF SameTable

LEMMA BecomeIs ==
    ASSUME esp \in Esp, NEW e \in EspOut, Become(e)
    PROVE  esp' \in Esp /\ SameTable(esp', e)
<1>. DEFINE r == [cmdInSync |-> e.cmdInSync, callbacks |-> e.callbacks, wifiCbAdded |-> e.wifiCbAdded,
                  lastWifiStatus |-> e.lastWifiStatus, wifiState |-> e.wifiState, mqttCb |-> e.mqttCb,
                  programming |-> e.programming, synced |-> e.synced]
<1>1. esp' = r
  <2>1. esp' = [f \in DOMAIN esp |-> e[f]]
    BY DEF Become
  <2>2. DOMAIN esp = {"cmdInSync", "callbacks", "wifiCbAdded", "lastWifiStatus", "wifiState", "mqttCb",
                      "programming", "synced"}
    BY DEF Esp
  <2>. QED BY <2>1, <2>2
<1>2. r \in Esp
  BY EspParts DEF Esp
<1>. QED
  BY <1>1, <1>2 DEF SameTable

\* A callback that changes nothing in the table.
LEMMA TableStays ==
    ASSUME CmdInv, esp' \in Esp, SameTable(esp', esp), UNCHANGED <<line, parser, mcu, troubles>>
    PROVE  CmdInv'
<1>1. esp'.synced = esp.synced /\ TableOK(esp')
  BY SameTableOK DEF CmdInv, SameTable
<1>. QED
  BY <1>1 DEF CmdInv, CmdType

-----------------------------------------------------------------------------
(* The steps *)

LEMMA CmdInit == Init => CmdInv
<1>. SUFFICES ASSUME Init PROVE CmdInv
  OBVIOUS
<1>1. line \in Seq(OnTheWay) /\ line = <<>>
  BY DEF Init
<1>2. parser \in Parser /\ parser.buf = <<>>
  BY DEF Init, NewParser, Parser
<1>3. esp \in Esp /\ esp.synced = -1 /\ esp.callbacks = <<>> /\ esp.wifiCbAdded = FALSE
  BY DEF Init, Boot, Esp, NoLife
<1>4. mcu \in [life : Nat, inSync : BOOLEAN] /\ mcu.life = 0 /\ troubles = Troubles /\ Troubles \in Nat
  BY CmdAssumption DEF Init
<1>5. TableOK(esp)
  BY <1>3 DEF TableOK
<1>6. BufferOK(parser.buf, esp.synced, mcu.life) /\ BufferFirst(parser.buf, line)
  BY <1>1, <1>2 DEF BufferOK, BufferFirst
<1>7. LineOK(line, esp.synced, mcu.life)
  BY <1>1 DEF LineOK
<1>. QED
  BY <1>1, <1>2, <1>3, <1>4, <1>5, <1>6, <1>7 DEF CmdInv, CmdType

LEMMA InvParts ==
    ASSUME CmdInv
    PROVE  /\ line \in Seq(OnTheWay) /\ parser \in Parser /\ esp \in Esp
           /\ mcu \in [life : Nat, inSync : BOOLEAN] /\ troubles \in Nat
           /\ mcu.life + troubles <= Troubles
           /\ mcu.life \in Nat /\ mcu.life \in DOMAIN Values /\ esp.synced \in Int
           /\ TableOK(esp) /\ esp.synced <= mcu.life
           /\ BufferOK(parser.buf, esp.synced, mcu.life)
           /\ LineOK(line, esp.synced, mcu.life)
           /\ BufferFirst(parser.buf, line)
BY CmdAssumption DEF CmdInv, CmdType, Esp

LEMMA TroubleCosts ==
    ASSUME CmdInv, Trouble \/ UNCHANGED troubles
    PROVE  troubles' \in Nat /\ troubles' <= troubles /\ mcu.life + troubles' <= Troubles
BY CmdAssumption, InvParts DEF Trouble

LEMMA UartStep == CmdInv /\ serbridgeUartCb => CmdInv'
<1>. SUFFICES ASSUME CmdInv, serbridgeUartCb PROVE CmdInv'
  OBVIOUS
<1>. DEFINE lo == esp.synced
            hi == mcu.life
<1>1. PICK n \in 1..Len(line) :
         LET p == slip_parse_buf(parser, [i \in 1..n |-> line[i].char])
         IN  /\ IF n = Len(line) THEN UNCHANGED troubles ELSE Trouble
             /\ line' = SubSeq(line, n + 1, Len(line))
             /\ IF esp.programming
                THEN bad' = TRUE /\ UNCHANGED <<parser, esp, toMcu>>
                ELSE /\ parser' = p /\ Become(FoldLeft(cmdParsePacket, WithOut(esp), p.packets))
                     /\ UNCHANGED bad
             /\ UNCHANGED mcu
  BY Zenon DEF serbridgeUartCb
<1>2. /\ lo \in Int /\ hi \in Int /\ line \in Seq(OnTheWay) /\ parser \in Parser /\ esp \in Esp
      /\ lo <= hi /\ LineOK(line, lo, hi) /\ BufferOK(parser.buf, lo, hi)
      /\ BufferFirst(parser.buf, line) /\ TableOK(esp)
  BY InvParts
<1>3. troubles' \in Nat /\ mcu.life + troubles' <= Troubles
  <2>1. Trouble \/ UNCHANGED troubles
    BY <1>1
  <2>. QED BY <2>1, TroubleCosts
<1>4. mcu' = mcu /\ mcu \in [life : Nat, inSync : BOOLEAN]
  BY <1>1, InvParts
<1>5. n + 1 \in 1..Len(line) + 1 /\ Len(line) \in 0..Len(line) /\ Len(line) \in Nat
  BY <1>2
<1>6. /\ line' \in Seq(OnTheWay) /\ LineOK(line', lo, hi)
      /\ \A buf : BufferFirst(buf, line) => BufferFirst(buf, line')
  BY <1>1, <1>2, <1>5, PartOfLine, Zenon
<1>7. CASE esp.programming
  <2>1. parser' = parser /\ esp' = esp
    BY <1>1, <1>7
  <2>2. BufferFirst(parser.buf, line')
    BY <1>2, <1>6
  <2>. QED BY <1>2, <1>3, <1>4, <1>6, <2>1, <2>2 DEF CmdInv, CmdType
<1>8. CASE ~esp.programming
  <2>. DEFINE p == slip_parse_buf(parser, [i \in 1..n |-> line[i].char])
              e == WithOut(esp)
              r == FoldLeft(cmdParsePacket, e, p.packets)
  <2>1. /\ p \in Parser /\ ParsedOK(p, lo, hi)
        /\ \A j \in n + 1..Len(line) : Ahead(p, line[j].char.of)
    BY <1>2, BufferParsed
  <2>2. parser' = p /\ Become(r)
    BY <1>1, <1>8
  <2>. HIDE DEF p
  <2>3. e \in EspOut /\ SameTable(e, esp) /\ e.synced = lo
    BY <1>2, WithOutIs DEF SameTable
  <2>4. TableOK(e)
    BY <1>2, <2>3, SameTableOK
  <2>5. p.packets \in Seq(Packets)
    BY <2>1, ParserParts
  <2>. HIDE DEF e, lo, hi
  <2>6. /\ r \in EspOut /\ TableOK(r) /\ r.synced <= hi
        /\ \A a : /\ Between(lo, a, hi)
                  /\ \A i \in DOMAIN p.packets : Before(p.packets[i], a)
                  => Between(r.synced, a, hi)
    BY <1>2, <2>1, <2>3, <2>4, <2>5, CommandsKeep DEF ParsedOK
  <2>. HIDE DEF r
  <2>7. esp' \in Esp /\ SameTable(esp', r)
    BY <1>2, <2>2, <2>6, BecomeIs
  <2>8. esp'.synced = r.synced /\ TableOK(esp')
    BY <2>6, <2>7, SameTableOK DEF SameTable
  <2>9. BufferOK(p.buf, r.synced, hi)
    BY <2>1, <2>6 DEF BufferOK, ParsedOK
  <2>10. \A i \in DOMAIN line' : n + i \in n + 1..Len(line) /\ line'[i] = line[n + i]
    BY <1>1, <1>2, <1>5
  <2>11. LineOK(line', r.synced, hi)
    <3>1. \A i \in DOMAIN line' : Between(r.synced, line'[i].char.of, hi)
      <4>. SUFFICES ASSUME NEW i \in DOMAIN line' PROVE Between(r.synced, line'[i].char.of, hi)
        OBVIOUS
      <4>1. Between(lo, line'[i].char.of, hi)
        BY <1>6 DEF LineOK
      <4>2. Ahead(p, line'[i].char.of)
        BY <2>1, <2>10
      <4>. QED BY <2>6, <4>1, <4>2 DEF Ahead
    <3>. QED BY <1>6, <3>1 DEF LineOK
  <2>12. BufferFirst(p.buf, line')
    <3>. SUFFICES ASSUME NEW i \in DOMAIN p.buf, NEW j \in DOMAIN line'
                  PROVE  Before(p.buf[i].of, line'[j].char.of)
      BY DEF BufferFirst
    <3>1. Ahead(p, line'[j].char.of)
      BY <2>1, <2>10
    <3>. QED BY <3>1 DEF Ahead
  <2>. QED BY <1>3, <1>4, <1>6, <2>1, <2>2, <2>6, <2>7, <2>8, <2>9, <2>11, <2>12 DEF CmdInv, CmdType, hi
<1>. QED
  BY <1>7, <1>8

\* The callbacks that only send.
LEMMA EventStep == CmdInv /\ (WifiChanges \/ MqttEvent) => CmdInv'
<1>. SUFFICES ASSUME CmdInv, WifiChanges \/ MqttEvent PROVE CmdInv'
  OBVIOUS
<1>. DEFINE w == WithOut(esp)
<1>1. w \in EspOut /\ SameTable(w, esp) /\ w.wifiState \in 0..5 /\ esp \in Esp /\ esp.mqttCb \in Int
  BY InvParts, WithOutIs DEF Esp
<1>2. \E r \in EspOut : Become(r) /\ SameTable(r, esp)
  <2>1. CASE WifiChanges
    <3>. DEFINE e == [w EXCEPT !.wifiState = 5 - @]
    <3>1. Become(IF esp.wifiCbAdded THEN cmdWifiCb(e) ELSE e)
      BY <2>1 DEF WifiChanges
    <3>. HIDE DEF w
    <3>2. e \in EspOut /\ SameTable(e, w)
      <4>1. 5 - w.wifiState \in 0..5
        BY <1>1
      <4>. QED BY <1>1, <4>1 DEF EspOut, SameTable
    <3>. HIDE DEF e
    <3>3. cmdWifiCb(e) \in EspOut /\ SameTable(cmdWifiCb(e), e)
      BY <3>2, WifiCbKeeps
    <3>4. SameTable(e, esp) /\ SameTable(cmdWifiCb(e), esp)
      BY <1>1, <3>2, <3>3 DEF SameTable
    <3>. QED BY <3>1, <3>2, <3>3, <3>4, Zenon
  <2>2. CASE MqttEvent
    <3>. DEFINE r == Respond(w, "RESP_CB", esp.mqttCb)
    <3>1. Become(r)
      BY <2>2 DEF MqttEvent
    <3>. HIDE DEF w
    <3>2. "RESP_CB" \in {"SYNC", "RESP_V", "RESP_CB"}
      OBVIOUS
    <3>3. r \in EspOut /\ SameTable(r, w)
      BY <1>1, <3>2, RespondKeeps
    <3>. HIDE DEF r
    <3>. QED BY <1>1, <3>1, <3>3 DEF SameTable
  <2>. QED BY <2>1, <2>2
<1>3. esp' \in Esp /\ SameTable(esp', esp)
  BY <1>1, <1>2, BecomeIs DEF SameTable
<1>4. UNCHANGED <<line, parser, mcu, troubles>>
  BY DEF WifiChanges, MqttEvent
<1>. QED
  BY <1>3, <1>4, TableStays

LEMMA ProgramsStep == CmdInv /\ Programs => CmdInv'
<1>. SUFFICES ASSUME CmdInv, Programs PROVE CmdInv'
  OBVIOUS
<1>1. esp' \in Esp /\ SameTable(esp', esp)
  BY InvParts DEF Programs, Esp, SameTable
<1>2. esp'.synced = esp.synced /\ TableOK(esp')
  BY <1>1, InvParts, SameTableOK DEF SameTable
<1>3. troubles' \in Nat /\ mcu.life + troubles' <= Troubles
  BY TroubleCosts DEF Programs
<1>4. UNCHANGED <<line, parser, mcu>>
  BY DEF Programs
<1>. QED
  BY <1>1, <1>2, <1>3, <1>4, InvParts DEF CmdInv, CmdType

LEMMA EspRestartsStep == CmdInv /\ EspRestarts => CmdInv'
<1>. SUFFICES ASSUME CmdInv, EspRestarts PROVE CmdInv'
  OBVIOUS
<1>1. esp' \in Esp /\ esp'.synced = -1 /\ TableOK(esp')
  BY DEF EspRestarts, Boot, Esp, NoLife, TableOK
<1>2. parser' \in Parser /\ parser'.buf = <<>>
  BY DEF EspRestarts, NewParser, Parser
<1>3. troubles' \in Nat /\ mcu.life + troubles' <= Troubles
  BY TroubleCosts DEF EspRestarts
<1>4. line' = line /\ mcu' = mcu
  BY DEF EspRestarts
<1>5. BufferOK(parser'.buf, -1, mcu.life) /\ BufferFirst(parser'.buf, line')
  BY <1>2 DEF BufferOK, BufferFirst
<1>6. LineOK(line, -1, mcu.life) /\ -1 <= mcu.life
  <2>1. \A i \in DOMAIN line : Between(-1, line[i].char.of, mcu.life)
    <3>. SUFFICES ASSUME NEW i \in DOMAIN line, NEW l \in LivesIn(line[i].char.of)
                  PROVE  -1 <= l /\ l <= mcu.life
      BY DEF Between
    <3>1. Between(esp.synced, line[i].char.of, mcu.life)
      BY InvParts DEF LineOK
    <3>2. l \in Nat
      BY LivesAreNat
    <3>. QED BY <3>1, <3>2 DEF Between
  <2>. QED BY <2>1, InvParts DEF LineOK
<1>. QED
  BY <1>1, <1>2, <1>3, <1>4, <1>5, <1>6, InvParts DEF CmdInv, CmdType

\* A packet of the life of the microcontroller, or of none, is sent.
LEMMA SendsKeeps ==
    ASSUME CmdInv, NEW p \in Packets, Sends(p), LivesIn(p) \subseteq {mcu.life},
           Trouble \/ UNCHANGED troubles
    PROVE  CmdInv'
<1>. DEFINE new == FrameOnLine[p]
            lo == esp.synced
            hi == mcu.life
<1>1. new = OnLine(Frame(p), p)
  BY DEF FrameOnLine
<1>2. p \in Tag
  BY DEF Tag
<1>3. new \in Seq(OnTheWay) /\ \A i \in DOMAIN new : new[i].char.of \in {p, <<>>}
  BY <1>1, <1>2, FrameIs, OnLineIs
<1>4. line' = line \o new /\ UNCHANGED <<parser, esp, mcu>>
  BY DEF Sends
<1>5. /\ lo \in Int /\ hi \in Int /\ lo <= hi /\ line \in Seq(OnTheWay) /\ LineOK(line, lo, hi)
      /\ BufferOK(parser.buf, lo, hi) /\ BufferFirst(parser.buf, line)
  BY InvParts
<1>6. LivesIn(p) \subseteq {hi}
  OBVIOUS
<1>. HIDE DEF new, lo, hi
<1>7. /\ line \o new \in Seq(OnTheWay) /\ LineOK(line \o new, lo, hi)
      /\ BufferFirst(parser.buf, line \o new)
  BY <1>3, <1>5, <1>6, LineAppends
<1>8. troubles' \in Nat /\ mcu.life + troubles' <= Troubles
  BY TroubleCosts
<1>. QED
  BY <1>4, <1>7, <1>8, InvParts DEF CmdInv, CmdType, lo, hi

LEMMA McuSendsStep == CmdInv /\ (McuSyncs \/ McuCommands \/ McuErrs) => CmdInv'
<1>. SUFFICES ASSUME CmdInv, McuSyncs \/ McuCommands \/ McuErrs PROVE CmdInv'
  OBVIOUS
<1>. DEFINE v == Values[mcu.life]
<1>1. mcu.life \in DOMAIN Values
  BY InvParts
<1>2. /\ <<"SYNC", v>> \in Packets /\ <<"MQTT_SETUP", v>> \in Packets /\ <<"STATUS", "zero">> \in Packets
      /\ \A name \in Names : <<"ADD_CB", v, name>> \in Packets
      /\ \A p \in OddPackets : p \in Packets
  BY <1>1 DEF Packets
<1>3. /\ LivesIn(<<"SYNC", v>>) \subseteq {mcu.life} /\ LivesIn(<<"MQTT_SETUP", v>>) \subseteq {mcu.life}
      /\ LivesIn(<<"STATUS", "zero">>) \subseteq {mcu.life}
      /\ \A name \in Names : LivesIn(<<"ADD_CB", v, name>>) \subseteq {mcu.life}
      /\ \A p \in OddPackets : LivesIn(p) \subseteq {mcu.life}
  <2>1. \A p \in OddPackets : LivesIn(p) = {}
    BY Lives DEF OddPackets
  <2>2. /\ LivesIn(<<"SYNC", v>>) = {mcu.life} /\ LivesIn(<<"MQTT_SETUP", v>>) = {mcu.life}
        /\ LivesIn(<<"STATUS", "zero">>) = {}
        /\ \A name \in Names : LivesIn(<<"ADD_CB", v, name>>) = {mcu.life}
    BY <1>1, Lives
  <2>. HIDE DEF v
  <2>. QED BY <2>1, <2>2
<1>4. CASE McuSyncs
  <2>1. Sends(<<"SYNC", v>>) /\ UNCHANGED troubles
    BY <1>4 DEF McuSyncs
  <2>. HIDE DEF v
  <2>. QED BY <1>2, <1>3, <2>1, SendsKeeps
<1>5. CASE McuCommands
  <2>1. UNCHANGED troubles /\ (Sends(<<"STATUS", "zero">>) \/ Sends(<<"MQTT_SETUP", v>>)
                               \/ \E name \in Names : Sends(<<"ADD_CB", v, name>>))
    BY <1>5 DEF McuCommands
  <2>. HIDE DEF v
  <2>. QED BY <1>2, <1>3, <2>1, SendsKeeps
<1>6. CASE McuErrs
  <2>1. Trouble /\ \E p \in OddPackets : Sends(p)
    BY <1>6 DEF McuErrs
  <2>. QED BY <1>2, <1>3, <2>1, SendsKeeps
<1>. QED
  BY <1>4, <1>5, <1>6

LEMMA McuPrintsStep == CmdInv /\ McuPrints => CmdInv'
<1>. SUFFICES ASSUME CmdInv, McuPrints PROVE CmdInv'
  OBVIOUS
<1>. DEFINE lo == esp.synced
            hi == mcu.life
            none == <<>>
<1>1. PICK k \in Printable, n \in {1, 3} : line' = line \o OnLine([i \in 1..n |-> Char(k)], none)
  BY Zenon DEF McuPrints
<1>. DEFINE chars == [i \in 1..n |-> Char(k)]
            new == OnLine(chars, none)
<1>2. none \in Tag /\ LivesIn(none) = {}
  BY Lives DEF Tag
<1>3. chars \in Seq([k : Code, of : {none, <<>>}])
  <2>1. Char(k) \in [k : Code, of : {none, <<>>}]
    BY DEF Char, Code
  <2>. DEFINE C == [k : Code, of : {none, <<>>}]
              d == Char(k)
  <2>. HIDE DEF C, d
  <2>2. d \in C
    BY <2>1 DEF C, d
  <2>3. [i \in 1..n |-> d] \in Seq(C)
    BY <2>2
  <2>. QED BY <2>3 DEF C, d
<1>. HIDE DEF chars, none
<1>4. new \in Seq(OnTheWay) /\ \A i \in DOMAIN new : new[i].char.of \in {none, <<>>}
  BY <1>2, <1>3, OnLineIs
<1>5. /\ lo \in Int /\ hi \in Int /\ lo <= hi /\ line \in Seq(OnTheWay) /\ LineOK(line, lo, hi)
      /\ BufferOK(parser.buf, lo, hi) /\ BufferFirst(parser.buf, line)
  BY InvParts
<1>6. line' = line \o new /\ UNCHANGED <<parser, esp, mcu>>
  BY <1>1 DEF McuPrints, chars
<1>. HIDE DEF new, lo, hi
<1>7. /\ line \o new \in Seq(OnTheWay) /\ LineOK(line \o new, lo, hi)
      /\ BufferFirst(parser.buf, line \o new)
  BY <1>2, <1>4, <1>5, LineAppends
<1>8. troubles' \in Nat /\ mcu.life + troubles' <= Troubles
  BY TroubleCosts DEF McuPrints
<1>. QED
  BY <1>6, <1>7, <1>8, InvParts DEF CmdInv, CmdType, lo, hi

LEMMA McuReceivesStep == CmdInv /\ McuReceives => CmdInv'
<1>. SUFFICES ASSUME CmdInv, McuReceives PROVE CmdInv'
  OBVIOUS
<1>1. mcu' \in [life : Nat, inSync : BOOLEAN] /\ mcu'.life = mcu.life
  <2>. DEFINE b == CASE Head(toMcu).cmd = "SYNC"   -> FALSE
                     [] Head(toMcu).cmd = "RESP_V" -> mcu.inSync \/ Head(toMcu).value = mcu.life
                     [] OTHER                      -> mcu.inSync
  <2>1. mcu \in [life : Nat, inSync : BOOLEAN] /\ mcu.inSync \in BOOLEAN
    BY InvParts
  <2>2. mcu' = [mcu EXCEPT !.inSync = b]
    BY DEF McuReceives
  <2>3. b \in BOOLEAN
    BY <2>1
  <2>. HIDE DEF b
  <2>. QED BY <2>1, <2>2, <2>3
<1>2. UNCHANGED <<line, parser, esp, troubles>>
  BY DEF McuReceives
<1>. QED
  BY <1>1, <1>2, InvParts DEF CmdInv, CmdType

LEMMA McuRestartsStep == CmdInv /\ McuRestarts => CmdInv'
<1>. SUFFICES ASSUME CmdInv, McuRestarts PROVE CmdInv'
  OBVIOUS
<1>. DEFINE lo == esp.synced
            hi == mcu.life
<1>1. mcu' \in [life : Nat, inSync : BOOLEAN] /\ mcu'.life = hi + 1
  <2>1. mcu' = [mcu EXCEPT !.life = @ + 1, !.inSync = FALSE]
    BY DEF McuRestarts
  <2>2. mcu \in [life : Nat, inSync : BOOLEAN]
    BY InvParts
  <2>3. mcu' \in [life : Nat, inSync : BOOLEAN] /\ mcu'.life = mcu.life + 1
    <3>1. mcu.life + 1 \in Nat /\ mcu = [life |-> mcu.life, inSync |-> mcu.inSync]
      BY <2>2
    <3>2. mcu' = [life |-> mcu.life + 1, inSync |-> FALSE]
      BY <2>1, <3>1
    <3>. QED BY <3>1, <3>2
  <2>. QED BY <2>3
<1>2. PICK n \in 0..Len(line) : line' = SubSeq(line, 1, n)
  BY DEF McuRestarts
<1>3. troubles' \in Nat /\ hi + 1 + troubles' <= Troubles
  BY CmdAssumption, InvParts DEF McuRestarts, Trouble
<1>4. parser' = parser /\ esp' = esp
  BY DEF McuRestarts
<1>5. /\ lo \in Int /\ hi \in Int /\ lo <= hi /\ line \in Seq(OnTheWay) /\ LineOK(line, lo, hi)
      /\ BufferOK(parser.buf, lo, hi) /\ BufferFirst(parser.buf, line)
  BY InvParts
<1>. HIDE DEF lo, hi
<1>6. 1 \in 1..Len(line) + 1
  BY <1>5
<1>7. line' \in Seq(OnTheWay) /\ LineOK(line', lo, hi) /\ BufferFirst(parser.buf, line')
  BY <1>2, <1>5, <1>6, PartOfLine
<1>8. LineOK(line', lo, hi + 1) /\ BufferOK(parser.buf, lo, hi + 1) /\ lo <= hi + 1
  <2>1. hi + 1 \in Int /\ lo <= lo /\ hi <= hi + 1 /\ lo <= hi + 1
    BY <1>5
  <2>. QED BY <1>5, <1>7, <2>1, Widens
<1>. QED
  BY <1>1, <1>3, <1>4, <1>7, <1>8, InvParts DEF CmdInv, CmdType, lo

LEMMA DamageStep == CmdInv /\ Damage => CmdInv'
<1>. SUFFICES ASSUME CmdInv, Damage PROVE CmdInv'
  OBVIOUS
<1>. DEFINE lo == esp.synced
            hi == mcu.life
<1>1. troubles' \in Nat /\ hi + troubles' <= Troubles
  BY TroubleCosts DEF Damage
<1>2. UNCHANGED <<parser, esp, mcu>>
  BY DEF Damage
<1>3. line \in Seq(OnTheWay) /\ LineOK(line, lo, hi) /\ BufferFirst(parser.buf, line)
  BY InvParts
<1>4. \/ line' = line
      \/ \E i \in DOMAIN line : line' = RemoveAt(line, i)
      \/ \E i \in DOMAIN line, k \in {"END", "ESC"} \cup Printable :
            line' = [line EXCEPT ![i] = [char |-> Char(k), first |-> FALSE, whole |-> <<>>]]
  BY Zenon DEF Damage
<1>. HIDE DEF lo, hi
<1>5. line' \in Seq(OnTheWay) /\ LineOK(line', lo, hi) /\ BufferFirst(parser.buf, line')
  <2>1. CASE line' = line
    BY <1>3, <2>1
  <2>2. CASE \E i \in DOMAIN line : line' = RemoveAt(line, i)
    <3>1. PICK i \in DOMAIN line : line' = RemoveAt(line, i)
      BY <2>2
    <3>. QED BY <1>3, <3>1, LineLoses
  <2>3. CASE \E i \in DOMAIN line, k \in {"END", "ESC"} \cup Printable :
                line' = [line EXCEPT ![i] = [char |-> Char(k), first |-> FALSE, whole |-> <<>>]]
    <3>1. PICK i \in DOMAIN line, k \in {"END", "ESC"} \cup Printable :
             line' = [line EXCEPT ![i] = [char |-> Char(k), first |-> FALSE, whole |-> <<>>]]
      BY <2>3
    <3>. QED BY <1>3, <3>1, LineChanges
  <2>. QED BY <1>4, <2>1, <2>2, <2>3
<1>. QED
  BY <1>1, <1>2, <1>5, InvParts DEF CmdInv, CmdType, lo, hi

LEMMA CmdStep == CmdInv /\ [Next]_vars => CmdInv'
<1>. SUFFICES ASSUME CmdInv, [Next]_vars PROVE CmdInv'
  OBVIOUS
<1>1. CASE Next
  BY <1>1, UartStep, EventStep, ProgramsStep, EspRestartsStep, McuSendsStep, McuPrintsStep,
     McuReceivesStep, McuRestartsStep, DamageStep DEF Next
<1>2. CASE UNCHANGED vars
  BY <1>2 DEF vars, CmdInv, CmdType
<1>. QED
  BY <1>1, <1>2

LEMMA InvShowsTable == CmdInv => CallbackTable
<1>. SUFFICES ASSUME CmdInv PROVE CallbackTable
  OBVIOUS
<1>1. TableOK(esp) /\ esp.callbacks \in Seq(Callback)
  BY InvParts DEF Esp
<1>2. ASSUME esp.wifiCbAdded PROVE cmdGetCbByName(esp, "wifiCb") # NoLife
  <2>. DEFINE found == {i \in DOMAIN esp.callbacks : esp.callbacks[i].name = "wifiCb"}
  <2>1. found # {}
    BY <1>1, <1>2 DEF TableOK
  <2>2. cmdGetCbByName(esp, "wifiCb") = esp.callbacks[CHOOSE i \in found : TRUE].cb
    BY <2>1, Zenon DEF cmdGetCbByName
  <2>3. (CHOOSE i \in found : TRUE) \in DOMAIN esp.callbacks
    BY <2>1, Zenon
  <2>4. \A i \in DOMAIN esp.callbacks : esp.callbacks[i].cb \in Nat
    <3>1. \A i \in DOMAIN esp.callbacks : esp.callbacks[i] \in Callback
      BY <1>1
    <3>. QED BY <3>1 DEF Callback
  <2>5. cmdGetCbByName(esp, "wifiCb") \in Nat
    <3>. HIDE DEF found
    <3>. QED BY <2>2, <2>3, <2>4, Zenon
  <2>. QED BY <2>5 DEF NoLife
<1>. QED
  BY <1>1, <1>2 DEF CallbackTable, TableOK

-----------------------------------------------------------------------------
(* What is undamaged on the line is executed: the parser is where the       *)
(* frame on the line is, whatever it was given before.                      *)

\* What a frame says, and its codes up to and with the n-th character of it.
Content(packet) == [i \in DOMAIN packet |-> Char(packet[i])] \o CRC(packet)
EscapedContent(packet) == [i \in DOMAIN Content(packet) |-> Escaped(Content(packet)[i])]
Sent(packet) == Parts(EscapedContent(packet))

\* The parser has taken r characters of the frame of a packet, and j of what it says.
HasTaken(p, packet, j) ==
    /\ p.inpkt /\ Len(p.buf) = j
    /\ \A i \in 1..j : p.buf[i] = Content(packet)[i]
Amid(p, packet, r) ==
    \E j \in 0..Len(Content(packet)) :
        /\ HasTaken(p, packet, j)
        /\ \/ ~p.escaped /\ r = 1 + Len(Sent(packet)[j])
           \/ /\ p.escaped /\ r = 2 + Len(Sent(packet)[j])
              /\ j < Len(Content(packet)) /\ Content(packet)[j + 1].k \in {"END", "ESC"}

\* The line has, after a characters, the frame of a packet, and but for it
\* only text; the first -a characters of it may have been read.
Framed(ln, packet, a) ==
    LET end == a + Len(FrameOnLine[packet]) IN
    /\ 1 <= end /\ end <= Len(ln)
    /\ \A i \in DOMAIN ln :
          /\ i <= a => ln[i].whole = <<>>
          /\ a < i /\ i <= end => ln[i] = FrameOnLine[packet][i - a]
          /\ end < i => ln[i].whole = <<>> /\ ~ln[i].first /\ ln[i].char.k # "END"

NoneWhole(ln) == \A i \in DOMAIN ln : ln[i].whole = <<>>
Intact(ln, p) ==
    \/ NoneWhole(ln)
    \/ \E packet \in Packets, a \in Int :
          /\ Framed(ln, packet, a)
          /\ a < 0 /\ Len(packet) + 2 <= SLIP_MAX => Amid(p, packet, -a)
WholeEnds(ln) == \A i \in DOMAIN ln : ln[i].whole # <<>> => ln[i].char.k = "END"

IntactInv == WholeEnds(line) /\ (~bad => Intact(line, parser))

-----------------------------------------------------------------------------
(* What a frame is *)

LEMMA ContentIs ==
    ASSUME NEW packet \in Packets
    PROVE  /\ Content(packet) \in Seq(Character)
           /\ Len(packet) \in Nat \ {0} /\ Len(Content(packet)) = Len(packet) + 2
           /\ DOMAIN Content(packet) = 1..Len(packet) + 2
           /\ \A i \in 1..Len(packet) : Content(packet)[i] = Char(packet[i])
           /\ Content(packet)[Len(packet) + 1] = [k |-> "lo", of |-> packet]
           /\ Content(packet)[Len(packet) + 2] = [k |-> "hi", of |-> packet]
<1>. DEFINE a == [i \in DOMAIN packet |-> Char(packet[i])]
            b == CRC(packet)
            n == Len(packet)
<1>1. packet \in Seq(Word) /\ packet # <<>> /\ DOMAIN packet = 1..n /\ n \in Nat
  BY PacketType
<1>2. n # 0
  BY <1>1
<1>3. \A i \in 1..n : Char(packet[i]) \in Character
  <2>. SUFFICES ASSUME NEW i \in 1..n PROVE Char(packet[i]) \in Character
    OBVIOUS
  <2>1. packet[i] \in Code
    BY <1>1, WordsOf
  <2>. HIDE DEF n
  <2>. QED BY <2>1 DEF Char, Character, Tag
<1>4. a \in Seq(Character) /\ Len(a) = n /\ \A i \in 1..n : a[i] = Char(packet[i])
  <2>. HIDE DEF n
  <2>. QED BY <1>1, <1>3
<1>5. /\ b \in Seq(Character) /\ Len(b) = 2
      /\ b[1] = [k |-> "lo", of |-> packet] /\ b[2] = [k |-> "hi", of |-> packet]
  <2>1. [k |-> "lo", of |-> packet] \in Character /\ [k |-> "hi", of |-> packet] \in Character
    BY DEF Character, Code, Tag
  <2>. QED BY <2>1 DEF CRC
<1>6. Content(packet) = a \o b
  BY DEF Content
<1>. HIDE DEF a, b, n
<1>7. /\ Content(packet) \in Seq(Character) /\ Len(Content(packet)) = n + 2
      /\ \A i \in 1..n + 2 : Content(packet)[i] = IF i <= n THEN a[i] ELSE b[i - n]
  <2>1. Content(packet) \in Seq(Character) /\ Len(Content(packet)) = n + 2
    <3>1. a \o b \in Seq(Character) /\ Len(a \o b) = Len(a) + Len(b)
      BY <1>4, <1>5, Concatenation
    <3>. QED BY <1>4, <1>5, <1>6, <3>1
  <2>. QED BY <1>1, <1>4, <1>5, <1>6, <2>1
<1>8. DOMAIN Content(packet) = 1..n + 2
  BY <1>7
<1>9. /\ n + 1 \in 1..n + 2 /\ n + 2 \in 1..n + 2 /\ ~(n + 1 <= n) /\ ~(n + 2 <= n)
      /\ (n + 1) - n = 1 /\ (n + 2) - n = 2
      /\ \A i \in 1..n : i \in 1..n + 2 /\ i <= n
  BY <1>1
<1>10. Content(packet)[n + 1] = b[(n + 1) - n] /\ Content(packet)[n + 2] = b[(n + 2) - n]
  BY <1>7, <1>9, Zenon
<1>11. \A i \in 1..n : Content(packet)[i] = a[i]
  BY <1>7, <1>9, Zenon
<1>12. Content(packet)[n + 1] = b[1] /\ Content(packet)[n + 2] = b[2]
  BY <1>9, <1>10
<1>. QED
  BY <1>1, <1>2, <1>4, <1>5, <1>7, <1>8, <1>11, <1>12 DEF n

\* Only what a packet consists of is escaped, and what is not is sent as it is.
LEMMA EscapedIs ==
    ASSUME NEW c \in Character
    PROVE  /\ Escaped(c) \in Seq(Character)
           /\ c.k = "END" => Escaped(c) = <<Char("ESC"), Char("ESC_END")>>
           /\ c.k = "ESC" => Escaped(c) = <<Char("ESC"), Char("ESC_ESC")>>
           /\ c.k \notin {"END", "ESC"} => Escaped(c) = <<c>>
<1>1. /\ c.k = "END" => Escaped(c) = <<Char("ESC"), Char("ESC_END")>>
      /\ c.k = "ESC" => Escaped(c) = <<Char("ESC"), Char("ESC_ESC")>>
      /\ c.k \notin {"END", "ESC"} => Escaped(c) = <<c>>
  <2>1. c.k = "END" => Escaped(c) = <<Char("ESC"), Char("ESC_END")>>
    BY Zenon DEF Escaped
  <2>2. c.k = "ESC" => Escaped(c) = <<Char("ESC"), Char("ESC_ESC")>>
    BY DEF Escaped
  <2>3. c.k \notin {"END", "ESC"} => Escaped(c) = <<c>>
    BY Zenon DEF Escaped
  <2>. QED BY <2>1, <2>2, <2>3
<1>2. Char("ESC") \in Character /\ Char("ESC_END") \in Character /\ Char("ESC_ESC") \in Character
  BY DEF Char, Character, Code, Tag
<1>3. \A x, y \in Character : <<x, y>> \in Seq(Character) /\ <<x>> \in Seq(Character)
  OBVIOUS
<1>. QED
  BY <1>1, <1>2, <1>3

LEMMA EscapedContentIs ==
    ASSUME NEW packet \in Packets
    PROVE  /\ EscapedContent(packet) \in Seq(Seq(Character))
           /\ Len(EscapedContent(packet)) = Len(Content(packet))
           /\ \A i \in 1..Len(Content(packet)) : /\ EscapedContent(packet)[i] = Escaped(Content(packet)[i])
                                                 /\ EscapedContent(packet)[i] \in Seq(Character)
<1>. DEFINE x == Content(packet)
<1>1. x \in Seq(Character)
  BY ContentIs
<1>2. EscapedContent(packet) = [i \in DOMAIN x |-> Escaped(x[i])]
  BY DEF EscapedContent
<1>. HIDE DEF x
<1>3. DOMAIN x = 1..Len(x) /\ Len(x) \in Nat /\ \A i \in 1..Len(x) : x[i] \in Character
  BY <1>1
<1>4. \A i \in 1..Len(x) : Escaped(x[i]) \in Seq(Character)
  BY <1>3, EscapedIs
<1>. DEFINE S == Seq(Character)
<1>. HIDE DEF S
<1>5. EscapedContent(packet) \in Seq(S) /\ Len(EscapedContent(packet)) = Len(x)
  BY <1>2, <1>3, <1>4 DEF S
<1>6. \A i \in 1..Len(x) : EscapedContent(packet)[i] = Escaped(x[i])
  BY <1>2, <1>3
<1>. QED
  BY <1>4, <1>5, <1>6 DEF x, S

LEMMA SentIs ==
    ASSUME NEW packet \in Packets
    PROVE  /\ Sent(packet)[0] = <<>>
           /\ \A j \in 0..Len(Content(packet)) : Sent(packet)[j] \in Seq(Character)
           /\ \A j \in 1..Len(Content(packet)) :
                 Sent(packet)[j] = Sent(packet)[j - 1] \o Escaped(Content(packet)[j])
           /\ Sent(packet)[Len(Content(packet))] = FlattenSeq(EscapedContent(packet))
           /\ \A j, m \in 0..Len(Content(packet)) : j <= m =>
                 /\ Len(Sent(packet)[j]) <= Len(Sent(packet)[m])
                 /\ \A i \in 1..Len(Sent(packet)[j]) : Sent(packet)[m][i] = Sent(packet)[j][i]
<1>1. EscapedContent(packet) \in Seq(Seq(Character)) /\ Len(EscapedContent(packet)) = Len(Content(packet))
  BY EscapedContentIs
<1>. DEFINE s == EscapedContent(packet)
<1>2. Sent(packet) = Parts(s)
  BY DEF Sent
<1>. HIDE DEF s
<1>3. s \in Seq(Seq(Character)) /\ Len(s) = Len(Content(packet))
  BY <1>1 DEF s
<1>4. \A j \in 1..Len(s) : s[j] = Escaped(Content(packet)[j])
  BY <1>3, EscapedContentIs DEF s
<1>5. Parts(s)[0] = <<>> /\ \A j \in 1..Len(s) : Parts(s)[j] = Parts(s)[j - 1] \o s[j]
  BY <1>3, PartsExist
<1>6. \A j \in 0..Len(s) : Parts(s)[j] \in Seq(Character)
  BY <1>3, PartsType
<1>7. Parts(s)[Len(s)] = FlattenSeq(s)
  BY <1>3, PartsWhole
<1>8. \A j, m \in 0..Len(s) : j <= m => /\ Len(Parts(s)[j]) <= Len(Parts(s)[m])
                                        /\ \A i \in 1..Len(Parts(s)[j]) : Parts(s)[m][i] = Parts(s)[j][i]
  BY <1>3, PartsGrow
<1>9. \A j \in 1..Len(s) : Parts(s)[j] = Parts(s)[j - 1] \o Escaped(Content(packet)[j])
  BY <1>4, <1>5
<1>10. Sent(packet)[Len(Content(packet))] = FlattenSeq(EscapedContent(packet))
  BY <1>2, <1>3, <1>7 DEF s
<1>11. \A j, m \in 0..Len(Content(packet)) : j <= m =>
          /\ Len(Sent(packet)[j]) <= Len(Sent(packet)[m])
          /\ \A i \in 1..Len(Sent(packet)[j]) : Sent(packet)[m][i] = Sent(packet)[j][i]
  BY <1>2, <1>3, <1>8
<1>. QED
  BY <1>2, <1>3, <1>5, <1>6, <1>9, <1>10, <1>11

\* The frame, character by character.
LEMMA FrameForm ==
    ASSUME NEW packet \in Packets
    PROVE  /\ Frame(packet) \in Seq(Character)
           /\ Len(Frame(packet)) = Len(Sent(packet)[Len(Content(packet))]) + 2
           /\ Frame(packet)[1] = Char("END")
           /\ Frame(packet)[Len(Frame(packet))] = Char("END")
           /\ \A j \in 0..Len(Content(packet)) : \A i \in 1..Len(Sent(packet)[j]) :
                 Frame(packet)[i + 1] = Sent(packet)[j][i]
<1>. DEFINE E == <<Char("END")>>
            n == Len(Content(packet))
            y == Sent(packet)[n]
            fr == Frame(packet)
<1>1. n \in Nat
  <2>1. Content(packet) \in Seq(Character)
    BY ContentIs
  <2>. QED BY <2>1
<1>2. y \in Seq(Character) /\ y = FlattenSeq(EscapedContent(packet))
  <2>1. n \in 0..n
    BY <1>1
  <2>. HIDE DEF n
  <2>. QED BY <2>1, SentIs DEF n
<1>3. fr = E \o y \o E
  BY <1>2, Zenon DEF Frame, EscapedContent, Content
<1>4. Char("END") \in Character
  BY DEF Char, Character, Code, Tag
<1>5. E \in Seq(Character) /\ Len(E) = 1 /\ E[1] = Char("END")
  BY <1>4
<1>6. \A j \in 0..n : Len(Sent(packet)[j]) <= Len(y)
                      /\ \A i \in 1..Len(Sent(packet)[j]) : y[i] = Sent(packet)[j][i]
  <2>1. n \in 0..n /\ \A j \in 0..n : j <= n
    BY <1>1
  <2>. HIDE DEF n
  <2>. QED BY <2>1, SentIs, Zenon DEF n
<1>. HIDE DEF E, y, n, fr
<1>7. Len(y) \in Nat
  BY <1>2
<1>8. /\ fr \in Seq(Character) /\ Len(fr) = Len(y) + 2
      /\ fr[1] = Char("END") /\ fr[Len(y) + 2] = Char("END")
      /\ \A i \in 1..Len(y) : fr[i + 1] = y[i]
  <2>. DEFINE u == E \o y
  <2>1. u \in Seq(Character) /\ Len(u) = Len(y) + 1 /\ u[1] = E[1] /\ \A i \in 1..Len(y) : u[i + 1] = y[i]
    BY <1>2, <1>5, <1>7, Concatenation
  <2>2. fr = u \o E
    BY <1>3
  <2>. HIDE DEF u
  <2>3. fr \in Seq(Character) /\ Len(fr) = Len(u) + 1 /\ \A i \in 1..Len(u) : fr[i] = u[i]
    <3>1. /\ u \o E \in Seq(Character) /\ Len(u \o E) = Len(u) + Len(E)
          /\ \A i \in 1..Len(u) : (u \o E)[i] = u[i]
      <4>1. u \in Seq(Character) /\ E \in Seq(Character)
        BY <1>5, <2>1
      <4>. QED BY <4>1, Concatenation
    <3>. QED BY <1>5, <2>2, <3>1
  <2>4. fr[Len(u) + 1] = E[1]
    BY <1>5, <2>1, <2>2, Concatenation
  <2>5. 1 \in 1..Len(u) /\ (\A i \in 1..Len(y) : i + 1 \in 1..Len(u)) /\ Len(u) + 1 = Len(y) + 2
    BY <1>7, <2>1
  <2>6. fr[1] = u[1] /\ \A i \in 1..Len(y) : fr[i + 1] = u[i + 1]
    BY <2>3, <2>5, Zenon
  <2>. QED BY <1>5, <2>1, <2>3, <2>4, <2>5, <2>6
<1>9. \A j \in 0..n : Len(Sent(packet)[j]) \in Nat
  <2>1. \A j \in 0..n : Sent(packet)[j] \in Seq(Character)
    BY SentIs DEF n
  <2>. QED BY <2>1
<1>10. \A j \in 0..n : \A i \in 1..Len(Sent(packet)[j]) : i \in 1..Len(y)
  BY <1>6, <1>7, <1>9
<1>11. \A j \in 0..n : \A i \in 1..Len(Sent(packet)[j]) : fr[i + 1] = Sent(packet)[j][i]
  BY <1>6, <1>8, <1>10, Zenon
<1>. QED
  BY <1>8, <1>11, Zenon DEF n, y, fr

\* The characters by which the frame says its (j + 1)-th character.
LEMMA FrameChars ==
    ASSUME NEW packet \in Packets, NEW j \in Nat, j < Len(Content(packet))
    PROVE  LET x == Content(packet)[j + 1]
               s == Len(Sent(packet)[j])
               t == Len(Sent(packet)[j + 1])
           IN  /\ x \in Character /\ s \in Nat /\ t \in Nat
               /\ t + 2 <= Len(Frame(packet))
               /\ x.k \notin {"END", "ESC"} => t = s + 1 /\ Frame(packet)[s + 2] = x
               /\ x.k \in {"END", "ESC"} => t = s + 2 /\ Frame(packet)[s + 2] = Char("ESC") /\ x = Char(x.k)
               /\ x.k = "END" => Frame(packet)[s + 3] = Char("ESC_END")
               /\ x.k = "ESC" => Frame(packet)[s + 3] = Char("ESC_ESC")
<1>. DEFINE x == Content(packet)[j + 1]
            a == Sent(packet)[j]
            b == Sent(packet)[j + 1]
            e == Escaped(x)
            n == Len(Content(packet))
            s == Len(a)
            t == Len(b)
<1>1. n \in Nat /\ j + 1 \in 1..n /\ j \in 0..n /\ j + 1 \in 0..n /\ (j + 1) - 1 = j /\ n \in 0..n
      /\ j + 1 <= n
  <2>1. n \in Nat
    BY ContentIs
  <2>. QED BY <2>1
<1>2. x \in Character
  <2>1. Content(packet) \in Seq(Character)
    BY ContentIs
  <2>. QED BY <1>1, <2>1
<1>3. a \in Seq(Character) /\ b \in Seq(Character) /\ b = a \o e
  <2>. HIDE DEF n
  <2>1. Sent(packet)[j + 1] = Sent(packet)[(j + 1) - 1] \o Escaped(Content(packet)[j + 1])
    BY <1>1, SentIs DEF n
  <2>2. a \in Seq(Character) /\ b \in Seq(Character)
    BY <1>1, SentIs DEF n
  <2>. QED BY <1>1, <2>1, <2>2
<1>4. t + 2 <= Len(Frame(packet))
  <2>1. t <= Len(Sent(packet)[n])
    BY <1>1, SentIs
  <2>2. t \in Nat /\ Len(Sent(packet)[n]) \in Nat
    <3>. DEFINE y == Sent(packet)[n]
    <3>1. y \in Seq(Character)
      BY <1>1, SentIs
    <3>. HIDE DEF a, b, e, y, n
    <3>2. t \in Nat
      BY <1>3
    <3>3. Len(y) \in Nat
      BY <3>1
    <3>. QED BY <3>2, <3>3 DEF y
  <2>3. Len(Frame(packet)) = Len(Sent(packet)[n]) + 2
    BY FrameForm
  <2>. DEFINE u == Len(Sent(packet)[n])
  <2>. HIDE DEF u, t
  <2>. QED BY <2>1, <2>2, <2>3 DEF u
<1>5. \A i \in 1..t : Frame(packet)[i + 1] = b[i]
  BY <1>1, FrameForm
<1>6. e \in Seq(Character)
  BY <1>2, EscapedIs
<1>. HIDE DEF a, b, e
<1>7. s \in Nat /\ t \in Nat /\ t = s + Len(e) /\ \A i \in 1..Len(e) : b[s + i] = e[i]
  BY <1>3, <1>6, Concatenation
<1>8. x.k \notin {"END", "ESC"} => t = s + 1 /\ Frame(packet)[s + 2] = x
  <2>. SUFFICES ASSUME x.k \notin {"END", "ESC"} PROVE t = s + 1 /\ Frame(packet)[s + 2] = x
    OBVIOUS
  <2>1. e = <<x>>
    BY <1>2, EscapedIs DEF e
  <2>. HIDE DEF x
  <2>2. Len(e) = 1 /\ e[1] = x
    BY <2>1
  <2>3. b[s + 1] = x
    BY <1>7, <2>2
  <2>. HIDE DEF s, t
  <2>4. t = s + 1 /\ s + 1 \in 1..t /\ (s + 1) + 1 = s + 2
    BY <1>7, <2>2
  <2>. QED BY <1>5, <2>3, <2>4
<1>9. ASSUME NEW c, e = <<Char("ESC"), c>>
      PROVE  t = s + 2 /\ Frame(packet)[s + 2] = Char("ESC") /\ Frame(packet)[s + 3] = c
  <2>. DEFINE d == Char("ESC")
  <2>. HIDE DEF d
  <2>1. Len(e) = 2 /\ e[1] = d /\ e[2] = c
    BY <1>9 DEF d
  <2>2. b[s + 1] = d /\ b[s + 2] = c
    BY <1>7, <2>1
  <2>. HIDE DEF s, t
  <2>3. t = s + 2 /\ s + 1 \in 1..t /\ s + 2 \in 1..t /\ (s + 1) + 1 = s + 2 /\ (s + 2) + 1 = s + 3
    BY <1>7, <2>1
  <2>. QED BY <1>5, <2>2, <2>3 DEF d
<1>10. x.k = "END" => e = <<Char("ESC"), Char("ESC_END")>>
  BY <1>2, EscapedIs DEF e
<1>11. x.k = "ESC" => e = <<Char("ESC"), Char("ESC_ESC")>>
  BY <1>2, EscapedIs DEF e
<1>12. x.k \in {"END", "ESC"} => x = Char(x.k)
  <2>1. /\ n = Len(packet) + 2 /\ Len(packet) \in Nat
        /\ \A i \in 1..Len(packet) : Content(packet)[i] = Char(packet[i])
        /\ Content(packet)[Len(packet) + 1] = [k |-> "lo", of |-> packet]
        /\ Content(packet)[Len(packet) + 2] = [k |-> "hi", of |-> packet]
    BY ContentIs
  <2>2. \/ j + 1 \in 1..Len(packet) \/ j + 1 = Len(packet) + 1 \/ j + 1 = Len(packet) + 2
    <3>. DEFINE m == Len(packet)
    <3>. HIDE DEF m, n
    <3>. QED BY <1>1, <2>1 DEF m
  <2>3. CASE j + 1 \in 1..Len(packet)
    <3>1. x = Char(packet[j + 1])
      BY <2>1, <2>3
    <3>. HIDE DEF x
    <3>. QED BY <3>1 DEF Char
  <2>4. CASE j + 1 = Len(packet) + 1 \/ j + 1 = Len(packet) + 2
    <3>1. x = [k |-> "lo", of |-> packet] \/ x = [k |-> "hi", of |-> packet]
      BY <2>1, <2>4
    <3>. HIDE DEF x
    <3>2. x.k \in {"lo", "hi"}
      BY <3>1
    <3>. QED BY <3>2
  <2>. QED BY <2>2, <2>3, <2>4
<1>13. x.k \in {"END", "ESC"} => t = s + 2 /\ Frame(packet)[s + 2] = Char("ESC")
  <2>. HIDE DEF x, s, t
  <2>. QED BY <1>9, <1>10, <1>11
<1>14. /\ x.k = "END" => Frame(packet)[s + 3] = Char("ESC_END")
       /\ x.k = "ESC" => Frame(packet)[s + 3] = Char("ESC_ESC")
  <2>. HIDE DEF x, s, t
  <2>. QED BY <1>9, <1>10, <1>11
<1>. QED
  BY <1>2, <1>4, <1>7, <1>8, <1>12, <1>13, <1>14, Zenon DEF a, b

-----------------------------------------------------------------------------
(* The parser amid a frame *)

\* Another character of the packet is kept: no packet is too long or begins as text.
LEMMA TakesMore ==
    ASSUME NEW packet \in Packets, Len(packet) + 2 <= SLIP_MAX, NEW p \in Parser,
           NEW j \in Nat, j < Len(Content(packet)), HasTaken(p, packet, j)
    PROVE  LET c == Content(packet)[j + 1] IN
           /\ Keep(p, c) \in Parser /\ HasTaken(Keep(p, c), packet, j + 1)
           /\ Keep(p, c).escaped = p.escaped
           /\ ~StartsText(p, c)
<1>. DEFINE c == Content(packet)[j + 1]
            q == Keep(p, c)
            m == Len(packet)
            n == Len(Content(packet))
<1>1. n = m + 2 /\ n \in Nat /\ m \in Nat \ {0} /\ c \in Character
  <2>1. Len(Content(packet)) = Len(packet) + 2 /\ Len(packet) \in Nat \ {0}
        /\ Content(packet) \in Seq(Character)
    BY ContentIs
  <2>2. c \in Character
    BY <2>1
  <2>. QED BY <2>1, <2>2
<1>2. p.buf \in Seq(Character) /\ p.inpkt /\ Len(p.buf) = j /\ \A i \in 1..j : p.buf[i] = Content(packet)[i]
  BY ParserParts DEF HasTaken
<1>3. j < SLIP_MAX /\ SLIP_MAX \in Nat
  <2>. HIDE DEF m, n
  <2>1. j < n /\ m + 2 <= SLIP_MAX
    BY DEF m, n
  <2>. QED BY <1>1, <2>1, SlipAssumption
<1>4. q = [p EXCEPT !.buf = Append(@, c)]
  BY <1>2, <1>3, Zenon DEF Keep
<1>. DEFINE b == Append(p.buf, c)
<1>5. b \in Seq(Character) /\ Len(b) = j + 1 /\ (\A i \in 1..j : b[i] = p.buf[i]) /\ b[j + 1] = c
  <2>. HIDE DEF c
  <2>. QED BY <1>1, <1>2
<1>6. q = [p EXCEPT !.buf = b]
  BY <1>4
<1>. HIDE DEF b, c, q
<1>7. q \in Parser /\ q.buf = b /\ q.inpkt = p.inpkt /\ q.escaped = p.escaped
  BY <1>5, <1>6 DEF Parser
<1>8. \A i \in 1..j + 1 : b[i] = Content(packet)[i]
  <2>. SUFFICES ASSUME NEW i \in 1..j + 1 PROVE b[i] = Content(packet)[i]
    OBVIOUS
  <2>1. CASE i = j + 1
    BY <1>5, <2>1 DEF c
  <2>2. CASE i # j + 1
    <3>1. i \in 1..j
      BY <2>2
    <3>. QED BY <1>2, <1>5, <3>1
  <2>. QED BY <2>1, <2>2
<1>9. HasTaken(q, packet, j + 1)
  BY <1>2, <1>5, <1>7, <1>8 DEF HasTaken
<1>10. ~StartsText(p, c)
  <2>. SUFFICES ASSUME Len(p.buf) = 1 PROVE p.buf[1].k \notin Printable
    BY DEF StartsText
  <2>1. p.buf[1] = Content(packet)[1] /\ 1 \in 1..m
    BY <1>1, <1>2
  <2>2. p.buf[1] = Char(packet[1])
    BY <2>1, ContentIs
  <2>. DEFINE w == packet[1]
  <2>3. w \in {"SYNC", "ADD_CB", "STATUS", "MQTT_SETUP"}
    BY PacketForms
  <2>. HIDE DEF w
  <2>4. Char(w).k = w
    BY DEF Char
  <2>. QED BY <2>2, <2>3, <2>4, CmdAssumption DEF w
<1>. QED
  BY <1>7, <1>9, <1>10 DEF c, q

\* All has been taken: the checksum is right, and it is the packet that is handed on.
LEMMA TakesLast ==
    ASSUME NEW packet \in Packets, NEW p \in Parser, HasTaken(p, packet, Len(Content(packet)))
    PROVE  slip_process(p).packets = Append(p.packets, packet)
<1>. DEFINE m == Len(packet)
            b == p.buf
            u == SubSeq(b, 1, m)
            v == SubSeq(b, m + 1, m + 2)
<1>1. /\ Len(Content(packet)) = m + 2 /\ m \in Nat \ {0}
      /\ \A i \in 1..m : Content(packet)[i] = Char(packet[i])
      /\ Content(packet)[m + 1] = [k |-> "lo", of |-> packet]
      /\ Content(packet)[m + 2] = [k |-> "hi", of |-> packet]
  BY ContentIs
<1>2. /\ b \in Seq(Character) /\ p.inpkt /\ Len(b) = m + 2
      /\ \A i \in 1..m + 2 : b[i] = Content(packet)[i]
  BY <1>1, ParserParts DEF HasTaken
<1>3. packet \in Seq(Word) /\ p \in Parser
  BY PacketType
<1>. HIDE DEF b, m
<1>4. m \in Nat /\ m + 2 > 2 /\ (m + 2) - 2 = m /\ (m + 2) - 1 = m + 1 /\ m + 2 # 0
      /\ m + 1 \in 1..m + 2 /\ m + 2 \in 1..m + 2 /\ \A i \in 1..m : i \in 1..m + 2
  BY <1>1
<1>5. b[m + 1] = [k |-> "lo", of |-> packet] /\ b[m + 2] = [k |-> "hi", of |-> packet]
      /\ \A i \in 1..m : b[i] = Char(packet[i])
  BY <1>1, <1>2, <1>4
<1>6. u \in Seq(Character) /\ Len(u) = m /\ \A i \in 1..m : u[i] = b[i]
  BY <1>2, <1>4
<1>7. v = <<b[m + 1], b[m + 2]>>
  <2>1. v \in Seq(Character) /\ Len(v) = 2 /\ v[1] = b[m + 1] /\ v[2] = b[m + 2]
    BY <1>2, <1>4
  <2>2. b[m + 1] \in Character /\ b[m + 2] \in Character
    BY <1>2, <1>4
  <2>. HIDE DEF v
  <2>. QED BY <2>1, <2>2
<1>8. v = CRC(packet)
  BY <1>5, <1>7 DEF CRC
<1>9. Codes(u) = packet
  <2>. HIDE DEF u
  <2>1. DOMAIN u = 1..m
    BY <1>4, <1>6
  <2>2. \A i \in 1..m : u[i].k = packet[i]
    <3>. SUFFICES ASSUME NEW i \in 1..m PROVE u[i].k = packet[i]
      OBVIOUS
    <3>1. u[i] = Char(packet[i])
      BY <1>5, <1>6
    <3>. QED BY <3>1 DEF Char
  <2>3. Codes(u) = [i \in 1..m |-> packet[i]]
    BY <2>1, <2>2, Zenon DEF Codes
  <2>4. packet = [i \in 1..m |-> packet[i]]
    BY <1>3, <1>4 DEF m
  <2>. QED BY <2>3, <2>4
<1>10. slip_process(p) = [p EXCEPT !.packets = Append(@, packet)]
  <2>1. Len(p.buf) = m + 2
    BY <1>2 DEF b
  <2>2. SubSeq(p.buf, 1, (m + 2) - 2) = u /\ SubSeq(p.buf, (m + 2) - 1, m + 2) = v
    BY <1>4 DEF b
  <2>. HIDE DEF u, v
  <2>3. Codes(SubSeq(p.buf, 1, Len(p.buf) - 2)) = packet
    BY <1>9, <2>1, <2>2
  <2>4. SubSeq(p.buf, Len(p.buf) - 1, Len(p.buf)) = CRC(packet)
    BY <1>8, <2>1, <2>2
  <2>5. Len(p.buf) > 2 /\ Len(p.buf) # 0
    BY <1>4, <2>1
  <2>. QED BY <1>2, <2>3, <2>4, <2>5, Zenon DEF slip_process
<1>. DEFINE q == slip_process(p)
            ps == Append(p.packets, packet)
<1>11. q = [p EXCEPT !.packets = ps]
  BY <1>10
<1>. HIDE DEF q, ps
<1>12. q.packets = ps
  BY <1>3, <1>11 DEF Parser
<1>. QED BY <1>12 DEF q, ps

\* The next character of a frame takes the parser on in it, and the last one
\* makes it hand on the packet.
LEMMA AmidStep ==
    ASSUME NEW packet \in Packets, Len(packet) + 2 <= SLIP_MAX, NEW p \in Parser,
           NEW r \in Nat, r < Len(Frame(packet)), Amid(p, packet, r)
    PROVE  LET q == slip_parse_char(p, Frame(packet)[r + 1]) IN
           /\ r + 1 < Len(Frame(packet)) => Amid(q, packet, r + 1)
           /\ r + 1 = Len(Frame(packet)) => q.packets = Append(p.packets, packet)
<1>. DEFINE n == Len(Content(packet))
            z == Len(Frame(packet))
            c == Frame(packet)[r + 1]
            q == slip_parse_char(p, c)
<1>1. PICK j \in 0..n :
         /\ HasTaken(p, packet, j)
         /\ \/ ~p.escaped /\ r = 1 + Len(Sent(packet)[j])
            \/ /\ p.escaped /\ r = 2 + Len(Sent(packet)[j])
               /\ j < n /\ Content(packet)[j + 1].k \in {"END", "ESC"}
  BY DEF Amid
<1>2. n \in Nat /\ j \in Nat /\ z \in Nat /\ z = Len(Sent(packet)[n]) + 2
  <2>1. Content(packet) \in Seq(Character) /\ Frame(packet) \in Seq(Character)
    BY ContentIs, FrameForm
  <2>2. n \in Nat /\ z \in Nat
    BY <2>1
  <2>. QED BY <2>2, FrameForm
<1>3. CASE j < n
  <2>. DEFINE x == Content(packet)[j + 1]
              s == Len(Sent(packet)[j])
              t == Len(Sent(packet)[j + 1])
  <2>1. /\ x \in Character /\ s \in Nat /\ t \in Nat /\ t + 2 <= z
        /\ x.k \notin {"END", "ESC"} => t = s + 1 /\ Frame(packet)[s + 2] = x
        /\ x.k \in {"END", "ESC"} => t = s + 2 /\ Frame(packet)[s + 2] = Char("ESC") /\ x = Char(x.k)
        /\ x.k = "END" => Frame(packet)[s + 3] = Char("ESC_END")
        /\ x.k = "ESC" => Frame(packet)[s + 3] = Char("ESC_ESC")
    BY <1>2, <1>3, FrameChars
  <2>2. /\ Keep(p, x) \in Parser /\ HasTaken(Keep(p, x), packet, j + 1)
        /\ Keep(p, x).escaped = p.escaped /\ ~StartsText(p, x)
    BY <1>1, <1>2, <1>3, TakesMore
  <2>3. p.inpkt
    BY <1>1 DEF HasTaken
  <2>4. j + 1 \in 0..n
    BY <1>2, <1>3
  <2>. HIDE DEF x, s, t, z
  <2>5. CASE ~p.escaped /\ r = 1 + s /\ x.k \notin {"END", "ESC"}
    <3>1. c = x /\ r + 1 = 1 + t
      <4>1. r + 1 = s + 2 /\ r + 1 = 1 + t
        BY <2>1, <2>5
      <4>. QED BY <2>1, <2>5, <4>1
    <3>. HIDE DEF c
    <3>2. q = Keep(p, x)
      BY <2>2, <2>5, <3>1, Zenon DEF slip_parse_char
    <3>. HIDE DEF q
    <3>3. Amid(q, packet, r + 1)
      BY <2>2, <2>4, <2>5, <3>1, <3>2 DEF Amid, t
    <3>4. r + 1 # z
      BY <2>1, <3>1
    <3>. QED BY <3>3, <3>4 DEF q, c, z
  <2>6. CASE ~p.escaped /\ r = 1 + s /\ x.k \in {"END", "ESC"}
    <3>1. c = Char("ESC") /\ r + 1 = 2 + s /\ r + 1 = t
      <4>1. r + 1 = s + 2 /\ r + 1 = 2 + s /\ r + 1 = t
        BY <2>1, <2>6
      <4>. QED BY <2>1, <2>6, <4>1
    <3>. HIDE DEF c
    <3>2. c.k = "ESC"
      BY <3>1 DEF Char
    <3>3. q = [p EXCEPT !.escaped = TRUE]
      BY <2>3, <2>6, <3>2 DEF slip_parse_char
    <3>. HIDE DEF q
    <3>4. q.escaped /\ q.inpkt = p.inpkt /\ q.buf = p.buf
      BY <3>3 DEF Parser
    <3>5. HasTaken(q, packet, j)
      BY <1>1, <3>4 DEF HasTaken
    <3>6. Amid(q, packet, r + 1)
      BY <1>1, <1>3, <2>6, <3>1, <3>4, <3>5 DEF Amid, s, x
    <3>7. r + 1 # z
      BY <2>1, <3>1
    <3>. QED BY <3>6, <3>7 DEF q, c, z
  <2>7. CASE p.escaped /\ r = 2 + s /\ x.k \in {"END", "ESC"}
    <3>1. c \in {Char("ESC_END"), Char("ESC_ESC")} /\ r + 1 = 1 + t
          /\ (x.k = "END" => c = Char("ESC_END")) /\ (x.k = "ESC" => c = Char("ESC_ESC"))
      <4>1. r + 1 = s + 3 /\ r + 1 = 1 + t
        BY <2>1, <2>7
      <4>. QED BY <2>1, <2>7, <4>1
    <3>. HIDE DEF c
    <3>2. c.k \in {"ESC_END", "ESC_ESC"} /\ (x.k = "END" => c.k = "ESC_END") /\ (x.k = "ESC" => c.k = "ESC_ESC")
      BY <3>1 DEF Char
    <3>3. Unescaped(c) = Char(x.k)
      <4>1. CASE x.k = "END"
        BY <3>2, <4>1 DEF Unescaped
      <4>2. CASE x.k = "ESC"
        BY <3>2, <4>2 DEF Unescaped
      <4>. QED BY <2>7, <4>1, <4>2
    <3>4. Unescaped(c) = x
      BY <2>1, <2>7, <3>3
    <3>5. q = [Keep(p, x) EXCEPT !.escaped = FALSE]
      BY <2>7, <3>2, <3>4 DEF slip_parse_char
    <3>. DEFINE k == Keep(p, x)
    <3>. HIDE DEF q, k
    <3>6. ~q.escaped /\ q.inpkt = k.inpkt /\ q.buf = k.buf
      BY <2>2, <3>5 DEF Parser, k
    <3>7. HasTaken(q, packet, j + 1)
      BY <2>2, <3>6 DEF HasTaken, k
    <3>8. Amid(q, packet, r + 1)
      BY <2>4, <3>1, <3>6, <3>7 DEF Amid, t
    <3>9. r + 1 # z
      BY <2>1, <3>1
    <3>. QED BY <3>8, <3>9 DEF q, c, z
  <2>. QED BY <1>1, <2>5, <2>6, <2>7 DEF s, x
<1>4. CASE j = n
  <2>1. HasTaken(p, packet, n) /\ r = 1 + Len(Sent(packet)[n])
    BY <1>1, <1>2, <1>4
  <2>2. r + 1 = z
    <3>. DEFINE u == Len(Sent(packet)[n])
    <3>1. r = 1 + u /\ z = u + 2 /\ u \in Nat
      <4>. DEFINE y == Sent(packet)[n]
      <4>1. n \in 0..n
        BY <1>2
      <4>. HIDE DEF n
      <4>2. y \in Seq(Character)
        BY <4>1, SentIs DEF n
      <4>. HIDE DEF y
      <4>3. Len(y) \in Nat
        BY <4>2
      <4>. QED BY <1>2, <2>1, <4>3 DEF y
    <3>. HIDE DEF u, z
    <3>. QED BY <3>1
  <2>3. c = Char("END")
    BY <2>2, FrameForm
  <2>4. slip_process(p).packets = Append(p.packets, packet)
    BY <2>1, TakesLast
  <2>. HIDE DEF c
  <2>5. c.k = "END"
    BY <2>3 DEF Char
  <2>6. q = slip_reset(slip_process(p))
    BY <2>5, Zenon DEF slip_parse_char
  <2>7. q.packets = slip_process(p).packets
    <3>1. slip_process(p) \in Parser
      BY HandsOn
    <3>. DEFINE w == slip_process(p)
    <3>. HIDE DEF w
    <3>2. slip_reset(w).packets = w.packets
      BY <3>1, ResetIs DEF w
    <3>. QED BY <2>6, <3>2 DEF w
  <2>. HIDE DEF q
  <2>8. q.packets = Append(p.packets, packet)
    BY <2>4, <2>7
  <2>. QED BY <2>2, <2>8 DEF q, c
<1>. QED
  BY <1>2, <1>3, <1>4

\* Whatever came before, the first character of a frame starts it.
LEMMA FrameStarts ==
    ASSUME NEW packet \in Packets, NEW p \in Parser
    PROVE  /\ Amid(slip_parse_char(p, Frame(packet)[1]), packet, 1)
           /\ 1 < Len(Frame(packet))
<1>. DEFINE c == Frame(packet)[1]
            q == slip_parse_char(p, c)
            w == slip_process(p)
<1>1. c = Char("END")
  BY FrameForm
<1>. HIDE DEF c
<1>2. c.k = "END"
  BY <1>1 DEF Char
<1>3. q = slip_reset(w)
  BY <1>2, Zenon DEF slip_parse_char
<1>4. w \in Parser
  BY HandsOn
<1>. HIDE DEF w, q
<1>. DEFINE e == <<>>
<1>5. q = [w EXCEPT !.inpkt = TRUE, !.escaped = FALSE, !.buf = e]
  BY <1>3 DEF slip_reset
<1>. HIDE DEF e
<1>6. q.inpkt /\ ~q.escaped /\ q.buf = e
  BY <1>4, <1>5 DEF Parser
<1>7. HasTaken(q, packet, 0)
  BY <1>6 DEF HasTaken, e
<1>8. 0 \in 0..Len(Content(packet)) /\ 1 = 1 + Len(Sent(packet)[0])
  <2>1. Content(packet) \in Seq(Character) /\ Sent(packet)[0] = <<>>
    BY ContentIs, SentIs
  <2>. QED BY <2>1
<1>9. Amid(q, packet, 1)
  BY <1>6, <1>7, <1>8 DEF Amid
<1>10. 1 < Len(Frame(packet))
  <2>. DEFINE y == Sent(packet)[Len(Content(packet))]
  <2>1. Len(Frame(packet)) = Len(y) + 2
    BY FrameForm
  <2>2. y \in Seq(Character)
    <3>1. Len(Content(packet)) \in 0..Len(Content(packet))
      BY <1>8
    <3>. QED BY <3>1, SentIs
  <2>. HIDE DEF y
  <2>3. Len(y) \in Nat
    BY <2>2
  <2>. QED BY <2>1, <2>3
<1>. QED
  BY <1>9, <1>10 DEF q, c

\* A character that is no END hands on nothing.
LEMMA OnlyEndHandsOn ==
    ASSUME NEW p \in Parser, NEW c \in Character, c.k # "END"
    PROVE  slip_parse_char(p, c).packets = p.packets
<1>. DEFINE r == slip_parse_char(p, c)
<1>1. CASE p.escaped
  <2>1. r = [Keep(p, Unescaped(c)) EXCEPT !.escaped = FALSE]
    BY <1>1, Zenon DEF slip_parse_char
  <2>. DEFINE k == Keep(p, Unescaped(c))
  <2>2. k \in Parser /\ k.packets = p.packets
    BY UnescapedKeeps, KeepKeeps
  <2>. HIDE DEF k, r
  <2>3. r.packets = k.packets
    BY <2>1, <2>2 DEF Parser, k
  <2>. QED BY <2>2, <2>3 DEF r
<1>2. CASE ~p.escaped /\ c.k = "ESC" /\ p.inpkt
  <2>1. r = [p EXCEPT !.escaped = TRUE]
    BY <1>2, Zenon DEF slip_parse_char
  <2>. HIDE DEF r
  <2>2. r.packets = p.packets
    BY <2>1 DEF Parser
  <2>. QED BY <2>2 DEF r
<1>3. CASE ~p.escaped /\ ~(c.k = "ESC" /\ p.inpkt)
  <2>. DEFINE s == IF StartsText(p, c) THEN [p EXCEPT !.inpkt = FALSE] ELSE p
  <2>1. r = Keep(s, c)
    BY <1>3, Zenon DEF slip_parse_char
  <2>2. s \in Parser /\ s.packets = p.packets
    BY DEF Parser
  <2>. HIDE DEF s
  <2>. QED BY <2>1, <2>2, KeepKeeps
<1>. QED
  BY <1>1, <1>2, <1>3

-----------------------------------------------------------------------------
(* A buffer of which the frame, or the rest of it, is a part *)

LEMMA OnLineFrame ==
    ASSUME NEW packet \in Packets
    PROVE  /\ FrameOnLine[packet] \in Seq(OnTheWay)
           /\ Len(FrameOnLine[packet]) = Len(Frame(packet))
           /\ Len(FrameOnLine[packet]) \in Nat /\ 1 < Len(FrameOnLine[packet])
           /\ DOMAIN FrameOnLine[packet] = 1..Len(FrameOnLine[packet])
           /\ \A i \in 1..Len(FrameOnLine[packet]) :
                 /\ FrameOnLine[packet][i].char = Frame(packet)[i]
                 /\ FrameOnLine[packet][i].first <=> i = 1
                 /\ FrameOnLine[packet][i].whole = IF i = Len(FrameOnLine[packet]) THEN packet ELSE <<>>
<1>. DEFINE chars == Frame(packet)
            new == FrameOnLine[packet]
            x(i) == [char |-> chars[i], first |-> packet # <<>> /\ i = 1,
                     whole |-> IF i = Len(chars) THEN packet ELSE <<>>]
<1>1. new = OnLine(chars, packet)
  BY DEF FrameOnLine
<1>2. packet \in Tag /\ packet # <<>>
  BY PacketType DEF Tag
<1>3. new \in Seq(OnTheWay)
  BY <1>1, <1>2, FrameIs, OnLineIs
<1>4. chars \in Seq(Character) /\ 1 < Len(chars)
  <2>. DEFINE p == [escaped |-> FALSE, inpkt |-> FALSE, buf |-> <<>>, packets |-> <<>>, console |-> <<>>]
  <2>1. p \in Parser
    <3>. DEFINE e == <<>>
    <3>1. e \in Seq(Character) /\ e \in Seq(Packets) /\ e \in Seq(Code)
      OBVIOUS
    <3>2. p = [escaped |-> FALSE, inpkt |-> FALSE, buf |-> e, packets |-> e, console |-> e]
      OBVIOUS
    <3>. HIDE DEF e, p
    <3>. QED BY <3>1, <3>2 DEF Parser
  <2>. HIDE DEF p
  <2>. QED BY <2>1, FrameForm, FrameStarts
<1>. HIDE DEF chars, new
<1>5. DOMAIN chars = 1..Len(chars) /\ Len(chars) \in Nat
  BY <1>4
<1>6. new = [i \in 1..Len(chars) |-> x(i)]
  BY <1>1, <1>5 DEF OnLine
<1>7. DOMAIN new = 1..Len(chars) /\ \A i \in 1..Len(chars) : new[i] = x(i)
  BY <1>6
<1>8. Len(new) = Len(chars)
  <2>. DEFINE m == Len(chars)
              l == Len(new)
  <2>1. l \in Nat /\ DOMAIN new = 1..l
    BY <1>3
  <2>2. m \in Nat /\ 1..l = 1..m
    BY <1>5, <1>7, <2>1
  <2>. HIDE DEF l, m
  <2>3. l = m
    BY <2>1, <2>2
  <2>. QED BY <2>3 DEF l, m
<1>9. \A i \in 1..Len(chars) : /\ new[i].char = chars[i]
                               /\ new[i].first <=> i = 1
                               /\ new[i].whole = IF i = Len(chars) THEN packet ELSE <<>>
  <2>. SUFFICES ASSUME NEW i \in 1..Len(chars)
                PROVE  /\ new[i].char = chars[i]
                       /\ new[i].first <=> i = 1
                       /\ new[i].whole = IF i = Len(chars) THEN packet ELSE <<>>
    OBVIOUS
  <2>. DEFINE b == packet # <<>> /\ i = 1
              w == IF i = Len(chars) THEN packet ELSE <<>>
  <2>1. new[i] = [char |-> chars[i], first |-> b, whole |-> w]
    BY <1>7
  <2>2. b <=> i = 1
    BY <1>2
  <2>. HIDE DEF b, w
  <2>3. new[i].char = chars[i] /\ new[i].first = b /\ new[i].whole = w
    BY <2>1
  <2>. QED BY <2>2, <2>3 DEF w
<1>. QED
  BY <1>3, <1>4, <1>5, <1>7, <1>8, <1>9, Zenon DEF chars, new

\* What a framed line is at a place.
LEMMA FramedAt ==
    ASSUME NEW packet \in Packets, NEW ln \in Seq(OnTheWay), NEW a \in Int, Framed(ln, packet, a),
           NEW i \in 1..Len(ln)
    PROVE  /\ 1 <= a + Len(Frame(packet)) /\ a + Len(Frame(packet)) <= Len(ln)
           /\ i <= a => ln[i].whole = <<>>
           /\ a < i /\ i <= a + Len(Frame(packet)) =>
                 /\ i - a \in 1..Len(Frame(packet))
                 /\ ln[i].char = Frame(packet)[i - a]
                 /\ ln[i].first <=> i - a = 1
                 /\ ln[i].whole = IF i - a = Len(Frame(packet)) THEN packet ELSE <<>>
           /\ a + Len(Frame(packet)) < i => ln[i].whole = <<>> /\ ~ln[i].first /\ ln[i].char.k # "END"
<1>. DEFINE z == Len(Frame(packet))
<1>1. z = Len(FrameOnLine[packet]) /\ z \in Nat
  BY OnLineFrame
<1>2. i \in DOMAIN ln
  OBVIOUS
<1>. HIDE DEF z
<1>3. /\ 1 <= a + z /\ a + z <= Len(ln)
      /\ i <= a => ln[i].whole = <<>>
      /\ a < i /\ i <= a + z => ln[i] = FrameOnLine[packet][i - a]
      /\ a + z < i => ln[i].whole = <<>> /\ ~ln[i].first /\ ln[i].char.k # "END"
  BY <1>1, <1>2 DEF Framed
<1>4. a < i /\ i <= a + z => i - a \in 1..z
  BY <1>1
<1>5. \A m \in 1..z : /\ FrameOnLine[packet][m].char = Frame(packet)[m]
                      /\ FrameOnLine[packet][m].first <=> m = 1
                      /\ FrameOnLine[packet][m].whole = IF m = z THEN packet ELSE <<>>
  BY <1>1, OnLineFrame
<1>. QED
  BY <1>3, <1>4, <1>5 DEF z

LEMMA FrameParsed ==
    ASSUME NEW packet \in Packets, Len(packet) + 2 <= SLIP_MAX, NEW p \in Parser,
           NEW ln \in Seq(OnTheWay), NEW n \in 1..Len(ln), NEW a \in Int, Framed(ln, packet, a),
           a < 0 => Amid(p, packet, -a)
    PROVE  LET q == slip_parse_buf(p, [i \in 1..n |-> ln[i].char])
               end == a + Len(Frame(packet))
           IN  /\ a < n /\ n < end => Amid(q, packet, n - a)
               /\ end <= n => q.packets # <<>> /\ Last(q.packets) = packet
<1>. DEFINE chars == [i \in 1..n |-> ln[i].char]
            p0 == [p EXCEPT !.packets = <<>>, !.console = <<>>]
            q == FoldLeft(slip_parse_char, p0, chars)
            end == a + Len(Frame(packet))
<1>1. Len(ln) \in Nat /\ n \in Nat /\ \A i \in 1..Len(ln) : ln[i].char \in Character
  <2>1. \A i \in 1..Len(ln) : ln[i] \in OnTheWay
    OBVIOUS
  <2>. QED BY <2>1 DEF OnTheWay
<1>2. /\ chars \in Seq(Character) /\ Len(chars) = n
      /\ \A i \in 1..n : chars[i] = ln[i].char /\ chars[i] \in Character
  BY <1>1
<1>3. p0 \in Parser /\ p0.buf = p.buf /\ p0.inpkt = p.inpkt /\ p0.escaped = p.escaped
  <2>. DEFINE e == <<>>
  <2>1. e \in Seq(Packets) /\ e \in Seq(Code)
    OBVIOUS
  <2>. HIDE DEF e
  <2>2. p0 = [p EXCEPT !.packets = e, !.console = e]
    BY Zenon DEF e
  <2>. HIDE DEF p0
  <2>. QED BY <2>1, <2>2 DEF Parser
<1>4. a < 0 => Amid(p0, packet, -a)
  <2>. HIDE DEF p0
  <2>. QED BY <1>3 DEF Amid, HasTaken
<1>. HIDE DEF p0, chars
<1>5. PICK f : /\ f[0] = p0
               /\ \A k \in 1..n : f[k] = slip_parse_char(f[k - 1], chars[k])
               /\ q = f[n]
  BY <1>2, <1>3, ParsersOnTheWay
<1>6. end \in Int /\ 1 <= end /\ a < end
  <2>1. 1 \in 1..Len(ln)
    BY <1>1
  <2>2. 1 <= a + Len(Frame(packet))
    BY <2>1, FramedAt
  <2>3. Len(Frame(packet)) \in Nat /\ 1 < Len(Frame(packet))
    BY OnLineFrame
  <2>. QED BY <2>2, <2>3
<1>. HIDE DEF q
<1>. DEFINE HandedOn(g) == g.packets # <<>> /\ Last(g.packets) = packet
            Good(k) == /\ f[k] \in Parser
                       /\ a < k /\ k < end => Amid(f[k], packet, k - a)
                       /\ end <= k => HandedOn(f[k])
            U == {k \in Nat : k <= n => Good(k)}
<1>7. 0 \in U
  <2>1. a < 0 => 0 - a = -a
    OBVIOUS
  <2>2. ~(end <= 0)
    BY <1>6
  <2>3. Good(0)
    <3>. HIDE DEF end, HandedOn
    <3>. QED BY <1>3, <1>4, <1>5, <2>1, <2>2
  <2>. HIDE DEF Good
  <2>. QED BY <2>3
<1>8. \A k \in U : k + 1 \in U
  <2>. SUFFICES ASSUME NEW k \in Nat, k + 1 <= n, Good(k) PROVE Good(k + 1)
    BY <1>1
  <2>. DEFINE c == ln[k + 1].char
  <2>1. k + 1 \in 1..n /\ k + 1 \in 1..Len(ln) /\ (k + 1) - 1 = k
    BY <1>1
  <2>2. f[k + 1] = slip_parse_char(f[k], c)
    BY <1>2, <1>5, <2>1, Zenon
  <2>3. c \in Character /\ f[k] \in Parser
    BY <1>1, <2>1
  <2>4. /\ a < k + 1 /\ k + 1 <= end => c = Frame(packet)[(k + 1) - a]
        /\ end < k + 1 => c.k # "END"
    BY <2>1, FramedAt
  <2>5. /\ a < k /\ k < end => Amid(f[k], packet, k - a)
        /\ end <= k => HandedOn(f[k])
    OBVIOUS
  <2>. HIDE DEF c, Good
  <2>6. f[k + 1] \in Parser
    BY <2>2, <2>3, CharParsed
  <2>7. CASE k + 1 <= a
    <3>1. ~(a < k + 1) /\ ~(end <= k + 1)
      BY <1>6, <2>7
    <3>. QED BY <2>6, <3>1 DEF Good
  <2>8. CASE k = a
    <3>1. k + 1 <= end /\ a < k + 1 /\ (k + 1) - a = 1
      BY <1>6, <2>8
    <3>2. c = Frame(packet)[1]
      BY <2>4, <3>1
    <3>3. Amid(f[k + 1], packet, 1) /\ 1 < Len(Frame(packet))
      BY <2>2, <2>3, <3>2, FrameStarts
    <3>4. ~(end <= k + 1)
      BY <2>8, <3>3, OnLineFrame
    <3>. QED BY <2>6, <3>1, <3>3, <3>4 DEF Good
  <2>9. CASE a < k /\ k < end
    <3>. DEFINE r == k - a
    <3>1. r \in Nat /\ r < Len(Frame(packet)) /\ r + 1 = (k + 1) - a
          /\ k + 1 <= end /\ a < k + 1
          /\ (k + 1 < end <=> r + 1 < Len(Frame(packet)))
          /\ (end <= k + 1 => r + 1 = Len(Frame(packet)))
      <4>. DEFINE z == Len(Frame(packet))
      <4>1. z \in Nat
        BY OnLineFrame
      <4>. HIDE DEF z
      <4>2. end = a + z
        BY DEF z
      <4>. HIDE DEF end
      <4>. QED BY <2>9, <4>1, <4>2 DEF z
    <3>2. Amid(f[k], packet, r) /\ c = Frame(packet)[r + 1]
      BY <2>4, <2>5, <2>9, <3>1
    <3>. HIDE DEF r, HandedOn, end
    <3>. DEFINE g == f[k]
    <3>. HIDE DEF g
    <3>3. g \in Parser /\ Amid(g, packet, r) /\ f[k + 1] = slip_parse_char(g, Frame(packet)[r + 1])
      BY <2>2, <2>3, <3>2 DEF g
    <3>4. /\ r + 1 < Len(Frame(packet)) => Amid(f[k + 1], packet, r + 1)
          /\ r + 1 = Len(Frame(packet)) => f[k + 1].packets = Append(g.packets, packet)
      BY <3>1, <3>3, AmidStep
    <3>5. ASSUME r + 1 = Len(Frame(packet)) PROVE HandedOn(f[k + 1])
      <4>1. g.packets \in Seq(Packets)
        BY <3>3, ParserParts
      <4>2. f[k + 1].packets = Append(g.packets, packet)
        BY <3>4, <3>5
      <4>. DEFINE s == g.packets
                  t == f[k + 1].packets
      <4>. HIDE DEF s, t
      <4>3. t # <<>> /\ t[Len(t)] = packet
        BY <4>1, <4>2 DEF s, t
      <4>. QED BY <4>3 DEF HandedOn, Last, t
    <3>. QED BY <2>6, <3>1, <3>4, <3>5 DEF Good
  <2>10. CASE end <= k
    <3>1. HandedOn(f[k]) /\ ~(k + 1 < end) /\ end < k + 1
      BY <1>6, <2>5, <2>10
    <3>2. f[k + 1].packets = f[k].packets
      BY <2>2, <2>3, <2>4, <3>1, OnlyEndHandsOn
    <3>3. HandedOn(f[k + 1])
      BY <3>1, <3>2
    <3>. HIDE DEF HandedOn
    <3>. QED BY <2>6, <3>1, <3>3 DEF Good
  <2>11. k + 1 <= a \/ k = a \/ (a < k /\ k < end) \/ end <= k
    BY <1>6
  <2>. QED BY <2>7, <2>8, <2>9, <2>10, <2>11
<1>9. U = Nat
  <2>1. U \subseteq Nat
    OBVIOUS
  <2>. HIDE DEF U
  <2>. QED BY <1>7, <1>8, <2>1, Induction
<1>10. Good(n)
  <2>1. n \in U /\ n <= n
    BY <1>1, <1>9
  <2>. HIDE DEF Good
  <2>. QED BY <2>1
<1>11. /\ q \in Parser
       /\ a < n /\ n < end => Amid(q, packet, n - a)
       /\ end <= n => HandedOn(q)
  BY <1>5, <1>10
<1>. DEFINE r == [q EXCEPT !.console = @ \o Codes(q.buf), !.buf = <<>>]
            res == slip_parse_buf(p, chars)
<1>12. r.packets = q.packets
  BY <1>11 DEF Parser
<1>. HIDE DEF r
<1>13. res \in {q, r} /\ (q.inpkt => res = q)
  BY Zenon DEF slip_parse_buf, q, r, p0
<1>14. Amid(q, packet, n - a) => q.inpkt
  BY DEF Amid, HasTaken
<1>. HIDE DEF res, Good
<1>15. a < n /\ n < end => Amid(res, packet, n - a)
  BY <1>11, <1>13, <1>14
<1>16. res.packets = q.packets
  BY <1>12, <1>13
<1>17. end <= n => HandedOn(res)
  BY <1>11, <1>16
<1>. QED
  BY <1>15, <1>17 DEF res, chars

-----------------------------------------------------------------------------
(* What is under way is undamaged: an invariant *)

\* Text, or the frame of a packet, is put at the end of a line of text.
LEMMA LineOfText ==
    ASSUME NEW ln \in Seq(OnTheWay), \A i \in DOMAIN ln : ln[i].char.k \in Printable, WholeEnds(ln)
    PROVE  \A i \in DOMAIN ln : ln[i].whole = <<>>
<1>1. "END" \notin Printable
  BY SlipAssumption
<1>. QED
  BY <1>1 DEF WholeEnds

LEMMA FrameFollows ==
    ASSUME NEW packet \in Packets, NEW ln \in Seq(OnTheWay), NoneWhole(ln)
    PROVE  /\ Framed(ln \o FrameOnLine[packet], packet, Len(ln))
           /\ WholeEnds(ln \o FrameOnLine[packet])
<1>. DEFINE new == FrameOnLine[packet]
            both == ln \o new
            n == Len(ln)
            z == Len(new)
<1>1. /\ new \in Seq(OnTheWay) /\ z \in Nat /\ 1 < z /\ z = Len(Frame(packet))
      /\ \A i \in 1..z : /\ new[i].char = Frame(packet)[i]
                         /\ new[i].whole = IF i = z THEN packet ELSE <<>>
  BY OnLineFrame
<1>. HIDE DEF new
<1>2. /\ both \in Seq(OnTheWay) /\ Len(both) = n + z /\ n \in Nat
      /\ \A i \in 1..n : both[i] = ln[i]
      /\ \A i \in 1..z : both[n + i] = new[i]
  <2>1. new \in Seq(OnTheWay)
    BY <1>1
  <2>. QED BY <2>1, Concatenation
<1>3. DOMAIN ln = 1..n /\ DOMAIN both = 1..Len(both)
  BY <1>2
<1>. HIDE DEF both, n, z
<1>4. /\ \A i \in 1..n : both[i] = ln[i] /\ both[i].whole = <<>>
      /\ \A i \in 1..n + z : i > n => i - n \in 1..z /\ both[i] = new[i - n]
      /\ DOMAIN both = 1..n + z
  <2>1. \A i \in 1..n : both[i] = ln[i] /\ both[i].whole = <<>>
    BY <1>2, <1>3 DEF NoneWhole
  <2>2. ASSUME NEW i \in 1..n + z, i > n PROVE i - n \in 1..z /\ both[i] = new[i - n]
    <3>1. i - n \in 1..z /\ n + (i - n) = i
      BY <1>1, <1>2, <2>2
    <3>2. both[n + (i - n)] = new[i - n]
      BY <1>2, <3>1
    <3>. QED BY <3>1, <3>2
  <2>. QED BY <1>2, <1>3, <2>1, <2>2
<1>5. Framed(both, packet, n)
  <2>1. 1 <= n + z /\ n + z <= Len(both)
    BY <1>1, <1>2
  <2>2. \A i \in DOMAIN both : /\ i <= n => both[i].whole = <<>>
                               /\ n < i /\ i <= n + z => both[i] = new[i - n]
                               /\ ~(n + z < i)
    <3>1. \A i \in DOMAIN both : i \in 1..n + z /\ i \in Nat /\ i <= n + z /\ ~(n + z < i)
                                 /\ (i <= n => i \in 1..n) /\ (n < i => i > n)
      BY <1>1, <1>2, <1>4
    <3>. QED BY <1>4, <3>1
  <2>. QED BY <2>1, <2>2 DEF Framed, z, new
<1>6. WholeEnds(both)
  <2>. SUFFICES ASSUME NEW i \in DOMAIN both, both[i].whole # <<>> PROVE both[i].char.k = "END"
    BY DEF WholeEnds
  <2>1. i > n
    <3>1. ~(i \in 1..n)
      BY <1>4
    <3>. QED BY <1>1, <1>2, <1>4, <3>1
  <2>2. i - n \in 1..z /\ both[i] = new[i - n]
    BY <1>4, <2>1
  <2>3. i - n = z
    BY <1>1, <2>2
  <2>4. both[i].char = Frame(packet)[Len(Frame(packet))]
    BY <1>1, <2>2, <2>3
  <2>5. both[i].char = Char("END")
    BY <2>4, FrameForm
  <2>. QED BY <2>5 DEF Char
<1>. QED
  BY <1>5, <1>6 DEF both, n, new

\* Text is put at the end.
LEMMA TextFollows ==
    ASSUME NEW ln \in Seq(OnTheWay), NEW new \in Seq(OnTheWay), NEW p,
           \A i \in DOMAIN new : new[i].whole = <<>> /\ ~new[i].first /\ new[i].char.k # "END"
    PROVE  /\ Intact(ln, p) => Intact(ln \o new, p)
           /\ WholeEnds(ln) => WholeEnds(ln \o new)
<1>. DEFINE both == ln \o new
            n == Len(ln)
            z == Len(new)
<1>1. /\ both \in Seq(OnTheWay) /\ Len(both) = n + z /\ n \in Nat /\ z \in Nat
      /\ \A i \in 1..n : both[i] = ln[i]
      /\ \A i \in 1..z : both[n + i] = new[i]
  BY Concatenation
<1>2. DOMAIN ln = 1..n /\ DOMAIN new = 1..z /\ DOMAIN both = 1..Len(both)
  BY <1>1
<1>. HIDE DEF both, n, z
<1>3. \A i \in DOMAIN both : \/ i \in DOMAIN ln /\ i <= n /\ both[i] = ln[i]
                             \/ i > n /\ both[i].whole = <<>> /\ ~both[i].first /\ both[i].char.k # "END"
  <2>. SUFFICES ASSUME NEW i \in DOMAIN both, ~(i \in 1..n)
                PROVE  i > n /\ both[i].whole = <<>> /\ ~both[i].first /\ both[i].char.k # "END"
    BY <1>1, <1>2
  <2>1. i > n /\ i - n \in 1..z /\ n + (i - n) = i
    BY <1>1, <1>2
  <2>2. both[i] = new[i - n]
    BY <1>1, <2>1
  <2>. QED BY <1>2, <2>1, <2>2
<1>4. WholeEnds(ln) => WholeEnds(both)
  BY <1>3 DEF WholeEnds
<1>5. NoneWhole(ln) => NoneWhole(both)
  BY <1>3 DEF NoneWhole
<1>6. ASSUME NEW packet \in Packets, NEW a \in Int, Framed(ln, packet, a) PROVE Framed(both, packet, a)
  <2>. DEFINE f == Len(FrameOnLine[packet])
              g == FrameOnLine[packet]
  <2>1. f \in Nat
    BY OnLineFrame
  <2>. HIDE DEF f, g
  <2>2. /\ 1 <= a + f /\ a + f <= n
        /\ \A i \in DOMAIN ln :
              /\ i <= a => ln[i].whole = <<>>
              /\ a < i /\ i <= a + f => ln[i] = g[i - a]
              /\ a + f < i => ln[i].whole = <<>> /\ ~ln[i].first /\ ln[i].char.k # "END"
    BY <1>6 DEF Framed, f, n, g
  <2>3. a + f <= Len(both)
    BY <1>1, <2>1, <2>2
  <2>4. ASSUME NEW i \in DOMAIN both
        PROVE  /\ i <= a => both[i].whole = <<>>
               /\ a < i /\ i <= a + f => both[i] = g[i - a]
               /\ a + f < i => both[i].whole = <<>> /\ ~both[i].first /\ both[i].char.k # "END"
    <3>1. CASE i \in DOMAIN ln /\ i <= n /\ both[i] = ln[i]
      BY <2>2, <3>1
    <3>2. CASE i > n /\ both[i].whole = <<>> /\ ~both[i].first /\ both[i].char.k # "END"
      <4>1. ~(i <= a + f)
        BY <1>1, <1>2, <2>1, <2>2, <3>2
      <4>. QED BY <3>2, <4>1
    <3>. QED BY <1>3, <3>1, <3>2
  <2>. QED BY <2>2, <2>3, <2>4 DEF Framed, f, g
<1>7. Intact(ln, p) => Intact(both, p)
  BY <1>5, <1>6 DEF Intact
<1>. QED
  BY <1>4, <1>7 DEF both

\* What has not been sent is cut off.
LEMMA CutKeeps ==
    ASSUME NEW ln \in Seq(OnTheWay), NEW n \in 0..Len(ln), NEW p
    PROVE  /\ Intact(ln, p) => Intact(SubSeq(ln, 1, n), p)
           /\ WholeEnds(ln) => WholeEnds(SubSeq(ln, 1, n))
<1>. DEFINE new == SubSeq(ln, 1, n)
            m == Len(ln)
<1>1. m \in Nat /\ n \in Nat /\ n <= m /\ DOMAIN ln = 1..m
  BY LineParts
<1>2. Len(new) = n /\ DOMAIN new = 1..n /\ \A i \in 1..n : new[i] = ln[i] /\ i \in DOMAIN ln
  BY <1>1
<1>. HIDE DEF new, m
<1>3. WholeEnds(ln) => WholeEnds(new)
  BY <1>2 DEF WholeEnds
<1>4. NoneWhole(ln) => NoneWhole(new)
  BY <1>2 DEF NoneWhole
<1>5. ASSUME NEW packet \in Packets, NEW a \in Int, Framed(ln, packet, a)
      PROVE  Framed(new, packet, a) \/ NoneWhole(new)
  <2>. DEFINE z == Len(Frame(packet))
  <2>1. z \in Nat /\ z = Len(FrameOnLine[packet])
    BY OnLineFrame
  <2>. HIDE DEF z
  <2>2. CASE a + z <= n
    <3>. DEFINE g == FrameOnLine[packet]
    <3>1. 1 <= a + z /\ \A i \in 1..n :
              /\ i <= a => new[i].whole = <<>>
              /\ a < i /\ i <= a + z => new[i] = g[i - a]
              /\ a + z < i => new[i].whole = <<>> /\ ~new[i].first /\ new[i].char.k # "END"
      BY <1>2, <1>5, <2>1 DEF Framed
    <3>. QED BY <1>2, <2>1, <2>2, <3>1 DEF Framed
  <2>3. CASE ~(a + z <= n)
    <3>. SUFFICES ASSUME NEW i \in 1..n PROVE new[i].whole = <<>>
      BY <1>2 DEF NoneWhole
    <3>1. i \in 1..Len(ln) /\ i <= n /\ i < a + z /\ i - a # z
      BY <1>1, <2>1, <2>3 DEF m
    <3>2. /\ i <= a => ln[i].whole = <<>>
          /\ a < i /\ i <= a + z => ln[i].whole = IF i - a = z THEN packet ELSE <<>>
      BY <1>5, <3>1, FramedAt DEF z
    <3>3. ln[i].whole = <<>>
      BY <2>1, <3>1, <3>2
    <3>. QED BY <1>2, <3>3
  <2>. QED BY <2>2, <2>3
<1>6. Intact(ln, p) => Intact(new, p)
  BY <1>4, <1>5 DEF Intact
<1>. QED
  BY <1>3, <1>6 DEF new

\* A buffer is read; either the parser is amid the frame afterwards or it is past it.
LEMMA ReadKeeps ==
    ASSUME NEW ln \in Seq(OnTheWay), NEW n \in 1..Len(ln), NEW p \in Parser
    PROVE  LET rest == SubSeq(ln, n + 1, Len(ln))
               q == slip_parse_buf(p, [i \in 1..n |-> ln[i].char])
           IN  /\ WholeEnds(ln) => WholeEnds(rest)
               /\ Intact(ln, p) => Intact(rest, q)
<1>. DEFINE rest == SubSeq(ln, n + 1, Len(ln))
            q == slip_parse_buf(p, [i \in 1..n |-> ln[i].char])
            m == Len(ln)
<1>1. m \in Nat /\ n \in Nat /\ n <= m /\ 1 <= n /\ DOMAIN ln = 1..m
  BY LineParts
<1>2. /\ Len(rest) = m - n /\ DOMAIN rest = 1..m - n
      /\ \A i \in 1..m - n : rest[i] = ln[i + n] /\ i + n \in 1..m
  <2>1. Len(rest) = m - n /\ DOMAIN rest = 1..m - n
    <3>1. n + 1 \in Int /\ m \in Int /\ ln \in Seq(OnTheWay)
      BY <1>1
    <3>2. rest \in Seq(OnTheWay) /\ Len(rest) = IF n + 1 <= m THEN m - (n + 1) + 1 ELSE 0
      BY <1>1
    <3>. HIDE DEF rest, m
    <3>3. Len(rest) = m - n
      BY <1>1, <3>2
    <3>. QED BY <3>2, <3>3
  <2>2. \A i \in 1..m - n : rest[i] = ln[n + i]
    BY <1>1
  <2>3. \A i \in 1..m - n : i + n \in 1..m /\ n + i = i + n
    <3>. HIDE DEF m
    <3>. QED BY <1>1
  <2>. QED BY <2>1, <2>2, <2>3
<1>. HIDE DEF rest, m, q
<1>3. WholeEnds(ln) => WholeEnds(rest)
  BY <1>1, <1>2 DEF WholeEnds
<1>4. NoneWhole(ln) => NoneWhole(rest)
  BY <1>1, <1>2 DEF NoneWhole
<1>5. ASSUME NEW packet \in Packets, NEW a \in Int, Framed(ln, packet, a),
             a < 0 /\ Len(packet) + 2 <= SLIP_MAX => Amid(p, packet, -a)
      PROVE  Intact(rest, q)
  <2>. DEFINE z == Len(Frame(packet))
              g == FrameOnLine[packet]
  <2>1. z \in Nat /\ z = Len(g)
    BY OnLineFrame
  <2>. HIDE DEF z, g
  <2>2. /\ 1 <= a + z /\ a + z <= m
        /\ \A i \in 1..m :
              /\ i <= a => ln[i].whole = <<>>
              /\ a < i /\ i <= a + z => ln[i] = g[i - a]
              /\ a + z < i => ln[i].whole = <<>> /\ ~ln[i].first /\ ln[i].char.k # "END"
    BY <1>1, <1>5, <2>1 DEF Framed, g, m
  <2>3. CASE a + z <= n
    <3>1. \A i \in 1..m - n : a + z < i + n
      BY <1>1, <2>1, <2>3
    <3>. QED BY <1>2, <2>2, <3>1 DEF Intact, NoneWhole
  <2>4. CASE n < a + z
    <3>. DEFINE b == a - n
    <3>1. b \in Int /\ 1 <= b + z /\ b + z <= m - n /\ -b = n - a /\ (b < 0 <=> a < n)
      BY <1>1, <2>1, <2>2, <2>4
    <3>2. ASSUME NEW i \in 1..m - n
          PROVE  /\ i <= b => rest[i].whole = <<>>
                 /\ b < i /\ i <= b + z => rest[i] = g[i - b]
                 /\ b + z < i => rest[i].whole = <<>> /\ ~rest[i].first /\ rest[i].char.k # "END"
      <4>. DEFINE k == i + n
      <4>1. k \in 1..m /\ (i <= b <=> k <= a) /\ (b < i <=> a < k) /\ (i <= b + z <=> k <= a + z)
            /\ (b + z < i <=> a + z < k) /\ i - b = k - a
        BY <1>1, <2>1
      <4>2. rest[i] = ln[k]
        BY <1>2
      <4>. HIDE DEF k, b
      <4>. QED BY <2>2, <4>1, <4>2
    <3>. HIDE DEF b
    <3>3. Framed(rest, packet, b)
      BY <1>2, <2>1, <3>1, <3>2 DEF Framed, g
    <3>4. ASSUME b < 0, Len(packet) + 2 <= SLIP_MAX PROVE Amid(q, packet, -b)
      <4>1. a < 0 => Amid(p, packet, -a)
        BY <1>5, <3>4
      <4>2. a < n /\ n < a + Len(Frame(packet)) /\ n - a = -b
        BY <2>4, <3>1, <3>4 DEF z
      <4>3. Amid(q, packet, n - a)
        BY <1>5, <3>4, <4>1, <4>2, FrameParsed DEF q
      <4>. QED BY <4>2, <4>3
    <3>. QED BY <3>1, <3>3, <3>4 DEF Intact
  <2>. QED BY <1>1, <2>1, <2>3, <2>4
<1>6. Intact(ln, p) => Intact(rest, q)
  BY <1>4, <1>5 DEF Intact
<1>. QED
  BY <1>3, <1>6 DEF rest, q

LEMMA IntactInit == Init => IntactInv
<1>. SUFFICES ASSUME Init PROVE IntactInv
  OBVIOUS
<1>1. line = <<>>
  BY DEF Init
<1>. QED
  BY <1>1 DEF IntactInv, WholeEnds, Intact, NoneWhole

LEMMA IntactSends ==
    ASSUME CmdInv, IntactInv, NEW packet \in Packets, Sends(packet)
    PROVE  IntactInv'
<1>1. line \in Seq(OnTheWay) /\ WholeEnds(line)
  BY InvParts DEF IntactInv
<1>2. NoneWhole(line)
  <2>1. \A i \in DOMAIN line : line[i].char.k \in Printable
    BY DEF Sends
  <2>. QED BY <1>1, <2>1, LineOfText DEF NoneWhole
<1>3. line' = line \o FrameOnLine[packet]
  BY DEF Sends
<1>4. WholeEnds(line') /\ Framed(line', packet, Len(line))
  BY <1>1, <1>2, <1>3, FrameFollows
<1>5. Len(line) \in Int /\ ~(Len(line) < 0)
  BY <1>1
<1>6. Intact(line', parser')
  BY <1>4, <1>5 DEF Intact
<1>. QED
  BY <1>4, <1>6 DEF IntactInv

LEMMA SomethingSent ==
    ASSUME CmdInv, McuSyncs \/ McuCommands \/ McuErrs
    PROVE  \E packet \in Packets : Sends(packet)
<1>1. mcu.life \in DOMAIN Values
  <2>1. mcu.life \in Nat /\ troubles \in Nat /\ mcu.life + troubles <= Troubles /\ Troubles \in Nat
    BY InvParts, CmdAssumption
  <2>2. mcu.life \in 0..Troubles
    BY <2>1
  <2>. QED BY <2>2, CmdAssumption
<1>2. /\ <<"SYNC", Values[mcu.life]>> \in Packets /\ <<"MQTT_SETUP", Values[mcu.life]>> \in Packets
      /\ <<"STATUS", "zero">> \in Packets /\ OddPackets \subseteq Packets
      /\ \A name \in Names : <<"ADD_CB", Values[mcu.life], name>> \in Packets
  <2>. DEFINE v == Values[mcu.life]
  <2>1. v \in {Values[l] : l \in DOMAIN Values}
    BY <1>1
  <2>. HIDE DEF v
  <2>2. <<"SYNC", v>> \in Packets /\ <<"MQTT_SETUP", v>> \in Packets
        /\ <<"STATUS", "zero">> \in Packets /\ OddPackets \subseteq Packets
    BY <2>1 DEF Packets
  <2>3. \A name \in Names : <<"ADD_CB", v, name>> \in Packets
    BY <2>1 DEF Packets
  <2>. QED BY <2>2, <2>3 DEF v
<1>3. CASE McuSyncs
  BY <1>2, <1>3 DEF McuSyncs
<1>4. CASE McuCommands
  BY <1>2, <1>4, Zenon DEF McuCommands
<1>5. CASE McuErrs
  BY <1>2, <1>5 DEF McuErrs
<1>. QED BY <1>3, <1>4, <1>5

LEMMA IntactMcuSends ==
    CmdInv /\ IntactInv /\ (McuSyncs \/ McuCommands \/ McuErrs) => IntactInv'
BY SomethingSent, IntactSends

LEMMA IntactPrints == CmdInv /\ IntactInv /\ McuPrints => IntactInv'
<1>. SUFFICES ASSUME CmdInv, IntactInv, McuPrints PROVE IntactInv'
  OBVIOUS
<1>1. line \in Seq(OnTheWay) /\ parser' = parser /\ bad' = bad
  BY InvParts DEF McuPrints
<1>2. PICK k \in Printable, n \in {1, 3} : line' = line \o OnLine([i \in 1..n |-> Char(k)], <<>>)
  BY DEF McuPrints
<1>. DEFINE chars == [i \in 1..n |-> Char(k)]
            new == OnLine(chars, <<>>)
<1>3. n \in Nat /\ <<>> \in Tag /\ Char(k).k = k /\ k # "END" /\ k \in Code
  BY SlipAssumption DEF Tag, Char, Code
<1>4. chars \in Seq([k : Code, of : {<<>>, <<>>}]) /\ DOMAIN chars = 1..n
  <2>1. Char(k) \in [k : Code, of : {<<>>, <<>>}]
    BY <1>3 DEF Char
  <2>. QED BY <1>3, <2>1
<1>5. new \in Seq(OnTheWay)
  <2>. HIDE DEF chars
  <2>. QED BY <1>3, <1>4, OnLineIs
<1>6. \A i \in DOMAIN new : new[i].whole = <<>> /\ ~new[i].first /\ new[i].char.k # "END"
  <2>1. new = [i \in 1..n |-> [char |-> chars[i], first |-> <<>> # <<>> /\ i = 1,
                               whole |-> IF i = Len(chars) THEN <<>> ELSE <<>>]]
    BY <1>4 DEF OnLine
  <2>2. \A i \in 1..n : chars[i].k = k
    BY <1>3
  <2>. HIDE DEF chars, new
  <2>. QED BY <1>3, <2>1, <2>2
<1>. HIDE DEF new
<1>7. line' = line \o new
  BY <1>2 DEF new
<1>8. /\ Intact(line, parser) => Intact(line \o new, parser)
      /\ WholeEnds(line) => WholeEnds(line \o new)
  BY <1>1, <1>5, <1>6, TextFollows
<1>. QED
  BY <1>1, <1>7, <1>8 DEF IntactInv

LEMMA IntactCut == CmdInv /\ IntactInv /\ McuRestarts => IntactInv'
<1>. SUFFICES ASSUME CmdInv, IntactInv, McuRestarts PROVE IntactInv'
  OBVIOUS
<1>1. line \in Seq(OnTheWay) /\ parser' = parser /\ bad' = bad
  BY InvParts DEF McuRestarts
<1>2. PICK n \in 0..Len(line) : line' = SubSeq(line, 1, n)
  BY DEF McuRestarts
<1>. QED
  BY <1>1, <1>2, CutKeeps DEF IntactInv

\* A frame of which the first character is still on the line has all of it there.
LEMMA IntactEspRestarts == CmdInv /\ IntactInv /\ EspRestarts => IntactInv'
<1>. SUFFICES ASSUME CmdInv, IntactInv, EspRestarts PROVE IntactInv'
  OBVIOUS
<1>1. line' = line /\ line \in Seq(OnTheWay) /\ WholeEnds(line)
  BY InvParts DEF EspRestarts, IntactInv
<1>2. bad' = (bad \/ ~\E i \in DOMAIN line : line[i].first)
  BY DEF EspRestarts
<1>3. ASSUME ~bad' PROVE Intact(line, parser')
  <2>1. Intact(line, parser)
    BY <1>2, <1>3 DEF IntactInv
  <2>2. CASE NoneWhole(line)
    BY <2>2 DEF Intact
  <2>3. CASE ~NoneWhole(line)
    <3>1. PICK packet \in Packets, a \in Int : Framed(line, packet, a)
      BY <2>1, <2>3 DEF Intact
    <3>2. PICK i \in 1..Len(line) : line[i].first
      BY <1>1, <1>2, <1>3, LineParts
    <3>3. /\ a < i /\ i <= a + Len(Frame(packet)) => line[i].first <=> i - a = 1
          /\ ~(a + Len(Frame(packet)) < i)
      BY <1>1, <3>1, <3>2, FramedAt
    <3>4. ~(a < 0)
      <4>1. Len(Frame(packet)) \in Nat
        BY OnLineFrame
      <4>. QED BY <3>2, <3>3, <4>1
    <3>. QED BY <3>1, <3>4 DEF Intact
  <2>. QED BY <2>2, <2>3
<1>. QED
  BY <1>1, <1>3 DEF IntactInv

\* What is damaged is bad; there is no new whole frame.
LEMMA IntactDamage == CmdInv /\ IntactInv /\ Damage => IntactInv'
<1>. SUFFICES ASSUME CmdInv, IntactInv, Damage PROVE IntactInv'
  OBVIOUS
<1>1. line \in Seq(OnTheWay) /\ WholeEnds(line) /\ parser' = parser
  BY InvParts DEF Damage, IntactInv
<1>2. CASE line' = line /\ bad' = bad
  BY <1>1, <1>2 DEF IntactInv
<1>3. CASE bad' /\ \E i \in DOMAIN line : line' = RemoveAt(line, i)
  <2>. PICK i \in DOMAIN line : line' = RemoveAt(line, i)
    BY <1>3
  <2>. DEFINE b == SubSeq(line, 1, i - 1)
              c == SubSeq(line, i + 1, Len(line))
              m == Len(line)
  <2>1. line' = b \o c
    BY Zenon DEF RemoveAt
  <2>2. m \in Nat /\ i \in 1..m /\ DOMAIN line = 1..m
    BY <1>1
  <2>3. /\ b \in Seq(OnTheWay) /\ Len(b) = i - 1 /\ \A k \in 1..i - 1 : b[k] = line[k]
        /\ c \in Seq(OnTheWay) /\ Len(c) = m - i /\ \A k \in 1..m - i : c[k] = line[i + k]
    BY <1>1, <2>2
  <2>. HIDE DEF b, c, m
  <2>4. /\ b \o c \in Seq(OnTheWay) /\ Len(b \o c) = Len(b) + Len(c)
        /\ \A k \in 1..Len(b) : (b \o c)[k] = b[k]
        /\ \A k \in 1..Len(c) : (b \o c)[Len(b) + k] = c[k]
    <3>1. b \in Seq(OnTheWay) /\ c \in Seq(OnTheWay)
      BY <2>3
    <3>. QED BY <3>1, Concatenation
  <2>5. \A k \in DOMAIN (b \o c) : \E j \in DOMAIN line : (b \o c)[k] = line[j]
    <3>. DEFINE d == b \o c
    <3>. HIDE DEF d
    <3>0. DOMAIN d = 1..(i - 1) + (m - i)
      BY <2>3, <2>4 DEF d
    <3>. SUFFICES ASSUME NEW k \in DOMAIN d PROVE \E j \in DOMAIN line : d[k] = line[j]
      BY DEF d
    <3>1. CASE k < i
      <4>1. k \in 1..i - 1 /\ k \in 1..m
        BY <2>2, <3>0, <3>1
      <4>2. d[k] = line[k]
        BY <2>3, <2>4, <4>1 DEF d
      <4>. QED BY <2>2, <4>1, <4>2
    <3>2. CASE ~(k < i)
      <4>1. k - (i - 1) \in 1..m - i /\ (i - 1) + (k - (i - 1)) = k /\ i + (k - (i - 1)) \in 1..m
        BY <2>2, <3>0, <3>2
      <4>2. d[(i - 1) + (k - (i - 1))] = c[k - (i - 1)]
        BY <2>3, <2>4, <4>1 DEF d
      <4>3. d[k] = line[i + (k - (i - 1))]
        BY <2>3, <4>1, <4>2
      <4>. QED BY <2>2, <4>1, <4>3
    <3>. QED BY <3>1, <3>2
  <2>6. WholeEnds(line')
    BY <1>1, <2>1, <2>5 DEF WholeEnds
  <2>. QED BY <1>3, <2>6 DEF IntactInv
<1>4. CASE bad' /\ \E i \in DOMAIN line, k \in {"END", "ESC"} \cup Printable :
                     line' = [line EXCEPT ![i] = [char |-> Char(k), first |-> FALSE, whole |-> <<>>]]
  <2>. PICK i \in DOMAIN line, k \in {"END", "ESC"} \cup Printable :
          line' = [line EXCEPT ![i] = [char |-> Char(k), first |-> FALSE, whole |-> <<>>]]
    BY <1>4
  <2>. DEFINE d == [char |-> Char(k), first |-> FALSE, whole |-> <<>>]
  <2>1. d.whole = <<>>
    OBVIOUS
  <2>2. line' = [line EXCEPT ![i] = d]
    OBVIOUS
  <2>. HIDE DEF d
  <2>3. DOMAIN line' = DOMAIN line /\ \A j \in DOMAIN line : line'[j] = IF j = i THEN d ELSE line[j]
    BY <2>2
  <2>4. WholeEnds(line')
    BY <1>1, <2>1, <2>3 DEF WholeEnds
  <2>. QED BY <1>4, <2>4 DEF IntactInv
<1>. QED
  BY <1>2, <1>3, <1>4, Zenon DEF Damage

LEMMA IntactReads == CmdInv /\ IntactInv /\ serbridgeUartCb => IntactInv'
<1>. SUFFICES ASSUME CmdInv, IntactInv, serbridgeUartCb PROVE IntactInv'
  OBVIOUS
<1>1. PICK n \in 1..Len(line) :
         LET p == slip_parse_buf(parser, [i \in 1..n |-> line[i].char])
         IN  /\ IF n = Len(line) THEN UNCHANGED troubles ELSE Trouble
             /\ line' = SubSeq(line, n + 1, Len(line))
             /\ IF esp.programming
                THEN bad' = TRUE /\ UNCHANGED <<parser, esp, toMcu>>
                ELSE /\ parser' = p /\ Become(FoldLeft(cmdParsePacket, WithOut(esp), p.packets))
                     /\ UNCHANGED bad
             /\ UNCHANGED mcu
  BY Zenon DEF serbridgeUartCb
<1>. DEFINE rest == SubSeq(line, n + 1, Len(line))
            q == slip_parse_buf(parser, [i \in 1..n |-> line[i].char])
<1>2. line' = rest /\ (bad' \/ (bad' = bad /\ parser' = q))
  BY <1>1
<1>3. line \in Seq(OnTheWay) /\ parser \in Parser
  BY InvParts
<1>4. (WholeEnds(line) => WholeEnds(rest)) /\ (Intact(line, parser) => Intact(rest, q))
  BY <1>3, ReadKeeps
<1>. HIDE DEF rest, q
<1>. QED
  BY <1>2, <1>4 DEF IntactInv

LEMMA IntactStep == CmdInv /\ IntactInv /\ [Next]_vars => IntactInv'
<1>. SUFFICES ASSUME CmdInv, IntactInv, [Next]_vars PROVE IntactInv'
  OBVIOUS
<1>1. CASE WifiChanges \/ MqttEvent \/ Programs \/ McuReceives \/ UNCHANGED vars
  <2>1. line' = line /\ parser' = parser /\ bad' = bad
    BY <1>1 DEF WifiChanges, MqttEvent, Programs, McuReceives, vars
  <2>. QED BY <2>1 DEF IntactInv
<1>. QED
  BY <1>1, IntactReads, IntactMcuSends, IntactPrints, IntactCut, IntactEspRestarts, IntactDamage DEF Next

\* A buffer that is read up to n, and nothing else.
LEMMA IntactRead ==
    ASSUME CmdInv, IntactInv, [Next]_vars, NEW n \in DOMAIN line, NEW i \in 1..n,
           line[i].whole # <<>>, Len(line[i].whole) + 2 <= SLIP_MAX, ~bad, ReadUpTo(n)
    PROVE  parser'.packets # <<>> /\ Last(parser'.packets) = line[i].whole
<1>1. line \in Seq(OnTheWay) /\ parser \in Parser /\ mcu.life \in Nat
  BY InvParts
<1>. DEFINE m == Len(line)
<1>2. m \in Nat /\ n \in 1..m /\ DOMAIN line = 1..m /\ i \in 1..m /\ i <= n
  <2>1. m \in Nat /\ DOMAIN line = 1..m
    BY <1>1
  <2>. HIDE DEF m
  <2>. QED BY <2>1
<1>3. line' = SubSeq(line, n + 1, m) /\ ~bad' /\ mcu' = mcu
  BY DEF ReadUpTo
<1>4. \A k \in 1..m : Len(SubSeq(line, k + 1, m)) = m - k
  <2>. SUFFICES ASSUME NEW k \in 1..m PROVE Len(SubSeq(line, k + 1, m)) = m - k
    OBVIOUS
  <2>1. Len(SubSeq(line, k + 1, m)) = IF k + 1 <= m THEN m - (k + 1) + 1 ELSE 0
    BY <1>1, <1>2
  <2>. HIDE DEF m
  <2>. QED BY <1>2, <2>1
<1>5. Len(line') = m - n /\ Len(line') < m
  <2>1. Len(line') = m - n
    BY <1>2, <1>3, <1>4
  <2>. HIDE DEF m
  <2>. QED BY <1>2, <2>1
<1>6. line' # line
  BY <1>5
<1>7. serbridgeUartCb
  <2>1. ~(WifiChanges \/ MqttEvent \/ Programs \/ McuReceives \/ EspRestarts \/ UNCHANGED vars)
    BY <1>6 DEF WifiChanges, MqttEvent, Programs, McuReceives, EspRestarts, vars
  <2>2. ~Damage
    BY <1>3, <1>6, Zenon DEF Damage
  <2>3. ~McuRestarts
    <3>. SUFFICES ASSUME McuRestarts PROVE FALSE
      OBVIOUS
    <3>1. mcu' = [mcu EXCEPT !.life = @ + 1, !.inSync = FALSE] /\ mcu \in [life : Nat, inSync : BOOLEAN]
      BY InvParts DEF McuRestarts
    <3>2. mcu'.life = mcu.life + 1
      BY <3>1
    <3>. QED BY <1>1, <1>3, <3>2
  <2>4. ASSUME NEW new \in Seq(OnTheWay), line' = line \o new PROVE FALSE
    <3>1. Len(line') = m + Len(new) /\ Len(new) \in Nat
      BY <1>1, <2>4, Concatenation
    <3>. HIDE DEF m
    <3>. QED BY <1>2, <1>5, <3>1
  <2>5. ~McuPrints
    <3>. SUFFICES ASSUME McuPrints PROVE FALSE
      OBVIOUS
    <3>1. PICK k \in Printable, z \in {1, 3} : line' = line \o OnLine([j \in 1..z |-> Char(k)], <<>>)
      BY DEF McuPrints
    <3>2. <<>> \in Tag /\ k \in Code
      BY DEF Tag, Code
    <3>. DEFINE chars == [j \in 1..z |-> Char(k)]
    <3>3. chars \in Seq([k : Code, of : {<<>>, <<>>}])
      <4>1. Char(k) \in [k : Code, of : {<<>>, <<>>}]
        BY <3>2 DEF Char
      <4>. QED BY <4>1
    <3>. HIDE DEF chars
    <3>4. OnLine(chars, <<>>) \in Seq(OnTheWay)
      BY <3>2, <3>3, OnLineIs
    <3>. QED BY <2>4, <3>1, <3>4 DEF chars
  <2>6. ~(McuSyncs \/ McuCommands \/ McuErrs)
    <3>. SUFFICES ASSUME McuSyncs \/ McuCommands \/ McuErrs PROVE FALSE
      OBVIOUS
    <3>1. PICK packet \in Packets : Sends(packet)
      BY SomethingSent
    <3>2. line' = line \o FrameOnLine[packet] /\ FrameOnLine[packet] \in Seq(OnTheWay)
      BY <3>1, OnLineFrame DEF Sends
    <3>. QED BY <2>4, <3>2
  <2>. QED BY <2>1, <2>2, <2>3, <2>5, <2>6 DEF Next
<1>8. PICK k \in 1..m :
         /\ line' = SubSeq(line, k + 1, m)
         /\ bad' \/ parser' = slip_parse_buf(parser, [j \in 1..k |-> line[j].char])
  BY <1>7, Zenon DEF serbridgeUartCb
<1>9. k = n
  <2>1. Len(line') = m - k
    BY <1>4, <1>8
  <2>. HIDE DEF m
  <2>. QED BY <1>2, <1>5, <2>1
<1>. DEFINE q == slip_parse_buf(parser, [j \in 1..n |-> line[j].char])
<1>10. parser' = q
  BY <1>3, <1>8, <1>9
<1>11. Intact(line, parser) /\ ~NoneWhole(line)
  BY <1>2 DEF IntactInv, NoneWhole
<1>12. PICK packet \in Packets, a \in Int :
          /\ Framed(line, packet, a)
          /\ a < 0 /\ Len(packet) + 2 <= SLIP_MAX => Amid(parser, packet, -a)
  BY <1>11 DEF Intact
<1>. DEFINE z == Len(Frame(packet))
<1>13. /\ i <= a => line[i].whole = <<>>
       /\ a < i /\ i <= a + z => line[i].whole = IF i - a = z THEN packet ELSE <<>>
       /\ a + z < i => line[i].whole = <<>>
  BY <1>1, <1>2, <1>12, FramedAt
<1>14. z \in Nat
  BY OnLineFrame
<1>. HIDE DEF z
<1>15. i - a = z /\ line[i].whole = packet
  BY <1>2, <1>13, <1>14
<1>16. a + z <= n
  BY <1>2, <1>14, <1>15
<1>17. n \in 1..Len(line) /\ (a < 0 => Amid(parser, packet, -a)) /\ Len(packet) + 2 <= SLIP_MAX
  BY <1>2, <1>12, <1>15
<1>18. q.packets # <<>> /\ Last(q.packets) = packet
  <2>. HIDE DEF q
  <2>. QED BY <1>1, <1>12, <1>16, <1>17, FrameParsed DEF q, z
<1>. QED
  BY <1>10, <1>15, <1>18

-----------------------------------------------------------------------------

(* Whatever is lost, damaged or restarted, for every packet length, table   *)
(* and number of callbacks: as soon as the MCU has been in sync the table   *)
(* of handlers.c holds a wifiCb for cmdWifiCb to find, holds nothing that   *)
(* was registered before the last SYNC it took, and every name once.        *)
THEOREM CallbackTableHolds == Spec => []CallbackTable
<1>. QED
  BY CmdInit, CmdStep, InvShowsTable, PTL DEF Spec

(* For every packet length, table and number of troubles: a packet whose    *)
(* frame has come over the line undamaged is handed on with the buffer that *)
(* its last character is in, whatever the parser was left with by what came *)
(* before it.                                                               *)
THEOREM IntactExecutedHolds == Spec => IntactExecuted
<1>1. CmdInv /\ IntactInv /\ [Next]_vars =>
        [\A n \in DOMAIN line : \A i \in 1..n :
            LET content == line[i].whole IN
            /\ content # <<>> /\ Len(content) + 2 <= SLIP_MAX
            /\ ~bad /\ ReadUpTo(n)
            => parser'.packets # <<>> /\ Last(parser'.packets) = content]_vars
  BY IntactRead
<1>. QED
  BY <1>1, CmdInit, CmdStep, IntactInit, IntactStep, PTL DEF Spec, IntactExecuted
=============================================================================
