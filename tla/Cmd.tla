-------------------------------- MODULE Cmd --------------------------------
(***************************************************************************)
(* cmd/cmd.c and cmd/handlers.c: the microcontroller (MCU) sends commands  *)
(* in SLIP packets over a serial line that may damage them, gets in sync   *)
(* with the ESP, which forgets everything when it restarts, and registers  *)
(* callbacks, which it forgets when it restarts itself.  A callback is a   *)
(* number in which the ESP sees no meaning; here it tells in which life of *)
(* the MCU it was registered.                                              *)
(*                                                                         *)
(* The MCU is modelled as the client library for this protocol behaves: it *)
(* sends a SYNC until it is answered, and again when it is asked to.       *)
(* What the ESP sends is modelled as messages.  The other commands differ  *)
(* from those here in what they answer and not in how they are dispatched. *)
(***************************************************************************)
EXTENDS Slip

CONSTANTS
    MAX_CALLBACKS, \* places in the table of callbacks
    Names,         \* names of callbacks the MCU registers, apart from wifiCb
    LineMax,       \* bound on the characters and on the messages under way
    Troubles,      \* bound on the restarts, damages and odd packets
    Values         \* Values[life] is the code of the callbacks of a life

ASSUME CmdAssumption ==
    /\ MAX_CALLBACKS \in Nat \ {0} /\ LineMax \in Nat /\ Troubles \in Nat
    /\ DOMAIN Values = 0..Troubles
    /\ \A l, m \in DOMAIN Values : Values[l] # "zero" /\ (Values[l] = Values[m] => l = m)
    \* The second byte of a command's number is zero: no packet begins as text.
    /\ {"SYNC", "ADD_CB", "STATUS", "MQTT_SETUP"} \cap Printable = {}

VARIABLES
    line,     \* characters on their way to the ESP, the last of a frame with its packet
    parser,   \* the state of slip.c
    esp,      \* the static variables of handlers.c and mqtt_cmd.c
    toMcu,    \* messages on their way to the MCU
    mcu,      \* its life, and whether it is in sync
    bad,      \* history: the frame on the line has been damaged or not been seen by the parser
    troubles  \* how much trouble there still may be

vars == <<line, parser, esp, toMcu, mcu, bad, troubles>>

OddPackets == {<<"SYNC", "zero">>, <<"ADD_CB", "zero", "x">>, <<"STATUS">>, <<"STATUS", "zero", "x", "x">>}
Packets ==
    {<<"SYNC", v>> : v \in {Values[l] : l \in DOMAIN Values}} \cup {<<"STATUS", "zero">>}
    \cup {<<"ADD_CB", v, name>> : v \in {Values[l] : l \in DOMAIN Values}, name \in Names}
    \cup {<<"MQTT_SETUP", v>> : v \in {Values[l] : l \in DOMAIN Values}} \cup OddPackets

NoLife == -1
LifeOf(value) == CHOOSE l \in DOMAIN Values : Values[l] = value
Boot == [cmdInSync |-> FALSE, callbacks |-> <<>>, wifiCbAdded |-> FALSE, lastWifiStatus |-> 0,
         wifiState |-> 0, mqttCb |-> NoLife, programming |-> FALSE, synced |-> NoLife]

Respond(e, cmd, value) == [e EXCEPT !.out = Append(@, [cmd |-> cmd, value |-> value])]

-----------------------------------------------------------------------------
(* The handlers: e is esp together with what it sends *)

cmdAddCb(e, name, cb) ==
    LET known == {i \in DOMAIN e.callbacks : e.callbacks[i].name = name}
    IN  CASE known # {} -> [e EXCEPT !.callbacks =
                              [i \in DOMAIN @ |-> IF i \in known THEN [name |-> name, cb |-> cb] ELSE @[i]]]
          [] known = {} /\ Len(e.callbacks) < MAX_CALLBACKS ->
                [e EXCEPT !.callbacks = Append(@, [name |-> name, cb |-> cb])]
          [] OTHER -> e

cmdGetCbByName(e, name) ==
    LET found == {i \in DOMAIN e.callbacks : e.callbacks[i].name = name}
    IN  IF found = {} THEN NoLife ELSE e.callbacks[CHOOSE i \in found : TRUE].cb

\* Tell the MCU, if it does not know.
cmdWifiCb(e) ==
    IF e.wifiState = e.lastWifiStatus THEN e
    ELSE Respond([e EXCEPT !.lastWifiStatus = e.wifiState], "RESP_CB", cmdGetCbByName(e, "wifiCb"))

\* Mutant: the callbacks are kept.
cmdSyncKeeps(e, value) ==
    IF value = "zero" THEN Respond(e, "RESP_V", NoLife)
    ELSE LET q == Respond([e EXCEPT !.wifiCbAdded = TRUE], "RESP_V", LifeOf(value))
         IN  cmdWifiCb([cmdAddCb([q EXCEPT !.cmdInSync = TRUE, !.synced = LifeOf(value)],
                                 "wifiCb", LifeOf(value)) EXCEPT !.lastWifiStatus = 255])

cmdSync(e, value) ==
    IF value = "zero" THEN Respond(e, "RESP_V", NoLife)
    ELSE LET q == Respond([e EXCEPT !.callbacks = <<>>, !.wifiCbAdded = TRUE], "RESP_V", LifeOf(value))
         IN  cmdWifiCb([cmdAddCb([q EXCEPT !.cmdInSync = TRUE, !.synced = LifeOf(value)],
                                 "wifiCb", LifeOf(value)) EXCEPT !.lastWifiStatus = 255])

\* A new set of callbacks replaces the old one, and one of them is called.
MQTTCMD_Setup(e, value) ==
    LET q == [e EXCEPT !.mqttCb = LifeOf(value)]
    IN  IF e.programming THEN q ELSE Respond(q, "RESP_CB", q.mqttCb)

\* Without a value or with the wrong number of arguments it is ignored.
cmdAddCallback(e, content) ==
    IF Len(content) # 3 \/ content[2] = "zero" THEN e
    ELSE cmdAddCb(e, content[3], LifeOf(content[2]))

\* One of the commands that answer and change nothing.
cmdWifiStatus(e) == Respond(e, "RESP_V", NoLife)

cmdExec(e, content) ==
    CASE content[1] = "SYNC"       -> cmdSync(e, content[2])
      [] content[1] = "ADD_CB"     -> cmdAddCallback(e, content)
      [] content[1] = "STATUS"     -> cmdWifiStatus(e)
      [] content[1] = "MQTT_SETUP" -> MQTTCMD_Setup(e, content[2])
      [] OTHER                     -> e

\* Mutant: nothing is said to an MCU the ESP is not in sync with.
cmdParsePacketSilent(e, content) ==
    IF Len(content) < 2 \/ (~e.cmdInSync /\ content[1] # "SYNC") THEN e ELSE cmdExec(e, content)

\* Out of sync the ESP asks for a SYNC.
cmdParsePacket(e, content) ==
    CASE Len(content) < 2                       -> e
      [] Len(content) >= 2 /\ ~e.cmdInSync /\ content[1] # "SYNC" -> Respond(e, "SYNC", NoLife)
      [] OTHER                                  -> cmdExec(e, content)

-----------------------------------------------------------------------------
(* Actions of the ESP *)

Trouble == troubles > 0 /\ troubles' = troubles - 1

WithOut(e) == [f \in DOMAIN e \cup {"out"} |-> IF f \in DOMAIN e THEN e[f] ELSE <<>>]
Become(e) ==
    /\ esp' = [f \in DOMAIN esp |-> e[f]]
    /\ toMcu' = toMcu \o e.out

\* A buffer of characters arrives: all there are, or some of them.
\* A programmer takes them from the parser.
serbridgeUartCb ==
    \E n \in 1..Len(line) :
        LET chars == [i \in 1..n |-> line[i].char]
            p == slip_parse_buf(parser, chars)
        IN  /\ IF n = Len(line) THEN UNCHANGED troubles ELSE Trouble
            /\ line' = SubSeq(line, n + 1, Len(line))
            /\ IF esp.programming
               THEN bad' = TRUE /\ UNCHANGED <<parser, esp, toMcu>>
               ELSE /\ parser' = p /\ Become(FoldLeft(cmdParsePacket, WithOut(esp), p.packets))
                    /\ UNCHANGED bad
            /\ UNCHANGED mcu

\* A change of the Wi-Fi state is told to whoever has registered for it.
WifiChanges ==
    /\ Len(toMcu) < LineMax
    /\ LET e == [WithOut(esp) EXCEPT !.wifiState = 5 - @]
       IN  Become(IF esp.wifiCbAdded THEN cmdWifiCb(e) ELSE e)
    /\ UNCHANGED <<line, parser, mcu, bad, troubles>>

\* cmdMqttConnectedCb, cmdMqttDisconnectedCb, cmdMqttPublishedCb, cmdMqttDataCb
MqttEvent ==
    /\ Len(toMcu) < LineMax
    /\ esp.mqttCb # NoLife /\ ~esp.programming
    /\ Become(Respond(WithOut(esp), "RESP_CB", esp.mqttCb))
    /\ UNCHANGED <<line, parser, mcu, bad, troubles>>

\* The ESP restarts; what it was sending is cut off.
EspRestarts ==
    /\ Trouble
    /\ esp' = Boot /\ parser' = NewParser
    /\ \E n \in 0..Len(toMcu) : toMcu' = SubSeq(toMcu, 1, n)
    /\ bad' = (bad \/ ~\E i \in DOMAIN line : line[i].first)
    /\ UNCHANGED <<line, mcu>>

\* A programmer takes over, or is done.
Programs ==
    /\ IF esp.programming THEN UNCHANGED troubles ELSE Trouble
    /\ esp' = [esp EXCEPT !.programming = ~@]
    /\ UNCHANGED <<line, parser, toMcu, mcu, bad>>

-----------------------------------------------------------------------------
(* The MCU and the line *)

\* A frame is sent when there is nothing under way but text.  Its last
\* character tells what the whole was.
OnLine(chars, whole) ==
    [i \in DOMAIN chars |-> [char |-> chars[i], first |-> whole # <<>> /\ i = 1,
                             whole |-> IF i = Len(chars) THEN whole ELSE <<>>]]
FrameOnLine == [packet \in Packets |-> OnLine(Frame(packet), packet)]
Sends(packet) ==
    /\ \A i \in DOMAIN line : line[i].char.k \in Printable
    /\ line' = line \o FrameOnLine[packet]
    /\ bad' = FALSE
    /\ UNCHANGED <<parser, esp, mcu>>

McuSyncs ==
    /\ ~mcu.inSync /\ toMcu = <<>>
    /\ Sends(<<"SYNC", Values[mcu.life]>>)
    /\ UNCHANGED <<toMcu, troubles>>

McuCommands ==
    /\ mcu.inSync /\ Len(toMcu) < LineMax
    /\ \/ \E name \in Names : Sends(<<"ADD_CB", Values[mcu.life], name>>)
       \/ Sends(<<"STATUS", "zero">>)
       \/ Sends(<<"MQTT_SETUP", Values[mcu.life]>>)
    /\ UNCHANGED <<toMcu, troubles>>

\* A packet without a callback, one that is too short, one that is too long.
McuErrs ==
    /\ Trouble
    /\ \E packet \in OddPackets : Sends(packet)
    /\ UNCHANGED toMcu

McuPrints ==
    /\ Trouble
    /\ \E k \in Printable, n \in {1, 3} : line' = line \o OnLine([i \in 1..n |-> Char(k)], <<>>)
    /\ UNCHANGED <<parser, esp, toMcu, mcu, bad>>

McuReceives ==
    /\ toMcu # <<>> /\ toMcu' = Tail(toMcu)
    /\ mcu' = [mcu EXCEPT !.inSync =
                 CASE Head(toMcu).cmd = "SYNC"   -> FALSE
                   [] Head(toMcu).cmd = "RESP_V" -> @ \/ Head(toMcu).value = mcu.life
                   [] OTHER                      -> @]
    /\ UNCHANGED <<line, parser, esp, bad, troubles>>

\* What it has not sent yet is never sent.
McuRestarts ==
    /\ Trouble
    /\ mcu' = [mcu EXCEPT !.life = @ + 1, !.inSync = FALSE]
    /\ \E n \in 0..Len(line) : line' = SubSeq(line, 1, n)
    /\ UNCHANGED <<parser, esp, toMcu, bad>>

\* A character is lost or becomes another, which is of no frame, or a
\* message is lost.
Damage ==
    /\ Trouble
    /\ \/ /\ toMcu # <<>> /\ toMcu' = Tail(toMcu) /\ UNCHANGED <<line, bad>>
       \/ \E i \in DOMAIN line :
             /\ line' = RemoveAt(line, i)
                \/ \E k \in {"END", "ESC"} \cup Printable :
                      line' = [line EXCEPT ![i] = [char |-> Char(k), first |-> FALSE, whole |-> <<>>]]
             /\ bad' = TRUE
             /\ UNCHANGED toMcu
    /\ UNCHANGED <<parser, esp, mcu>>

Init ==
    /\ line = <<>> /\ parser = NewParser /\ esp = Boot /\ toMcu = <<>>
    /\ mcu = [life |-> 0, inSync |-> FALSE]
    /\ bad = FALSE /\ troubles = Troubles

Next ==
    \/ serbridgeUartCb \/ WifiChanges \/ MqttEvent \/ EspRestarts \/ Programs
    \/ McuSyncs \/ McuCommands \/ McuErrs \/ McuPrints \/ McuReceives \/ McuRestarts
    \/ Damage

Spec == Init /\ [][Next]_vars

\* serbridgeUartCb, as far as the line goes
Arrive == \E n \in 1..Len(line) : line' = SubSeq(line, n + 1, Len(line))

\* Characters and messages arrive; the MCU wants to be in sync and has
\* commands to send; programming comes to an end.
FairSpec ==
    /\ Spec
    /\ WF_line(Arrive) /\ WF_vars(McuReceives)
    /\ SF_vars(McuSyncs) /\ SF_vars(McuCommands)
    /\ WF_vars(esp.programming /\ Programs)

-----------------------------------------------------------------------------
(* Properties *)

(* Every packet that reaches the ESP undamaged is executed with the buffer *)
(* its last character is in, whatever came before it or comes with it:     *)
(* cut-off or damaged packets, text, restarts of either side.              *)
ReadUpTo(n) == line' = SubSeq(line, n + 1, Len(line)) /\ ~bad' /\ UNCHANGED mcu
IntactExecuted ==
    [][\A n \in DOMAIN line : \A i \in 1..n :
          LET content == line[i].whole IN
          /\ content # <<>> /\ Len(content) + 2 <= SLIP_MAX
          /\ ~bad /\ ReadUpTo(n)
          => parser'.packets # <<>> /\ Last(parser'.packets) = content]_vars

(* As soon as the MCU has been in sync there is a wifiCb for cmdWifiCb to   *)
(* find, however many callbacks are registered; and every callback in the  *)
(* table is of the life of the MCU that was in sync last, or a later one.  *)
CallbackTable ==
    /\ esp.wifiCbAdded => cmdGetCbByName(esp, "wifiCb") # NoLife
    /\ \A i \in DOMAIN esp.callbacks : esp.callbacks[i].cb >= esp.synced
    /\ \A i, j \in DOMAIN esp.callbacks : esp.callbacks[i].name = esp.callbacks[j].name => i = j

(* However the two restart and whatever is lost, they get in sync again.   *)
InSync == esp.cmdInSync /\ mcu.inSync
Resyncs == ~InSync ~> InSync
=============================================================================
