------------------------------- MODULE Telnet -------------------------------
(***************************************************************************)
(* telnetUnwrap of serial/serbridge.c: the telnet state machine through    *)
(* which a connection in telnet mode sends characters, sets the baud rate  *)
(* and drives the reset and ISP pins of the microcontroller.               *)
(*                                                                         *)
(* A machine is a record of the connection's telnet_state, of the static   *)
(* variables all connections share (baud, the bytes of the rate so far;    *)
(* flashing, which is in_mcu_flashing), of the pins, of what came out so   *)
(* far (out) and of the responses to the client.  Bytes are named by their *)
(* macros.  What the data size, parity and break commands write to the     *)
(* configuration or to the UART's registers is left out.                   *)
(***************************************************************************)
EXTENDS Integers, Sequences

CONSTANTS
    Bytes,        \* what a byte from a client may be
    FlashingMax   \* in_mcu_flashing is counted modulo FlashingMax + 1

\* The bytes the protocol gives a meaning.
Macros ==
    {"IAC", "SB", "SE", "WILL", "DO", "DONT", "ComPort", "SetControl", "SetBaud", "SetDataSize",
     "value", "zero", "hi", "mid", "lo", "x"}

ASSUME TelnetAssumption == FlashingMax \in Nat /\ Macros \subseteq Bytes

Commands == {"DTR_ON", "DTR_OFF", "RTS_ON", "RTS_OFF"}

\* The settings whose command is followed by one byte.
Settings == {"SetDataSize", "SetParity", "PurgeData"}

\* Characters are written, a pin is set, a rate is set: one element of out.
Does(m, what) == [m EXCEPT !.out = Append(@, what)]
Answers(m, bytes) == [m EXCEPT !.responses = @ \o bytes]

Normal(m, c) == IF c = "IAC" THEN [m EXCEPT !.state = "iac"] ELSE Does(m, <<c>>)

\* Mutant: the second of two escapes is not written.
AfterIacSwallows(m, c) ==
    CASE c = "IAC"  -> [m EXCEPT !.state = "normal"]
      [] c = "WILL" -> [m EXCEPT !.state = "will"]
      [] c = "SB"   -> [m EXCEPT !.state = "start"]
      [] c = "SE"   -> [m EXCEPT !.state = "normal"]
      [] OTHER      -> Does(m, <<"IAC", c>>)

\* What is not known is passed on, and the state kept.
AfterIac(m, c) ==
    CASE c = "IAC"  -> Does([m EXCEPT !.state = "normal"], <<c>>)
      [] c = "WILL" -> [m EXCEPT !.state = "will"]
      [] c = "SB"   -> [m EXCEPT !.state = "start"]
      [] c = "SE"   -> [m EXCEPT !.state = "normal"]
      [] OTHER      -> Does(m, <<"IAC", c>>)

AfterWill(m, c) ==
    Answers([m EXCEPT !.state = "normal"],
            <<"IAC", IF c = "ComPort" THEN "DO" ELSE "DONT", c>>)

ComPort(m, c) ==
    CASE c = "SetControl" -> [m EXCEPT !.state = "setControl"]
      [] c = "SetBaud"    -> [m EXCEPT !.state = "setBaud", !.baud = <<>>]
      [] c \in Settings   -> [m EXCEPT !.state = c]
      [] OTHER            -> [m EXCEPT !.state = "end"]

\* A zero asks for the setting, which is answered under one name.
Setting(m, c) ==
    LET q == [m EXCEPT !.state = "end"]
    IN  IF c = "zero" /\ m.state # "PurgeData"
        THEN Answers(q, <<"IAC", "SB", "ComPort", "SetDataSize", "value", "IAC", "SE">>) ELSE q

\* Switch a control line; RTS also says that the microcontroller is flashed.
SetControl(m, c) ==
    LET n == CASE c = "RTS_ON"  -> (m.flashing + 1) % (FlashingMax + 1)
               [] c = "RTS_OFF" -> IF m.flashing > 0 THEN m.flashing - 1 ELSE 0
               [] OTHER         -> m.flashing
        p == CASE c = "DTR_ON"  -> [m.pins EXCEPT !.reset = 0]
               [] c = "DTR_OFF" -> [m.pins EXCEPT !.reset = 1]
               [] c = "RTS_ON"  -> [m.pins EXCEPT !.isp = 0]
               [] c = "RTS_OFF" -> [m.pins EXCEPT !.isp = 1]
               [] OTHER         -> m.pins
        q == [m EXCEPT !.state = "end", !.flashing = n, !.pins = p]
    IN  CASE c \in Commands -> Does(q, <<c>>)
          [] c = "BRK_REQ"  -> Answers(q, <<"IAC", "SB", "ComPort", c, "value", "IAC", "SE">>)
          [] OTHER          -> q

\* Four bytes are a rate, which is set if it is a sensible one.  Zero asks for
\* the rate, and is answered under another name.
SetBaud(m, c) ==
    LET rate == Append(m.baud, c)
        q    == [m EXCEPT !.baud = rate]
        done == [q EXCEPT !.state = "end"]
    IN  CASE Len(rate) < 4                      -> q
          [] Len(rate) >= 4 /\ rate[1] = "bad"  -> done
          [] Len(rate) >= 4 /\ rate[1] = "zero" ->
                Answers(done, <<"IAC", "SB", "ComPort", "SetDataSize">> \o rate \o <<"IAC", "SE">>)
          [] OTHER                              -> Does(done, rate)

telnetChar(m, c) ==
    CASE m.state = "normal"     -> Normal(m, c)
      [] m.state = "iac"        -> AfterIac(m, c)
      [] m.state = "will"       -> AfterWill(m, c)
      [] m.state = "start"      -> [m EXCEPT !.state = IF c = "ComPort" THEN "comPort" ELSE "end"]
      [] m.state = "end"        -> IF c = "IAC" THEN [m EXCEPT !.state = "iac"] ELSE m
      [] m.state = "comPort"    -> ComPort(m, c)
      [] m.state \in Settings   -> Setting(m, c)
      [] m.state = "setControl" -> SetControl(m, c)
      [] m.state = "setBaud"    -> SetBaud(m, c)

telnetUnwrap(m, data) ==
    LET after[n \in 0..Len(data)] == IF n = 0 THEN m ELSE telnetChar(after[n - 1], data[n])
    IN  after[Len(data)]

-----------------------------------------------------------------------------
(* The language of a client that escapes what must be escaped: an item is   *)
(* a character, an announcement, a control line, or a baud rate.  Sent is   *)
(* what goes over the network for it, Meant what it does.                   *)

Items == [kind : {"char", "will", "control", "baud", "setting", "option"}, arg : Bytes]

Rate(r) == <<r, "hi", "mid", "lo">>

Sub(bytes) == <<"IAC", "SB">> \o bytes \o <<"IAC", "SE">>

Sent(item) ==
    CASE item.kind = "char"    -> IF item.arg = "IAC" THEN <<"IAC", "IAC">> ELSE <<item.arg>>
      [] item.kind = "will"    -> <<"IAC", "WILL", item.arg>>
      [] item.kind = "control" -> Sub(<<"ComPort", "SetControl", item.arg>>)
      [] item.kind = "baud"    -> Sub(<<"ComPort", "SetBaud">> \o Rate(item.arg))
      [] item.kind = "setting" -> Sub(<<"ComPort", item.arg, "zero">>)
      [] item.kind = "option"  -> Sub(<<item.arg, "x">>)

Meant(item) ==
    CASE item.kind = "char"                                -> <<<<item.arg>>>>
      [] item.kind = "control" /\ item.arg \in Commands    -> <<<<item.arg>>>>
      [] item.kind = "baud" /\ item.arg \notin {"bad", "zero"} -> <<Rate(item.arg)>>
      [] OTHER                                             -> <<>>
=============================================================================
