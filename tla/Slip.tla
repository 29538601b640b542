-------------------------------- MODULE Slip --------------------------------
(***************************************************************************)
(* The packets of serial/slip.c, and their encoding by cmd/cmd.c.  A       *)
(* packet is framed by SLIP_END characters and protected by a CRC; between *)
(* packets the microcontroller may print, and what starts with two         *)
(* printable characters is passed on to the console.                       *)
(*                                                                         *)
(* A character is a record of its code k; the two characters of a CRC also *)
(* say what it is the CRC of, so that a CRC is right for one content only. *)
(* Escaping is done by name: an escaped END is the two codes ESC, ESC_END. *)
(***************************************************************************)
EXTENDS Integers, Sequences, SequencesExt

CONSTANTS
    SLIP_MAX,  \* length of the longest packet, CRC included
    Printable  \* the codes of the printable characters

ASSUME SlipAssumption ==
    /\ SLIP_MAX \in Nat /\ SLIP_MAX > 2
    /\ Printable \cap {"END", "ESC", "ESC_END", "ESC_ESC", "lo", "hi"} = {}

Char(k) == [k |-> k, of |-> <<>>]
CRC(content) == <<[k |-> "lo", of |-> content], [k |-> "hi", of |-> content]>>

\* cmdProtoWrite
Escaped(c) ==
    CASE c.k = "END" -> <<Char("ESC"), Char("ESC_END")>>
      [] c.k = "ESC" -> <<Char("ESC"), Char("ESC_ESC")>>
      [] OTHER       -> <<c>>

\* cmdResponseStart, cmdResponseBody and cmdResponseEnd
Frame(content) ==
    LET packet == [i \in DOMAIN content |-> Char(content[i])] \o CRC(content)
    IN  <<Char("END")>> \o FlattenSeq([i \in DOMAIN packet |-> Escaped(packet[i])]) \o <<Char("END")>>

-----------------------------------------------------------------------------
(* The parser p: slip_escaped, slip_inpkt and slip_buf, and what it handed  *)
(* on while it parsed a buffer: packets and characters for the console.     *)

NewParser == [escaped |-> FALSE, inpkt |-> FALSE, buf |-> <<>>, packets |-> <<>>, console |-> <<>>]

slip_reset(p) == [p EXCEPT !.inpkt = TRUE, !.escaped = FALSE, !.buf = <<>>]

Codes(chars) == [i \in DOMAIN chars |-> chars[i].k]

\* A packet is handed on if its CRC is right; what is too short to be a
\* packet, or is not in one, goes to the console.
slip_process(p) ==
    LET n == Len(p.buf)
        content == Codes(SubSeq(p.buf, 1, n - 2))
    IN  CASE n = 0                -> p
          [] n > 2 /\ p.inpkt     -> IF SubSeq(p.buf, n - 1, n) = CRC(content)
                                     THEN [p EXCEPT !.packets = Append(@, content)] ELSE p
          [] n > 0 /\ ~(n > 2 /\ p.inpkt) -> [p EXCEPT !.console = @ \o Codes(p.buf)]

Keep(p, c) == IF Len(p.buf) < SLIP_MAX THEN [p EXCEPT !.buf = Append(@, c)] ELSE p

Unescaped(c) ==
    CASE c.k = "ESC_END" -> Char("END") [] c.k = "ESC_ESC" -> Char("ESC") [] OTHER -> c

\* The second of two printable characters says that this is no packet.
StartsText(p, c) == Len(p.buf) = 1 /\ p.buf[1].k \in Printable /\ c.k \in Printable

\* Mutant: an END ends a packet and does not start one.
slip_parse_char_ends(p, c) ==
    CASE c.k = "END" -> IF p.buf = <<>> THEN slip_reset(p)
                        ELSE [slip_reset(slip_process(p)) EXCEPT !.inpkt = FALSE]
      [] c.k # "END" /\ p.escaped -> [Keep(p, Unescaped(c)) EXCEPT !.escaped = FALSE]
      [] c.k = "ESC" /\ ~p.escaped /\ p.inpkt -> [p EXCEPT !.escaped = TRUE]
      [] OTHER -> Keep(IF StartsText(p, c) THEN [p EXCEPT !.inpkt = FALSE] ELSE p, c)

slip_parse_char(p, c) ==
    CASE c.k = "END"                          -> slip_reset(slip_process(p))
      [] c.k # "END" /\ p.escaped             -> [Keep(p, Unescaped(c)) EXCEPT !.escaped = FALSE]
      [] c.k = "ESC" /\ ~p.escaped /\ p.inpkt -> [p EXCEPT !.escaped = TRUE]
      [] OTHER -> Keep(IF StartsText(p, c) THEN [p EXCEPT !.inpkt = FALSE] ELSE p, c)

\* Text is passed on at the end of every buffer.
slip_parse_buf(p, chars) ==
    LET q == FoldLeft(slip_parse_char, [p EXCEPT !.packets = <<>>, !.console = <<>>], chars)
    IN  IF ~q.inpkt /\ chars # <<>>
        THEN [q EXCEPT !.console = @ \o Codes(q.buf), !.buf = <<>>] ELSE q
=============================================================================
