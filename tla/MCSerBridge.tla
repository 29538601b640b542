---------------------------- MODULE MCSerBridge ----------------------------
(* Instances of SerBridge: characters to one client; three clients for two  *)
(* slots; two telnet clients; programmers on either port and SLIP.          *)
EXTENDS SerBridge

CONSTANTS c1, c2, c3

MCConns == {c1, c2, c3}
MCBytes == Macros \cup Commands \cup Settings \cup
           {"a", "b", "c", "d", "x", "y", "0", " ", "?", "nl", "BRK_REQ", "bad", "fast", "Echo", "Linemode"}
Item(k, a) == [kind |-> k, arg |-> a]
Char(a) == Item("char", a)
Nobody == [c \in MCConns |-> <<>>]
Port1 == [c \in MCConns |-> 1]

Base == [clients |-> {c1}, port |-> Port1, says |-> Nobody, bytes |-> FALSE,
         programmer |-> FALSE, others |-> FALSE, slip |-> FALSE, faults |-> {}]
Characters == [Base EXCEPT !.bytes = TRUE, !.faults = {"send", "alloc", "realloc"}]
Pool == [Base EXCEPT !.clients = MCConns, !.says = [c \in MCConns |-> <<Char("a")>>], !.faults = {"send"}]
Controls == <<Item("will", "ComPort"), Char("IAC"), Item("baud", "fast")>>
Lines == <<Item("will", "Echo"), Char("a")>>
Settles == <<Item("will", "Echo"), Item("control", "RTS_ON"), Item("setting", "SetParity"),
             Item("option", "Linemode"), Item("control", "RTS_OFF"), Char("d")>>
Asks == <<Item("will", "ComPort"), Item("baud", "zero"), Item("baud", "bad"),
          Item("control", "BRK_REQ"), Char("c")>>
TelnetLoads ==
    {[Base EXCEPT !.clients = {c1, c2}, !.says = (c1 :> Controls) @@ (c2 :> Lines) @@ Nobody],
     [Base EXCEPT !.says = (c1 :> Settles) @@ Nobody],
     [Base EXCEPT !.says = (c1 :> Asks) @@ Nobody]}
Programming ==
    [Base EXCEPT !.clients = {c1, c2}, !.port = (c2 :> 2) @@ Port1, !.programmer = TRUE,
                 !.says = (c1 :> <<Char("0"), Char(" "), Char("a")>>) @@ (c2 :> <<Char("x"), Char("y")>>) @@ Nobody]
Slip == [Base EXCEPT !.bytes = TRUE, !.slip = TRUE, !.says = (c1 :> <<Char("?"), Char("nl")>>) @@ Nobody]
Busy == [Base EXCEPT !.bytes = TRUE, !.clients = {}, !.programmer = TRUE, !.others = TRUE]
MCLoads == {Characters, Pool, Programming, Slip, Busy} \cup TelnetLoads
=============================================================================
