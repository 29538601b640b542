------------------------------ MODULE Espconn ------------------------------
(***************************************************************************)
(* A TCP connection the ESP opens, as far as rest/rest.c, socket/socket.c  *)
(* and meta-id/httpclient.c make out: what the SDK does with the structure *)
(* espconn is inferred from those calls and from include/espconn.h.        *)
(* What is handed to espconn_sent reaches the peer in order; a sent        *)
(* callback tells of each piece that it was acknowledged.                  *)
(***************************************************************************)
EXTENDS Naturals, Sequences

\* st: the connection; out: the units the peer has received since it was
\* opened; unsent: the pieces whose sent callback is still to come.
Idle == [st |-> "none", out |-> <<>>, unsent |-> 0]

\* A connection in use is not opened again: the answer is ESPCONN_ISCONN.
espconn_connect(link) ==
    IF link.st = "none" THEN [Idle EXCEPT !.st = "connecting"] ELSE link

\* The disconnect callback follows later.
espconn_disconnect(link) ==
    IF link.st = "up" THEN [link EXCEPT !.st = "closing"] ELSE link

espconn_sent(link, data) ==
    IF link.st = "up" THEN [link EXCEPT !.out = @ \o data, !.unsent = @ + 1] ELSE link

Opened(link) == [link EXCEPT !.st = "up", !.out = <<>>, !.unsent = 0]
Acknowledged(link) == [link EXCEPT !.unsent = @ - 1]

Connecting(link) == link.st = "connecting"
Up(link) == link.st = "up"
Live(link) == link.st \in {"up", "closing"}
=============================================================================
