----------------------------- MODULE HexRecords -----------------------------
(***************************************************************************)
(* The Intel HEX records of meta-id/pgmshared.c: processRecord gathers the *)
(* data of consecutive records in a page buffer and has a page programmed  *)
(* when the buffer is full, when the address jumps and at the end.         *)
(*                                                                         *)
(* How a page is programmed is the business of the two programmers that    *)
(* share this file: programPage maps a programmer p to the set of the      *)
(* programmers it may become.  Here p need only have the fields data, the  *)
(* optibootData of the code, and ok, false once something failed.          *)
(***************************************************************************)
EXTENDS PageBuffer

CONSTANT programPage(_)

Fail(p) == [p EXCEPT !.ok = FALSE]

\* Program what is buffered, if there is anything.
Flush(p) == IF p.data.pageBuf = <<>> THEN {p} ELSE programPage(p)

Jumps(d, r) ==
    /\ d.pageBuf # <<>>
    /\ r.full % AddrMod # (d.address + Len(d.pageBuf)) % AddrMod

\* The record's data is appended; the address is set unless it is added to
\* the end of what is there.
AppendData(d, r) ==
    [d EXCEPT !.address = IF d.pageBuf = <<>>
                          THEN (@ \div AddrMod) * AddrMod + (r.full % AddrMod)
                          ELSE @,
              !.pageBuf = @ \o [i \in 1..r.len |-> r.full + i - 1]]

\* Once the buffer holds a page it is programmed.
DataRecord(p, r) ==
    LET q == [p EXCEPT !.data = AppendData(@, r)] IN
    IF Len(q.data.pageBuf) >= PgmSz THEN programPage(q) ELSE {q}

processRecord(p, r) ==
    CASE r.type = "data" ->
             UNION {IF q.ok THEN DataRecord(q, r) ELSE {q} :
                       q \in IF Jumps(p.data, r) THEN programPage(p) ELSE {p}}
      [] r.type = "eof" ->
             {IF q.ok THEN [q EXCEPT !.data.eof = TRUE] ELSE q : q \in Flush(p)}
      [] r.type = "upper" ->
             {IF q.ok THEN [q EXCEPT !.data.address = r.full] ELSE q : q \in Flush(p)}
      [] r.type = "other" -> {p}       \* start addresses and segments
      [] r.type = "bad"   -> {Fail(p)} \* not hex, wrong checksum or unknown
=============================================================================
