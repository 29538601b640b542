----------------------------- MODULE PageBuffer -----------------------------
(***************************************************************************)
(* The page buffer, optibootData, that the two programmers of meta-id and  *)
(* the reader of Intel HEX records, HexRecords, share.                     *)
(*                                                                         *)
(* A data byte is represented by the address it is meant for, so a record  *)
(* is its first address, all of it, and its length.  The record carries    *)
(* only the address modulo AddrMod; the rest comes from the last record of *)
(* type "upper".                                                           *)
(***************************************************************************)
EXTENDS Integers, Sequences

CONSTANTS
    PgmSz,   \* pgmSz, the size of a flash page
    AddrMod  \* what the address field of a record can tell apart, 65536

ASSUME HexAssumption == PgmSz \in Nat \ {0} /\ AddrMod \in Nat \ {0}

\* A record: of data, of the upper half of the address, or one that carries
\* nothing the programmers use.
HexRecord ==
    [type : {"data"}, full : Nat, len : Nat] \cup [type : {"upper"}, full : Nat] \cup
    [type : {"eof", "other", "bad"}]

\* os_zalloc of optibootData; saved is whose partial record is saved.
NewData == [pageBuf |-> <<>>, address |-> 0, pgmDone |-> 0, eof |-> FALSE, saved |-> {}]

\* How much of the buffer goes into one page.
PageLen(d) == IF Len(d.pageBuf) > PgmSz THEN PgmSz ELSE Len(d.pageBuf)

\* The page is out of the buffer: the end of both programmers' programPage.
Shifted(d) ==
    LET n == PageLen(d) IN
    [d EXCEPT !.pageBuf = SubSeq(@, n + 1, Len(@)), !.address = @ + n, !.pgmDone = @ + n]

-----------------------------------------------------------------------------
(* What an image asks for *)

DataRecords(image) == {k \in DOMAIN image : image[k].type = "data"}

\* The addresses the image has data for.
Bytes(image) ==
    UNION {image[k].full .. image[k].full + image[k].len - 1 : k \in DataRecords(image)}
=============================================================================
