--------------------------- MODULE MegaProgrammer ---------------------------
(***************************************************************************)
(* The programmer of meta-id/cgimega.c for the STK500v2 protocol.  A POST  *)
(* resets the microcontroller; the timer then signs on and asks the first  *)
(* of ten questions; megaUartRecv asks the others, one whenever something  *)
(* is received, in pieces of any size; an upload programs an Intel HEX     *)
(* image page by page and reads the answers itself, as do the pages that   *)
(* read the flash or a fuse or restart the microcontroller.                *)
(*                                                                         *)
(* Only one upload is under way at a time: its CGI is a copy of that of    *)
(* Optiboot, which shows what overlapping requests do to each other.       *)
(* errMessage is empty and ackWait not used between two callbacks.         *)
(***************************************************************************)
EXTENDS PageBuffer, FiniteSets

CONSTANTS
    Images,       \* the images uploads may carry
    MaxAddress,   \* the last address of the flash memory
    RespSize,     \* RESP_SZ - 1, in the units of Units below
    MaxSyncs,     \* bound on the sync requests
    MaxPages,     \* bound on the other pages that ask the boot loader
    ReadFrom,     \* the addresses they may read the flash at
    Faults,       \* "missed": the boot loader may miss a page; "late": an
                  \* answer may come when its reader has given up
    NoData        \* optibootData is NULL

ASSUME MegaAssumption ==
    /\ Images \subseteq Seq(HexRecord)
    /\ MaxAddress \in Nat /\ RespSize \in Nat
    /\ MaxSyncs \in Nat /\ MaxPages \in Nat /\ ReadFrom \subseteq Nat
    /\ Faults \subseteq {"missed", "late"}

VARIABLES
    ob,       \* the static variables of cgimega.c and pgmshared.c
    mcu,      \* the microcontroller, and what it sent that is not yet read
    upload,   \* the upload of this session
    requests, \* how many requests of either kind are left
    session   \* history: what happened since the last sync request

vars == <<ob, mcu, upload, requests, session>>

-----------------------------------------------------------------------------
(* Commands and answers *)

\* How long an answer is, in units of some four bytes: an answer to a
\* question is longer than a unit and may be received in pieces.
Units == [signon |-> 1, param |-> 2, spi |-> 3, address |-> 1, page |-> 1, flash |-> 1, leave |-> 1]

Answer(a) == [i \in 1..Units[a] |-> IF i = 1 THEN a ELSE "rest"]

\* What a command may do: it is executed and answered, it is executed and
\* the answer lost, or it is missed.  lost: its answer will not come.
Sent(m, effect, answer) ==
    IF ~m.boot THEN {[mcu |-> m, lost |-> TRUE]}
    ELSE {[mcu |-> [effect EXCEPT !.fifo = @ \o Answer(answer)], lost |-> FALSE],
          [mcu |-> effect, lost |-> TRUE]}
         \cup (IF answer = "page" /\ "missed" \notin Faults THEN {} ELSE {[mcu |-> m, lost |-> TRUE]})

\* readPacket: the next answer whole, whatever its sequence number, or
\* everything there is if that does not begin with an answer.
Packet(fifo) == IF fifo = <<>> THEN "none" ELSE Head(fifo)

Unread(fifo) ==
    IF Packet(fifo) \in DOMAIN Units THEN SubSeq(fifo, Units[Head(fifo)] + 1, Len(fifo)) ELSE <<>>

\* Read the answer.  Some readers forget what reply_ok said, some do not.
Reads(p, answer, prior) ==
    [p EXCEPT !.mcu.fifo = Unread(@), !.reply_ok = prior \/ Packet(p.mcu.fifo) = answer]

\* Send a command and read the answer, which may come too late for that.
Ask(p, effect, answer, prior) ==
    {Reads([p EXCEPT !.mcu = s.mcu], answer, prior) : s \in Sent(p.mcu, effect, answer)}
    \cup (IF "late" \in Faults /\ p.mcu.boot
          THEN {[Reads([p EXCEPT !.mcu = effect], answer, prior)
                    EXCEPT !.mcu.fifo = @ \o Answer(answer)]}
          ELSE {})

\* Mutant: reply_ok is not cleared.
LoadAddressKeeps(p, address) ==
    Ask(p, [p.mcu EXCEPT !.address = 2 * (address \div 2)], "address", p.reply_ok)

LoadAddress(p, address) ==
    Ask(p, [p.mcu EXCEPT !.address = 2 * (address \div 2)], "address", FALSE)

LoadPage(p) ==
    LET page == SubSeq(p.data.pageBuf, 1, PageLen(p.data))
        base == p.mcu.address
    IN  Ask(p, [p.mcu EXCEPT !.flash = [a \in 0..MaxAddress |->
                   IF a \in base .. base + Len(page) - 1 THEN page[a - base + 1] ELSE @[a]]],
            "page", p.reply_ok)

\* Mutant: nobody looks whether the address was loaded.
ProgramPageUnchecked(p) ==
    UNION {{[r EXCEPT !.data = Shifted(@)] : r \in LoadPage(q)} :
              q \in LoadAddress(p, p.data.address)}

megaProgramPage(p) ==
    UNION {IF ~q.reply_ok THEN {[q EXCEPT !.ok = FALSE]}
           ELSE {IF r.reply_ok THEN [r EXCEPT !.data = Shifted(@)] ELSE [r EXCEPT !.ok = FALSE] :
                    r \in LoadPage(q)} :
              q \in LoadAddress(p, p.data.address)}

HEX == INSTANCE HexRecords WITH programPage <- megaProgramPage

-----------------------------------------------------------------------------
(* Getting in sync *)

optibootInit(o) ==
    [o EXCEPT !.progState = "init", !.responseLen = 0, !.programmingCB = FALSE,
              !.armed = FALSE, !.data = NoData, !.reply_ok = FALSE]

cgiMegaSync ==
    /\ requests.syncs > 0 /\ upload.result # "running"
    /\ requests' = [requests EXCEPT !.syncs = @ - 1]
    /\ ob' = [optibootInit(ob) EXCEPT !.programmingCB = TRUE, !.armed = TRUE]
    /\ mcu' = [mcu EXCEPT !.boot = TRUE]
    /\ upload' \in [image : Images, pos : {0}, result : {"none"}]
    /\ session' = [lost |-> FALSE, diagnosed |-> FALSE]

Lossy(lost) == session' = [session EXCEPT !.lost = @ \/ lost]

\* Ask the next question.
Sends(m, answer) == \E s \in Sent(m, m, answer) : mcu' = s.mcu /\ Lossy(s.lost)

\* The initial delay has expired, and with it what the microcontroller sent
\* before it was reset.  One of up to eight attempts to sign on is answered,
\* perhaps by the answer to the one before; or none is, and the programmer
\* waits for ever.
megaTimerCB ==
    /\ ob.armed /\ ob.progState = "init" /\ mcu.fifo = <<>>
    /\ \/ /\ ob' = [ob EXCEPT !.armed = FALSE, !.body = TRUE, !.progState = "sync",
                              !.responseLen = 0]
          /\ \/ Sends(mcu, "param")
             \/ "late" \in Faults /\ Sends([mcu EXCEPT !.fifo = Answer("signon")], "param")
       \/ /\ ob' = [ob EXCEPT !.armed = FALSE, !.body = TRUE]
          /\ Lossy(TRUE) /\ UNCHANGED mcu
    /\ UNCHANGED <<upload, requests>>

After == [sync |-> "var1", var1 |-> "var2", var2 |-> "var3", var3 |-> "sig1", sig1 |-> "sig2",
          sig2 |-> "sig3", sig3 |-> "fuse1", fuse1 |-> "fuse2", fuse2 |-> "fuse3", fuse3 |-> "prog"]

\* The next question, in the state that follows s.
NextQuestion(s, read) ==
    CASE After[s] \in {"var1", "var2", "var3"} -> Sends(read, "param")
      [] After[s] = "prog"                     -> mcu' = read /\ UNCHANGED session
      [] OTHER                                 -> Sends(read, "spi")

\* The version of the boot loader: go on whatever has been received.
RecvVersion(s, len, read) ==
    /\ s \in {"sync", "var1", "var2", "var3"}
    /\ ob' = [ob EXCEPT !.progState = After[s],
                        !.responseLen = IF len >= Units["param"] THEN len - Units["param"] ELSE len,
                        !.data = IF s = "sync" /\ @ = NoData THEN NewData ELSE @]
    /\ NextQuestion(s, read)

\* The signature: go on once there is enough for an answer.
RecvSignature(s, len, read) ==
    /\ s \in {"sig1", "sig2", "sig3"}
    /\ IF len >= Units["spi"]
       THEN /\ ob' = [ob EXCEPT !.progState = After[s], !.responseLen = len - Units["spi"]]
            /\ NextQuestion(s, read)
       ELSE /\ ob' = [ob EXCEPT !.responseLen = len]
            /\ mcu' = read /\ UNCHANGED session

\* Mutant: only a whole answer will do.
RecvFuseWhole(s, len, read, piece) ==
    /\ s \in {"fuse1", "fuse2", "fuse3"}
    /\ IF piece = Answer("spi")
       THEN /\ ob' = [ob EXCEPT !.progState = After[s], !.responseLen = len, !.reply_ok = TRUE]
            /\ NextQuestion(s, read)
       ELSE /\ ob' = [ob EXCEPT !.responseLen = len, !.reply_ok = FALSE]
            /\ mcu' = read /\ UNCHANGED session

\* A fuse: go on, and remember whether it was an answer.
RecvFuse(s, len, read, piece) ==
    /\ s \in {"fuse1", "fuse2", "fuse3"}
    /\ ob' = [ob EXCEPT !.progState = After[s], !.responseLen = len,
                        !.reply_ok = (piece = Answer("spi"))]
    /\ NextQuestion(s, read)

\* Nothing has been asked.
RecvGarbage(s, len, read) ==
    /\ s \in {"init", "prog"}
    /\ ob' = [ob EXCEPT !.responseLen = len]
    /\ mcu' = read /\ UNCHANGED session

\* The UART task takes what there is, which may end anywhere.
megaUartRecv ==
    /\ ob.programmingCB
    /\ \E n \in 1..Len(mcu.fifo) :
          LET s     == ob.progState
              piece == SubSeq(mcu.fifo, 1, n)
              read  == [mcu EXCEPT !.fifo = SubSeq(@, n + 1, Len(@))]
              len   == IF ob.responseLen + n > RespSize THEN RespSize ELSE ob.responseLen + n
          IN  \/ RecvVersion(s, len, read) \/ RecvSignature(s, len, read)
              \/ RecvFuse(s, len, read, piece) \/ RecvGarbage(s, len, read)
    /\ UNCHANGED <<upload, requests>>

-----------------------------------------------------------------------------
(* Uploading *)

\* A sync has preceded; what a lost upload left behind is not built on.
Uploading == ob.progState = "prog" /\ upload.result \in {"none", "running"}

Programmer ==
    [ok |-> TRUE, data |-> IF ob.data = NoData THEN NewData ELSE ob.data,
     reply_ok |-> ob.reply_ok, mcu |-> mcu]

Record ==
    /\ Uploading /\ upload.pos < Len(upload.image)
    /\ \E q \in HEX!processRecord(Programmer, upload.image[upload.pos + 1]) :
          /\ mcu' = q.mcu
          /\ IF q.ok
             THEN /\ ob' = [ob EXCEPT !.data = q.data, !.reply_ok = q.reply_ok]
                  /\ upload' = [upload EXCEPT !.pos = @ + 1, !.result = "running"]
             ELSE /\ ob' = optibootInit(ob)
                  /\ upload' = [upload EXCEPT !.result = "failed"]
    /\ UNCHANGED <<requests, session>>

\* All of the POST data has been received.
Complete ==
    /\ Uploading /\ upload.pos = Len(upload.image)
    /\ ob' = optibootInit(ob)
    /\ upload' = [upload EXCEPT !.result = IF Programmer.data.eof THEN "success" ELSE "failed"]
    /\ UNCHANGED <<mcu, requests, session>>

\* The connection is lost: nothing is cleaned up.
Lost ==
    /\ upload.result = "running"
    /\ upload' = [upload EXCEPT !.result = "lost"]
    /\ UNCHANGED <<ob, mcu, requests, session>>

-----------------------------------------------------------------------------
(* The pages that ask the boot loader whatever the programmer is doing, as  *)
(* soon as initPacket has provided the buffer they build a command in       *)

Diagnosed(q) ==
    /\ ob.body /\ requests.pages > 0
    /\ requests' = [requests EXCEPT !.pages = @ - 1]
    /\ ob' = [ob EXCEPT !.reply_ok = q.reply_ok]
    /\ mcu' = q.mcu
    /\ session' = [lost |-> TRUE, diagnosed |-> TRUE]
    /\ UNCHANGED upload

\* One piece of the flash is enough to stand for the loop.
cgiMegaRead ==
    \E address \in ReadFrom : \E q \in LoadAddress(Programmer, address) :
        IF q.reply_ok THEN \E r \in Ask(q, q.mcu, "flash", FALSE) : Diagnosed(r)
        ELSE Diagnosed(q)

cgiMegaFuse == \E q \in Ask(Programmer, mcu, "spi", FALSE) : Diagnosed(q)

cgiMegaRebootMCU ==
    \E q \in Ask(Programmer, [mcu EXCEPT !.boot = FALSE], "leave", ob.reply_ok) : Diagnosed(q)

Init ==
    /\ ob = [progState |-> "init", responseLen |-> 0, programmingCB |-> FALSE, armed |-> FALSE,
             body |-> FALSE, data |-> NoData, reply_ok |-> FALSE]
    /\ mcu = [flash |-> [a \in 0..MaxAddress |-> -1], address |-> 0, fifo |-> <<>>, boot |-> FALSE]
    /\ upload \in [image : Images, pos : {0}, result : {"none"}]
    /\ requests = [syncs |-> MaxSyncs, pages |-> MaxPages]
    /\ session = [lost |-> FALSE, diagnosed |-> FALSE]

Next ==
    \/ cgiMegaSync \/ megaTimerCB \/ megaUartRecv
    \/ Record \/ Complete \/ Lost
    \/ cgiMegaRead \/ cgiMegaFuse \/ cgiMegaRebootMCU

Spec == Init /\ [][Next]_vars

\* The SDK's timer fires, and what the UART received is taken.
FairSpec == Spec /\ WF_vars(megaTimerCB) /\ WF_vars(megaUartRecv)

-----------------------------------------------------------------------------
(* Properties *)

(* No byte is ever programmed at the address of another, whatever commands *)
(* are missed and whatever answers are lost, late or left over from the    *)
(* questions: unless another page has the boot loader load an address      *)
(* meanwhile, whose late answer would do as well, no sequence number being *)
(* compared.                                                               *)
FlashInPlace ==
    [][\A a \in 0..MaxAddress :
          mcu'.flash[a] # mcu.flash[a] /\ ~session.diagnosed => mcu'.flash[a] = a]_vars

(* An upload that is told "Success" has every byte of its image in the     *)
(* flash memory, at its address, and is told how many there are.  It has   *)
(* not when the boot loader can miss a page, because megaProgramPage takes *)
(* the reply_ok of the address for that of the page.                       *)
SuccessIsWhole ==
    [][upload.result # "success" /\ upload'.result = "success" /\ ~session.diagnosed =>
          LET bytes == Bytes(upload.image) IN
          /\ \A a \in bytes : mcu'.flash[a] = a
          /\ ob.data.pgmDone = Cardinality(bytes)]_vars

(* However the answers are cut, none of the questions is left without one: *)
(* a sync request ends in sync unless a command or an answer is lost or    *)
(* somebody else reads it.                                                 *)
SyncSettles ==
    ob.programmingCB /\ ob.progState # "prog" ~> ob.progState = "prog" \/ session.lost
=============================================================================
