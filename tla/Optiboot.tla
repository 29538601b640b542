------------------------------ MODULE Optiboot ------------------------------
(***************************************************************************)
(* The programmer of meta-id/cgioptiboot.c: a POST resets the              *)
(* microcontroller and brings its boot loader into sync, trying one baud   *)
(* rate after the other, and an upload then programs an Intel HEX image    *)
(* page by page, counting the answers the boot loader owes.                *)
(*                                                                         *)
(* One global session serves every HTTP request.  The CGI calls, the timer *)
(* and the UART task are one action each; an upload is one action for each *)
(* of its records, because the data of a POST may be cut anywhere, and a   *)
(* page is programmed within that action because the code busy-waits for   *)
(* the answers.  The boot loader executes and answers the commands in      *)
(* order, or misses one, or its answer is lost.                            *)
(***************************************************************************)
EXTENDS PageBuffer, FiniteSets

CONSTANTS
    Requests,       \* the uploads, one HTTP request each
    Images,         \* the images they may carry
    MaxAddress,     \* the last address of the flash memory
    ATTEMPTS,       \* how many changes of the baud rate are tried, 8
    AckLimit,       \* how many answers may be outstanding, 7
    MaxSyncs,       \* bound on the sync requests
    Overlap,        \* what may happen while an upload is under way: "sync", a
                    \* sync is requested; "upload", another upload starts;
                    \* "drop", one starts where a lost one left off
    NoData          \* optibootData is NULL

ASSUME OptibootAssumption ==
    /\ Images \subseteq Seq(HexRecord)
    /\ MaxAddress \in Nat
    /\ ATTEMPTS \in Nat /\ AckLimit \in Nat /\ MaxSyncs \in Nat
    /\ Overlap \subseteq {"sync", "upload", "drop"}

VARIABLES
    ob,      \* the static variables of cgioptiboot.c and pgmshared.c
    mcu,     \* the microcontroller, and its answers not yet read
    upload,  \* the uploads
    syncs    \* how many sync requests are left

vars == <<ob, mcu, upload, syncs>>

-----------------------------------------------------------------------------
(* Commands and answers.  While a page is programmed p has, beside ok and   *)
(* data, the ackWait of the code and the microcontroller.                   *)

\* The boot loader may execute a command and answer it, execute it while
\* the answer is lost, or miss it.
Commanded(m, effect, answer) ==
    {[effect EXCEPT !.fifo = Append(@, answer)], effect, m}

LoadAddress(m, address) == [m EXCEPT !.address = 2 * ((address \div 2) % AddrMod)]

ProgPage(m, page) ==
    [m EXCEPT !.flash = [a \in 0..MaxAddress |->
         IF a \in m.address .. m.address + Len(page) - 1 THEN page[a - m.address + 1] ELSE @[a]]]

\* Mutant: one answer is enough, whatever is outstanding.
pollOne(p) ==
    IF p.mcu.fifo # <<>>
    THEN [p EXCEPT !.ackWait = 0, !.mcu.fifo = Tail(@)]
    ELSE [p EXCEPT !.ok = FALSE]

\* Busy-wait for every answer that is outstanding.
pollAck(p) ==
    IF Len(p.mcu.fifo) >= p.ackWait
    THEN [p EXCEPT !.ackWait = 0, !.mcu.fifo = SubSeq(@, p.ackWait + 1, Len(@)),
                   !.ok = (p.mcu.fifo[1] = "ack")]
    ELSE [p EXCEPT !.mcu.fifo = <<>>, !.ok = FALSE]

\* Send a command that has an effect, expect one more answer and wait.
Ask(p, effect) ==
    {pollAck([p EXCEPT !.ackWait = @ + 1, !.mcu = m]) : m \in Commanded(p.mcu, effect, "ack")}

LoadPage(p) == Ask(p, ProgPage(p.mcu, SubSeq(p.data.pageBuf, 1, PageLen(p.data))))

optibootProgramPage(p) ==
    IF p.ackWait > AckLimit THEN {[p EXCEPT !.ok = FALSE]}
    ELSE UNION {IF ~q.ok THEN {q}
                ELSE {IF r.ok THEN [r EXCEPT !.data = Shifted(@)] ELSE r : r \in LoadPage(q)} :
                   q \in Ask(p, LoadAddress(p.mcu, p.data.address))}

HEX == INSTANCE HexRecords WITH programPage <- optibootProgramPage

-----------------------------------------------------------------------------
(* The session *)

\* Mutant: the timer of the session goes on.
optibootInitArmed(o) ==
    [o EXCEPT !.progState = "init", !.baudCnt = 0, !.ackWait = 0, !.errMessage = FALSE,
              !.programmingCB = FALSE, !.blocked = FALSE, !.data = NoData]

\* Give up the session and everything it holds.  (The code would also tell
\* the request doing the programming, but never learns which one that is.)
optibootInit(o) ==
    [o EXCEPT !.progState = "init", !.baudCnt = 0, !.ackWait = 0, !.errMessage = FALSE,
              !.programmingCB = FALSE, !.armed = FALSE, !.blocked = FALSE, !.data = NoData]

Abort(o) == [optibootInit(o) EXCEPT !.errMessage = TRUE]

cgiOptibootSync ==
    /\ syncs > 0
    /\ "sync" \in Overlap \/ \A u \in Requests : upload[u].result # "running"
    /\ syncs' = syncs - 1
    /\ ob' = [optibootInit(ob) EXCEPT !.blocked = TRUE, !.programmingCB = TRUE,
                                      !.baudCnt = 1, !.armed = TRUE]
    /\ UNCHANGED <<mcu, upload>>

\* The answer a state waits for, the state it leads to, and the answer to
\* the command then sent.
Expected == [sync |-> "ack", sig |-> "sig", ver0 |-> "ver", ver1 |-> "ver"]
After    == [sync |-> "sig", sig |-> "ver0", ver0 |-> "ver1", ver1 |-> "prog"]

Sends(m, answer) == mcu' \in Commanded(m, m, answer)

\* The initial delay has expired.  It is long enough for whatever was still
\* to come when the microcontroller was reset: "we haven't sent anything,
\* this must be garbage".
SendSync ==
    /\ ob.progState = "init" /\ mcu.fifo = <<>>
    /\ ob' = [ob EXCEPT !.progState = "sync"]
    /\ Sends(mcu, "ack")

\* Mutant: attempts that are not counted.
NextBaudUncounted ==
    /\ ob.progState = "sync" /\ ob.baudCnt <= ATTEMPTS
    /\ ob' = [ob EXCEPT !.progState = "init"]
    /\ UNCHANGED mcu

\* No answer at this baud rate: reset and try the next.
NextBaud ==
    /\ ob.progState = "sync" /\ ob.baudCnt <= ATTEMPTS
    /\ ob' = [ob EXCEPT !.baudCnt = @ + 1, !.progState = "init"]
    /\ UNCHANGED mcu

\* No answer at any baud rate, or to a question once in sync.
GiveUp ==
    /\ \/ ob.progState = "sync" /\ ob.baudCnt > ATTEMPTS
       \/ ob.progState \in {"sig", "ver0", "ver1"}
    /\ ob' = Abort(ob)
    /\ UNCHANGED mcu

\* Mutant: the answer is not counted.
KeepAliveUncounted == ob.progState = "prog" /\ Sends(mcu, "ack") /\ UNCHANGED ob

\* No upload, or no more of it: keep the boot loader from starting the sketch.
\* The first guard is a bound: more outstanding answers make no difference.
KeepAlive ==
    /\ ob.ackWait <= AckLimit
    /\ ob.progState = "prog"
    /\ ob' = [ob EXCEPT !.ackWait = @ + 1]
    /\ Sends(mcu, "ack")

optibootTimerCB ==
    /\ ob.armed
    /\ SendSync \/ NextBaud \/ GiveUp \/ KeepAlive
    /\ UNCHANGED <<upload, syncs>>

\* The signature is not that of the one microcontroller supported.  The
\* session is given up, and then -5 bytes are copied: whether or not that
\* restarts the chip, nothing of the session is left.
WrongSignature ==
    \/ ob' = Abort(ob) /\ UNCHANGED upload
    \/ /\ ob' = optibootInit(ob)
       /\ upload' = [u \in Requests |->
              IF upload[u].result = "running" THEN [upload[u] EXCEPT !.result = "lost"]
              ELSE upload[u]]

\* The UART task takes the next answer.
optibootUartRecv ==
    /\ ob.programmingCB /\ mcu.fifo # <<>>
    /\ LET s == ob.progState
           read == [mcu EXCEPT !.fifo = Tail(@)]
           expected == s \in DOMAIN Expected /\ Head(mcu.fifo) = Expected[s]
       IN  \/ /\ expected
              /\ ob' = [ob EXCEPT !.progState = After[s],
                                  !.ackWait = IF s = "ver1" THEN 0 ELSE @]
              /\ IF s = "ver1" THEN mcu' = read ELSE Sends(read, Expected[After[s]])
              /\ UNCHANGED upload
           \/ expected /\ s = "sig" /\ WrongSignature /\ mcu' = read
           \/ /\ s = "init"
              /\ mcu' = read /\ UNCHANGED <<ob, upload>>
           \/ /\ s = "prog"
              /\ ob' = [ob EXCEPT !.ackWait = IF @ > 0 THEN @ - 1 ELSE @]
              /\ mcu' = read /\ UNCHANGED upload
    /\ UNCHANGED syncs

-----------------------------------------------------------------------------
(* Uploading *)

InSync == ~ob.errMessage /\ ob.progState = "prog"

\* cgiOptibootData is called with more of the POST data of u.
Uploading(u) ==
    \/ upload[u].result = "running"
    \/ /\ upload[u].result = "none"
       /\ "upload" \in Overlap \/ \A v \in Requests : upload[v].result # "running"
       /\ "drop" \in Overlap \/ ob.data = NoData \/ \E v \in Requests : upload[v].result = "running"

Ends(u, result) == upload' = [upload EXCEPT ![u].result = result]

Refused(u) ==
    /\ Uploading(u) /\ ~InSync
    /\ Ends(u, "refused")
    /\ UNCHANGED <<ob, mcu, syncs>>

Data == IF ob.data = NoData THEN NewData ELSE ob.data

\* The data ends in the middle of a record.
PartOfRecord(u) ==
    /\ Uploading(u) /\ InSync
    /\ upload[u].pos < Len(upload[u].image)
    /\ ob' = [ob EXCEPT !.data = [Data EXCEPT !.saved = @ \cup {u}]]
    /\ Ends(u, "running")
    /\ UNCHANGED <<mcu, syncs>>

\* The rest of a record arrives.  What another request left before it makes
\* it a bad one.
Record(u) ==
    /\ Uploading(u) /\ InSync
    /\ upload[u].pos < Len(upload[u].image)
    /\ LET r == IF Data.saved \subseteq {u}
                THEN upload[u].image[upload[u].pos + 1] ELSE [type |-> "bad"]
           p == [ok |-> TRUE, data |-> [Data EXCEPT !.saved = {}],
                 ackWait |-> ob.ackWait, mcu |-> mcu]
       IN  \E q \in HEX!processRecord(p, r) :
              /\ mcu' = q.mcu
              /\ IF q.ok
                 THEN /\ ob' = [ob EXCEPT !.data = q.data, !.ackWait = q.ackWait]
                      /\ upload' = [upload EXCEPT ![u].pos = @ + 1, ![u].result = "running"]
                 ELSE /\ ob' = optibootInit(ob)
                      /\ Ends(u, "failed")
    /\ UNCHANGED syncs

\* All of the POST data has been received.
Complete(u) ==
    /\ Uploading(u) /\ InSync
    /\ upload[u].pos = Len(upload[u].image)
    /\ ob' = optibootInit(ob)
    /\ Ends(u, IF Data.eof THEN "success" ELSE "failed")
    /\ UNCHANGED <<mcu, syncs>>

\* The connection of the request is lost: nothing is cleaned up.
Lost(u) ==
    /\ upload[u].result = "running"
    /\ Ends(u, "lost")
    /\ UNCHANGED <<ob, mcu, syncs>>

Init ==
    /\ ob = [progState |-> "init", baudCnt |-> 0, ackWait |-> 0, errMessage |-> FALSE,
             programmingCB |-> FALSE, armed |-> FALSE, blocked |-> FALSE, data |-> NoData]
    /\ mcu = [flash |-> [a \in 0..MaxAddress |-> -1], address |-> 0, fifo |-> <<>>]
    /\ upload \in [Requests -> [image : Images, pos : {0}, result : {"none"}]]
    /\ syncs = MaxSyncs

Next ==
    \/ cgiOptibootSync \/ optibootTimerCB \/ optibootUartRecv
    \/ \E u \in Requests :
          Refused(u) \/ PartOfRecord(u) \/ Record(u) \/ Complete(u) \/ Lost(u)

Spec == Init /\ [][Next]_vars

\* The SDK's timer fires, and what the UART received is taken.
FairSpec == Spec /\ WF_vars(optibootTimerCB) /\ WF_vars(optibootUartRecv)

-----------------------------------------------------------------------------
(* Properties *)

(* An upload that is told "Success" has every byte of its image in the     *)
(* flash memory, at its address, and is told how many there are, whatever  *)
(* commands and answers were lost and however the data was cut.            *)
SuccessIsWhole ==
    [][\A u \in Requests :
          upload[u].result # "success" /\ upload'[u].result = "success" =>
              LET bytes == Bytes(upload[u].image) IN
              /\ \A a \in bytes : mcu'.flash[a] = a
              /\ ob.data.pgmDone = Cardinality(bytes)]_vars

(* ackWait never counts fewer answers than are still to come, so pollAck   *)
(* cannot take the answer to one command for that to a later one.          *)
AckAccount == ob.progState = "prog" => Len(mcu.fifo) <= ob.ackWait

(* The UART is taken over and MQTT commands are blocked exactly while a    *)
(* session is on, and then a timer will end it or keep it alive.           *)
SessionDriven ==
    /\ ob.programmingCB = ob.armed /\ ob.blocked = ob.armed
    /\ ob.progState # "init" \/ ob.data # NoData => ob.armed
    /\ ob.data # NoData => ob.progState = "prog"

(* A sync request ends in sync or in giving up. *)
SyncSettles ==
    ob.programmingCB /\ ob.progState # "prog" ~> ob.progState = "prog" \/ ~ob.programmingCB
=============================================================================
