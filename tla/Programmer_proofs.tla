-------------------------- MODULE Programmer_proofs --------------------------
(* Theorems about the two programmers, for every set of images, every page *)
(* size and limit.  SessionDrivenHolds and AckAccountHolds, of Optiboot,   *)
(* allow every overlap of requests.  SuccessIsWholeHolds does not, for the *)
(* reason its model gives.  It and the theorems of MegaProgrammer, which   *)
(* come last, are about images of the kind a linker makes.                 *)
EXTENDS Optiboot, FiniteSetTheorems, TLAPS

-----------------------------------------------------------------------------
(* The invariant.  SessionDriven is nearly inductive.  AckAccount is not:  *)
(* that no answer is left over when programming begins and ackWait is zero *)
(* follows from there being at most one answer, to the question just asked,*)
(* in every state on the way there.                                        *)

\* The session has these variables; what is in baudCnt and the page buffer
\* does not matter.
Session ==
    ob = [progState |-> ob.progState, baudCnt |-> ob.baudCnt, ackWait |-> ob.ackWait,
          errMessage |-> ob.errMessage, programmingCB |-> ob.programmingCB,
          armed |-> ob.armed, blocked |-> ob.blocked, data |-> ob.data]

Mcu == mcu = [flash |-> mcu.flash, address |-> mcu.address, fifo |-> mcu.fifo]

Answers == {"ack", "sig", "ver"}

Owed ==
    /\ ob.ackWait \in Nat
    /\ mcu.fifo \in Seq(Answers)
    /\ ob.progState \in {"init", "prog"} \cup DOMAIN Expected
    /\ ob.progState \in DOMAIN Expected => mcu.fifo \in {<<>>, <<Expected[ob.progState]>>}
    /\ AckAccount

\* How far each request has got.
Results == {"none", "running", "refused", "failed", "success", "lost"}
Upload == [image : Images, pos : Nat, result : Results]
Uploads == upload \in [Requests -> Upload]

SessionInv == Session /\ Mcu /\ ob.armed \in BOOLEAN /\ SessionDriven /\ Owed
Inv == SessionInv /\ Uploads

LEMMA Questions ==
    /\ DOMAIN Expected = {"sync", "sig", "ver0", "ver1"}
    /\ Expected["sync"] = "ack" /\ Expected["sig"] = "sig"
    /\ Expected["ver0"] = "ver" /\ Expected["ver1"] = "ver"
    /\ After["sync"] = "sig" /\ After["sig"] = "ver0"
    /\ After["ver0"] = "ver1" /\ After["ver1"] = "prog"
BY DEF Expected, After

\* A question is asked and nothing else is still to come.
LEMMA Asked ==
    ASSUME Session', ob'.armed \in BOOLEAN, SessionDriven', Mcu', ob'.ackWait \in Nat,
           mcu'.fifo \in Seq(Answers), ob'.progState \in DOMAIN Expected,
           mcu'.fifo = <<>> \/ mcu'.fifo = <<Expected[ob'.progState]>>
    PROVE  SessionInv'
<1>1. Expected' = Expected /\ ob'.progState # "prog"
  BY Questions DEF Expected
<1>2. AckAccount'
  BY <1>1 DEF AckAccount
<1>. QED
  BY <1>1, <1>2 DEF SessionInv, Owed

-----------------------------------------------------------------------------
(* The session *)

LEMMA EndedSession ==
    ASSUME SessionInv, ob' = optibootInit(ob) \/ ob' = Abort(ob)
    PROVE  /\ Session' /\ ob'.armed \in BOOLEAN /\ SessionDriven'
           /\ ob'.progState = "init" /\ ob'.ackWait = 0
BY DEF SessionInv, Session, SessionDriven, optibootInit, Abort

\* While programming, nothing but the count matters.
LEMMA Counted ==
    ASSUME Session', ob'.armed \in BOOLEAN, SessionDriven', Mcu', ob'.ackWait \in Nat,
           mcu'.fifo \in Seq(Answers), ob'.progState = "prog", Len(mcu'.fifo) <= ob'.ackWait
    PROVE  SessionInv'
<1>1. Expected' = Expected /\ ob'.progState \notin DOMAIN Expected
  BY Questions DEF Expected
<1>2. AckAccount'
  BY DEF AckAccount
<1>. QED
  BY <1>1, <1>2 DEF SessionInv, Owed

LEMMA SyncStep ==
    ASSUME SessionInv, cgiOptibootSync
    PROVE  SessionInv'
<1>1. Session' /\ ob'.armed \in BOOLEAN /\ SessionDriven'
  BY DEF SessionInv, Session, SessionDriven, optibootInit, cgiOptibootSync
<1>2. ob'.progState = "init" /\ ob'.ackWait = 0
  BY DEF SessionInv, Session, optibootInit, cgiOptibootSync
<1>. QED
  BY <1>1, <1>2 DEF cgiOptibootSync, SessionInv, Mcu, Owed, Expected, AckAccount

LEMMA EndedStep ==
    ASSUME SessionInv, ob' = optibootInit(ob) \/ ob' = Abort(ob),
           Mcu', mcu'.fifo \in Seq(Answers)
    PROVE  SessionInv'
BY EndedSession DEF SessionInv, Owed, Expected, AckAccount

LEMMA SameStep ==
    ASSUME SessionInv, UNCHANGED <<ob, mcu>>
    PROVE  SessionInv'
BY DEF SessionInv, Session, SessionDriven, Mcu, Owed, AckAccount

LEMMA SendsType ==
    ASSUME NEW m, m = [flash |-> m.flash, address |-> m.address, fifo |-> m.fifo],
           m.fifo \in Seq(Answers), NEW a \in Answers, Sends(m, a)
    PROVE  /\ Mcu' /\ mcu'.fifo \in Seq(Answers)
           /\ mcu'.fifo = m.fifo \/ mcu'.fifo = Append(m.fifo, a)
BY DEF Sends, Commanded, Mcu

LEMMA TimerStep ==
    ASSUME SessionInv, optibootTimerCB
    PROVE  SessionInv'
<1>0. /\ mcu = [flash |-> mcu.flash, address |-> mcu.address, fifo |-> mcu.fifo]
      /\ mcu.fifo \in Seq(Answers) /\ ob.ackWait \in Nat
  BY DEF SessionInv, Mcu, Owed
<1>1. CASE SendSync
  <2>1. Session' /\ ob'.armed \in BOOLEAN /\ SessionDriven'
    BY <1>1 DEF SessionInv, Session, SessionDriven, SendSync, optibootTimerCB
  <2>2. ob'.progState = "sync" /\ ob'.ackWait = ob.ackWait
    BY <1>1 DEF SessionInv, Session, SendSync
  <2>3. /\ Mcu' /\ mcu'.fifo \in Seq(Answers)
        /\ mcu'.fifo = <<>> \/ mcu'.fifo = <<"ack">>
    <3>1. mcu.fifo = <<>> /\ Append(<<>>, "ack") = <<"ack">>
      BY <1>1 DEF SendSync
    <3>. QED
      BY <1>0, <1>1, <3>1, SendsType DEF SendSync, Answers
  <2>. QED
    BY <1>0, <2>1, <2>2, <2>3, Questions, Asked
<1>2. CASE NextBaud
  <2>1. Session' /\ ob'.armed \in BOOLEAN /\ SessionDriven'
    BY <1>2 DEF SessionInv, Session, SessionDriven, NextBaud, optibootTimerCB
  <2>2. ob'.progState = "init" /\ ob'.ackWait = ob.ackWait
    BY <1>2 DEF SessionInv, Session, NextBaud
  <2>. QED
    BY <1>0, <1>2, <2>1, <2>2 DEF NextBaud, SessionInv, Mcu, Owed, Expected, AckAccount
<1>3. CASE GiveUp
  BY <1>0, <1>3, EndedStep DEF GiveUp, Mcu
<1>4. CASE KeepAlive
  <2>1. Session' /\ ob'.armed \in BOOLEAN /\ SessionDriven'
    BY <1>4 DEF SessionInv, Session, SessionDriven, KeepAlive, optibootTimerCB
  <2>2. ob.progState = "prog" /\ ob'.progState = "prog" /\ ob'.ackWait = ob.ackWait + 1
    BY <1>4 DEF SessionInv, Session, KeepAlive
  <2>3. /\ Mcu' /\ mcu'.fifo \in Seq(Answers)
        /\ mcu'.fifo = mcu.fifo \/ mcu'.fifo = Append(mcu.fifo, "ack")
    BY <1>0, <1>4, SendsType DEF KeepAlive, Answers
  <2>4. Len(mcu.fifo) <= ob.ackWait
    BY <2>2 DEF SessionInv, Owed, AckAccount
  <2>5. Len(mcu'.fifo) <= ob'.ackWait
    BY <1>0, <2>2, <2>3, <2>4
  <2>. QED
    BY <1>0, <2>1, <2>2, <2>3, <2>5, Counted
<1>. QED
  BY <1>1, <1>2, <1>3, <1>4 DEF optibootTimerCB

LEMMA ReceivedStep ==
    ASSUME SessionInv, optibootUartRecv
    PROVE  SessionInv'
<1>. DEFINE read == [mcu EXCEPT !.fifo = Tail(@)]
            s == ob.progState
<1>0. /\ mcu = [flash |-> mcu.flash, address |-> mcu.address, fifo |-> mcu.fifo]
      /\ mcu.fifo \in Seq(Answers) /\ mcu.fifo # <<>> /\ ob.ackWait \in Nat
      /\ s \in DOMAIN Expected => mcu.fifo \in {<<>>, <<Expected[s]>>}
  BY DEF SessionInv, Mcu, Owed, optibootUartRecv
<1>1. /\ read = [flash |-> read.flash, address |-> read.address, fifo |-> read.fifo]
      /\ read.fifo = Tail(mcu.fifo)
  BY <1>0
<1>2. read.fifo \in Seq(Answers) /\ Len(read.fifo) = Len(mcu.fifo) - 1
  BY <1>0, <1>1
<1>. HIDE DEF read
<1>3. CASE s \in DOMAIN Expected
  <2>0. read.fifo = <<>>
    BY <1>0, <1>1, <1>3
  <2>1. CASE s # "ver1" /\ Sends(read, Expected[After[s]])
             /\ ob' = [ob EXCEPT !.progState = After[s], !.ackWait = @]
    <3>1. After[s] \in DOMAIN Expected /\ Expected[After[s]] \in Answers
      BY <1>3, <2>1, Questions DEF Answers
    <3>2. /\ Session' /\ ob'.armed \in BOOLEAN /\ SessionDriven'
          /\ ob'.progState = After[s] /\ ob'.ackWait = ob.ackWait
      <4>1. After[s] \in {"sig", "ver0", "ver1"}
        BY <1>3, <2>1, Questions
      <4>. HIDE DEF s
      <4>2. Session' /\ ob'.progState = After[s] /\ ob'.ackWait = ob.ackWait
            /\ ob'.armed = ob.armed /\ ob'.programmingCB = ob.programmingCB
            /\ ob'.blocked = ob.blocked /\ ob'.data = ob.data
        BY <2>1 DEF SessionInv, Session
      <4>3. ob.progState # "prog" /\ ob.progState # "init"
        BY <1>3, Questions DEF s
      <4>. QED
        BY <4>1, <4>2, <4>3 DEF SessionInv, SessionDriven
    <3>3. /\ Mcu' /\ mcu'.fifo \in Seq(Answers)
          /\ mcu'.fifo = <<>> \/ mcu'.fifo = <<Expected[After[s]]>>
      <4>1. Append(<<>>, Expected[After[s]]) = <<Expected[After[s]]>>
        OBVIOUS
      <4>. QED
        BY <1>1, <1>2, <2>0, <2>1, <3>1, <4>1, SendsType
    <3>. QED
      BY <1>0, <3>1, <3>2, <3>3, Asked
  <2>2. CASE s = "ver1" /\ mcu' = read /\ ob' = [ob EXCEPT !.progState = After[s], !.ackWait = 0]
    <3>1. /\ Session' /\ ob'.armed \in BOOLEAN /\ SessionDriven'
          /\ ob'.progState = "prog" /\ ob'.ackWait = 0
      <4>1. ob' = [ob EXCEPT !.progState = "prog", !.ackWait = 0]
        BY <2>2, Questions
      <4>. QED
        BY <2>2, <4>1 DEF SessionInv, Session, SessionDriven
    <3>2. Len(mcu'.fifo) <= ob'.ackWait
      BY <2>0, <2>2, <3>1
    <3>. QED
      BY <1>1, <1>2, <2>2, <3>1, <3>2, Counted DEF Mcu
  <2>3. CASE WrongSignature /\ mcu' = read
    BY <1>1, <1>2, <2>3, EndedStep DEF WrongSignature, Mcu
  <2>. QED
    BY <1>3, <2>1, <2>2, <2>3 DEF optibootUartRecv, Expected, read
<1>4. CASE s = "init" /\ mcu' = read /\ UNCHANGED ob
  BY <1>1, <1>2, <1>4 DEF SessionInv, Session, SessionDriven, Mcu, Owed, Expected, AckAccount
<1>5. CASE /\ s = "prog" /\ mcu' = read
           /\ ob' = [ob EXCEPT !.ackWait = IF @ > 0 THEN @ - 1 ELSE @]
  <2>1. Len(mcu.fifo) <= ob.ackWait /\ Len(mcu.fifo) > 0
    BY <1>0, <1>5 DEF SessionInv, Owed, AckAccount
  <2>2. /\ Session' /\ ob'.armed \in BOOLEAN /\ SessionDriven' /\ ob'.progState = "prog"
    BY <1>5 DEF SessionInv, Session, SessionDriven
  <2>3. ob'.ackWait = IF ob.ackWait > 0 THEN ob.ackWait - 1 ELSE ob.ackWait
    BY <1>5 DEF SessionInv, Session
  <2>4. ob'.ackWait \in Nat /\ Len(mcu'.fifo) <= ob'.ackWait
    BY <1>0, <1>2, <1>5, <2>1, <2>3
  <2>. QED
    BY <1>1, <1>2, <1>5, <2>2, <2>4, Counted DEF Mcu
<1>. QED
  BY <1>3, <1>4, <1>5 DEF optibootUartRecv, read

-----------------------------------------------------------------------------
(* Programming a page: whatever is lost, no more answers are to come than  *)
(* are counted.                                                            *)

Programmer(p) ==
    /\ p = [ok |-> p.ok, data |-> p.data, ackWait |-> p.ackWait, mcu |-> p.mcu]
    /\ p.mcu = [flash |-> p.mcu.flash, address |-> p.mcu.address, fifo |-> p.mcu.fifo]
    /\ p.ackWait \in Nat
    /\ p.mcu.fifo \in Seq(Answers)
    /\ Len(p.mcu.fifo) <= p.ackWait

LEMMA NewOk ==
    ASSUME NEW p, Programmer(p), NEW b
    PROVE  Programmer([p EXCEPT !.ok = b])
BY DEF Programmer

LEMMA NewDataOf ==
    ASSUME NEW p, Programmer(p), NEW d
    PROVE  Programmer([p EXCEPT !.data = d])
BY DEF Programmer

\* A microcontroller with its three variables.
McuOf(m) == m = [flash |-> m.flash, address |-> m.address, fifo |-> m.fifo]

LEMMA NewAnswers ==
    ASSUME NEW p, Programmer(p), NEW m, McuOf(m), NEW n \in Nat,
           m.fifo \in Seq(Answers), Len(m.fifo) <= n
    PROVE  Programmer([p EXCEPT !.ackWait = n, !.mcu = m])
<1>. DEFINE c == [p EXCEPT !.ackWait = n]
            d == [c EXCEPT !.mcu = m]
<1>1. p = [ok |-> p.ok, data |-> p.data, ackWait |-> p.ackWait, mcu |-> p.mcu]
  BY DEF Programmer
<1>2. c = [ok |-> c.ok, data |-> c.data, ackWait |-> c.ackWait, mcu |-> c.mcu] /\ c.ackWait = n
  BY <1>1
<1>. HIDE DEF c
<1>3. d = [ok |-> d.ok, data |-> d.data, ackWait |-> d.ackWait, mcu |-> d.mcu]
      /\ d.ackWait = n /\ d.mcu = m
  BY <1>2
<1>. HIDE DEF d
<1>4. Programmer(d)
  BY <1>3 DEF Programmer, McuOf
<1>. QED
  BY <1>4 DEF c, d

LEMMA NewFifo ==
    ASSUME NEW m, McuOf(m), NEW f
    PROVE  McuOf([m EXCEPT !.fifo = f]) /\ [m EXCEPT !.fifo = f].fifo = f
BY DEF McuOf

LEMMA PollKeeps ==
    ASSUME NEW p, Programmer(p)
    PROVE  Programmer(pollAck(p))
<1>1. CASE Len(p.mcu.fifo) >= p.ackWait
  <2>. DEFINE rest == SubSeq(p.mcu.fifo, p.ackWait + 1, Len(p.mcu.fifo))
              first == p.mcu.fifo[1] = "ack"
  <2>1. rest \in Seq(Answers) /\ Len(rest) = 0
    BY <1>1 DEF Programmer
  <2>2. pollAck(p) = [[p EXCEPT !.ackWait = 0, !.mcu = [@ EXCEPT !.fifo = rest]] EXCEPT !.ok = first]
    BY <1>1 DEF pollAck
  <2>. HIDE DEF rest, first
  <2>. DEFINE m == [p.mcu EXCEPT !.fifo = rest]
  <2>3. McuOf(m) /\ m.fifo = rest
    BY NewFifo DEF Programmer, McuOf
  <2>. HIDE DEF m
  <2>4. Programmer([p EXCEPT !.ackWait = 0, !.mcu = m])
    <3>1. m.fifo \in Seq(Answers) /\ Len(m.fifo) <= 0 /\ 0 \in Nat
      BY <2>1, <2>3
    <3>. QED
      BY <2>3, <3>1, NewAnswers
  <2>5. pollAck(p) = [[p EXCEPT !.ackWait = 0, !.mcu = m] EXCEPT !.ok = first]
    BY <2>2 DEF m
  <2>6. Programmer([[p EXCEPT !.ackWait = 0, !.mcu = m] EXCEPT !.ok = first])
    BY <2>4, NewOk
  <2>. QED
    BY <2>5, <2>6
<1>2. CASE ~(Len(p.mcu.fifo) >= p.ackWait)
  <2>1. <<>> \in Seq(Answers) /\ Len(<<>>) = 0
    OBVIOUS
  <2>. DEFINE m == [p.mcu EXCEPT !.fifo = <<>>]
  <2>2. pollAck(p) = [[p EXCEPT !.ackWait = p.ackWait, !.mcu = m] EXCEPT !.ok = FALSE]
    <3>1. p = [ok |-> p.ok, data |-> p.data, ackWait |-> p.ackWait, mcu |-> p.mcu]
      BY DEF Programmer
    <3>. QED
      BY <1>2, <3>1 DEF pollAck
  <2>3. McuOf(m) /\ m.fifo = <<>>
    BY NewFifo DEF Programmer, McuOf
  <2>4. p.ackWait \in Nat /\ Len(m.fifo) <= p.ackWait
    BY <2>1, <2>3 DEF Programmer
  <2>. HIDE DEF m
  <2>5. Programmer([p EXCEPT !.ackWait = p.ackWait, !.mcu = m])
    BY <2>1, <2>3, <2>4, NewAnswers
  <2>. DEFINE c == [p EXCEPT !.ackWait = p.ackWait, !.mcu = m]
  <2>6. pollAck(p) = [c EXCEPT !.ok = FALSE] /\ Programmer(c)
    BY <2>2, <2>5 DEF m
  <2>. HIDE DEF c
  <2>. QED
    BY <2>6, NewOk
<1>. QED
  BY <1>1, <1>2

LEMMA AskKeeps ==
    ASSUME NEW p, Programmer(p), NEW e, McuOf(e), e.fifo = p.mcu.fifo,
           NEW q \in Ask(p, e)
    PROVE  Programmer(q)
<1>1. PICK m \in Commanded(p.mcu, e, "ack") :
         q = pollAck([p EXCEPT !.ackWait = @ + 1, !.mcu = m])
  BY DEF Ask
<1>2. McuOf(m) /\ (m.fifo = p.mcu.fifo \/ m.fifo = Append(p.mcu.fifo, "ack"))
  BY <1>1 DEF Commanded, Programmer, McuOf
<1>3. m.fifo \in Seq(Answers) /\ p.ackWait + 1 \in Nat /\ Len(m.fifo) <= p.ackWait + 1
  <2>1. /\ p.mcu.fifo \in Seq(Answers) /\ p.ackWait \in Nat /\ "ack" \in Answers
        /\ Len(p.mcu.fifo) <= p.ackWait
    BY DEF Programmer, Answers
  <2>2. CASE m.fifo = p.mcu.fifo
    BY <2>1, <2>2
  <2>3. CASE m.fifo = Append(p.mcu.fifo, "ack")
    BY <2>1, <2>3
  <2>. QED
    BY <1>2, <2>2, <2>3
<1>4. Programmer([p EXCEPT !.ackWait = @ + 1, !.mcu = m])
  BY <1>2, <1>3, NewAnswers
<1>. QED
  BY <1>1, <1>4, PollKeeps

LEMMA PageKeeps ==
    ASSUME NEW p, Programmer(p), NEW q \in optibootProgramPage(p)
    PROVE  Programmer(q)
<1>1. CASE p.ackWait > AckLimit
  <2>1. optibootProgramPage(p) = {[p EXCEPT !.ok = FALSE]}
    BY <1>1, Zenon DEF optibootProgramPage
  <2>. QED
    BY <2>1, NewOk
<1>2. CASE ~(p.ackWait > AckLimit)
  <2>. DEFINE e == LoadAddress(p.mcu, p.data.address)
  <2>1. McuOf(e) /\ e.fifo = p.mcu.fifo
    BY DEF LoadAddress, Programmer, McuOf
  <2>. HIDE DEF e
  <2>2. PICK a \in Ask(p, e) :
           q \in IF ~a.ok THEN {a}
                ELSE {IF r.ok THEN [r EXCEPT !.data = Shifted(@)] ELSE r : r \in LoadPage(a)}
    BY <1>2 DEF optibootProgramPage, e
  <2>3. Programmer(a)
    BY <2>1, AskKeeps
  <2>4. ASSUME NEW r \in LoadPage(a) PROVE Programmer(r)
    <3>. DEFINE f == ProgPage(a.mcu, SubSeq(a.data.pageBuf, 1, PageLen(a.data)))
    <3>1. McuOf(f) /\ f.fifo = a.mcu.fifo
      <4>1. \A m, g : McuOf(m) => /\ McuOf([m EXCEPT !.flash = g])
                                 /\ [m EXCEPT !.flash = g].fifo = m.fifo
        BY DEF McuOf
      <4>2. McuOf(a.mcu)
        BY <2>3 DEF Programmer, McuOf
      <4>. QED
        BY <4>1, <4>2 DEF ProgPage
    <3>2. r \in Ask(a, f)
      BY <2>4 DEF LoadPage
    <3>. HIDE DEF f
    <3>. QED
      BY <2>3, <3>1, <3>2, AskKeeps
  <2>. QED
    BY <2>2, <2>3, <2>4, NewDataOf
<1>. QED
  BY <1>1, <1>2

LEMMA RecordKeeps ==
    ASSUME NEW p, Programmer(p), NEW r, NEW q \in HEX!processRecord(p, r),
           r.type \in {"data", "eof", "upper", "other", "bad"}
    PROVE  Programmer(q)
<1>1. ASSUME NEW f \in HEX!Flush(p) PROVE Programmer(f)
  BY <1>1, PageKeeps DEF HEX!Flush
<1>2. CASE r.type = "data"
  <2>1. PICK a \in IF HEX!Jumps(p.data, r) THEN optibootProgramPage(p) ELSE {p} :
           q \in IF a.ok THEN HEX!DataRecord(a, r) ELSE {a}
    BY <1>2 DEF HEX!processRecord
  <2>2. Programmer(a)
    BY <2>1, PageKeeps
  <2>3. Programmer([a EXCEPT !.data = HEX!AppendData(@, r)])
    BY <2>2, NewDataOf
  <2>. QED
    BY <2>1, <2>2, <2>3, PageKeeps DEF HEX!DataRecord
<1>3. CASE r.type = "eof"
  <2>1. PICK a \in HEX!Flush(p) : q = IF a.ok THEN [a EXCEPT !.data.eof = TRUE] ELSE a
    BY <1>3 DEF HEX!processRecord
  <2>2. [a EXCEPT !.data.eof = TRUE] = [a EXCEPT !.data = [@ EXCEPT !.eof = TRUE]]
    OBVIOUS
  <2>. QED
    BY <1>1, <2>1, <2>2, NewDataOf
<1>4. CASE r.type = "upper"
  <2>1. PICK a \in HEX!Flush(p) : q = IF a.ok THEN [a EXCEPT !.data.address = r.full] ELSE a
    BY <1>4 DEF HEX!processRecord
  <2>2. [a EXCEPT !.data.address = r.full] = [a EXCEPT !.data = [@ EXCEPT !.address = r.full]]
    OBVIOUS
  <2>. QED
    BY <1>1, <2>1, <2>2, NewDataOf
<1>5. CASE r.type = "other"
  BY <1>5 DEF HEX!processRecord
<1>6. CASE r.type = "bad"
  BY <1>6, NewOk DEF HEX!processRecord, HEX!Fail
<1>. QED
  BY <1>2, <1>3, <1>4, <1>5, <1>6

-----------------------------------------------------------------------------
(* Uploading *)

\* The part of a session that programs, at one record, keeps the account.
LEMMA RecordStep ==
    ASSUME SessionInv, Uploads, NEW u \in Requests, Record(u)
    PROVE  SessionInv'
<1>. DEFINE r == IF Data.saved \subseteq {u}
                 THEN upload[u].image[upload[u].pos + 1] ELSE [type |-> "bad"]
            p == [ok |-> TRUE, data |-> [Data EXCEPT !.saved = {}],
                  ackWait |-> ob.ackWait, mcu |-> mcu]
<1>1. r.type \in {"data", "eof", "upper", "other", "bad"}
  <2>1. upload[u].image \in Seq(HexRecord) /\ upload[u].pos + 1 \in 1..Len(upload[u].image)
    BY OptibootAssumption DEF Uploads, Upload, Record
  <2>2. upload[u].image[upload[u].pos + 1] \in HexRecord
    BY <2>1
  <2>. QED
    BY <2>2 DEF HexRecord
<1>2. ob.progState = "prog"
  BY DEF Record, InSync
<1>3. Programmer(p)
  <2>1. mcu = [flash |-> mcu.flash, address |-> mcu.address, fifo |-> mcu.fifo]
    BY DEF SessionInv, Mcu
  <2>2. ob.ackWait \in Nat /\ mcu.fifo \in Seq(Answers) /\ Len(mcu.fifo) <= ob.ackWait
    BY <1>2 DEF SessionInv, Owed, AckAccount
  <2>. QED
    BY <2>1, <2>2 DEF Programmer
<1>4. PICK q \in HEX!processRecord(p, r) :
         /\ mcu' = q.mcu
         /\ IF q.ok THEN ob' = [ob EXCEPT !.data = q.data, !.ackWait = q.ackWait]
            ELSE ob' = optibootInit(ob)
  BY DEF Record
<1>. HIDE DEF p, r
<1>5. Programmer(q)
  BY <1>1, <1>3, <1>4, RecordKeeps
<1>6. Mcu' /\ mcu'.fifo \in Seq(Answers)
  BY <1>4, <1>5 DEF Programmer, Mcu
<1>7. CASE q.ok
  <2>1. ob' = [ob EXCEPT !.data = q.data, !.ackWait = q.ackWait]
    BY <1>4, <1>7
  <2>2. /\ Session' /\ ob'.armed \in BOOLEAN /\ SessionDriven'
        /\ ob'.progState = "prog" /\ ob'.ackWait = q.ackWait
    BY <1>2, <2>1 DEF SessionInv, Session, SessionDriven
  <2>3. q.ackWait \in Nat /\ Len(mcu'.fifo) <= q.ackWait
    BY <1>4, <1>5 DEF Programmer
  <2>. QED
    BY <1>6, <2>2, <2>3, Counted
<1>8. CASE ~q.ok
  BY <1>4, <1>6, <1>8, EndedStep
<1>. QED
  BY <1>7, <1>8

LEMMA PartStep ==
    ASSUME SessionInv, NEW u \in Requests, PartOfRecord(u)
    PROVE  SessionInv'
<1>1. ob.progState = "prog"
  BY DEF PartOfRecord, InSync
<1>2. ob' = [ob EXCEPT !.data = [Data EXCEPT !.saved = @ \cup {u}]] /\ mcu' = mcu
  BY DEF PartOfRecord
<1>3. /\ Session' /\ ob'.armed \in BOOLEAN /\ SessionDriven'
      /\ ob'.progState = "prog" /\ ob'.ackWait = ob.ackWait
  BY <1>1, <1>2 DEF SessionInv, Session, SessionDriven
<1>4. /\ Mcu' /\ mcu'.fifo \in Seq(Answers) /\ ob'.ackWait \in Nat
      /\ Len(mcu'.fifo) <= ob'.ackWait
  BY <1>1, <1>2, <1>3 DEF SessionInv, Mcu, Owed, AckAccount
<1>. QED
  BY <1>3, <1>4, Counted

LEMMA NewUpload ==
    ASSUME NEW d \in Upload, NEW n \in Nat, NEW x \in Results
    PROVE  [d EXCEPT !.result = x] \in Upload /\ [d EXCEPT !.pos = n, !.result = x] \in Upload
BY DEF Upload

LEMMA EndsStep ==
    ASSUME Uploads, NEW u \in Requests, NEW x \in Results, Ends(u, x)
    PROVE  Uploads'
<1>1. upload' = [upload EXCEPT ![u] = [upload[u] EXCEPT !.result = x]]
  BY DEF Ends
<1>2. upload[u] \in Upload /\ 0 \in Nat
  BY DEF Uploads
<1>3. [upload[u] EXCEPT !.result = x] \in Upload
  BY <1>2, NewUpload
<1>. QED
  BY <1>1, <1>3 DEF Uploads

LEMMA UploadsStep ==
    ASSUME Uploads, [Next]_vars
    PROVE  Uploads'
<1>1. {"running", "refused", "failed", "success", "lost"} \subseteq Results
  BY DEF Results
<1>2. ASSUME NEW u \in Requests, Record(u) PROVE Uploads'
  <2>1. CASE Ends(u, "failed")
    BY <1>1, <2>1, EndsStep
  <2>2. CASE upload' = [upload EXCEPT ![u].pos = @ + 1, ![u].result = "running"]
    <3>1. upload[u] \in Upload
      BY DEF Uploads
    <3>2. upload[u].pos + 1 \in Nat
      BY <3>1 DEF Upload
    <3>3. [upload[u] EXCEPT !.pos = upload[u].pos + 1, !.result = "running"] \in Upload
      BY <1>1, <3>1, <3>2, NewUpload
    <3>4. upload' = [upload EXCEPT ![u] =
                       [upload[u] EXCEPT !.pos = upload[u].pos + 1, !.result = "running"]]
      <4>1. [[upload EXCEPT ![u].pos = @ + 1] EXCEPT ![u].result = "running"]
            = [upload EXCEPT ![u] =
                 [[upload[u] EXCEPT !.pos = upload[u].pos + 1] EXCEPT !.result = "running"]]
        BY DEF Uploads
      <4>. QED
        BY <2>2, <4>1
    <3>. QED
      BY <3>3, <3>4 DEF Uploads
  <2>. QED
    BY <1>2, <2>1, <2>2 DEF Record
<1>3. CASE WrongSignature
  <2>1. \A u \in Requests : upload[u] \in Upload
    BY DEF Uploads
  <2>2. \A u \in Requests : [upload[u] EXCEPT !.result = "lost"] \in Upload
    BY <1>1, <2>1, NewUpload
  <2>. QED
    BY <1>3, <2>1, <2>2 DEF WrongSignature, Uploads
<1>4. ASSUME NEW u \in Requests,
             Refused(u) \/ PartOfRecord(u) \/ Complete(u) \/ Lost(u)
      PROVE  Uploads'
  <2>1. PICK x \in {"running", "refused", "failed", "success", "lost"} : Ends(u, x)
    BY <1>4 DEF Refused, PartOfRecord, Complete, Lost
  <2>. QED
    BY <1>1, <2>1, EndsStep
<1>5. CASE UNCHANGED upload
  BY <1>5 DEF Uploads
<1>. QED
  BY <1>2, <1>3, <1>4, <1>5 DEF Next, vars, cgiOptibootSync, optibootTimerCB, optibootUartRecv

LEMMA StepOK ==
    ASSUME Inv, [Next]_vars
    PROVE  Inv'
<1>0. SessionInv /\ Uploads
  BY DEF Inv
<1>1. CASE cgiOptibootSync
  BY <1>0, <1>1, SyncStep, UploadsStep DEF Inv
<1>2. CASE optibootTimerCB
  BY <1>0, <1>2, TimerStep, UploadsStep DEF Inv
<1>3. CASE optibootUartRecv
  BY <1>0, <1>3, ReceivedStep, UploadsStep DEF Inv
<1>4. ASSUME NEW u \in Requests, Refused(u) \/ Lost(u) PROVE Inv'
  BY <1>0, <1>4, SameStep, UploadsStep DEF Inv, Refused, Lost
<1>5. ASSUME NEW u \in Requests, PartOfRecord(u) PROVE Inv'
  BY <1>0, <1>5, PartStep, UploadsStep DEF Inv
<1>6. ASSUME NEW u \in Requests, Record(u) PROVE Inv'
  BY <1>0, <1>6, RecordStep, UploadsStep DEF Inv
<1>7. ASSUME NEW u \in Requests, Complete(u) PROVE Inv'
  <2>1. Mcu' /\ mcu'.fifo \in Seq(Answers)
    BY <1>0, <1>7 DEF Complete, SessionInv, Mcu, Owed
  <2>. QED
    BY <1>0, <1>7, <2>1, EndedStep, UploadsStep DEF Inv, Complete
<1>8. CASE UNCHANGED vars
  BY <1>0, <1>8, SameStep, UploadsStep DEF Inv, vars
<1>. QED
  BY <1>1, <1>2, <1>3, <1>4, <1>5, <1>6, <1>7, <1>8 DEF Next

LEMMA InitOK ==
    ASSUME Init
    PROVE  Inv
<1>1. Session /\ ob.armed \in BOOLEAN /\ SessionDriven /\ Mcu
  BY DEF Init, Session, SessionDriven, Mcu
<1>2. Owed
  <2>1. ob.progState = "init" /\ ob.ackWait = 0 /\ mcu.fifo = <<>>
    BY DEF Init
  <2>2. mcu.fifo \in Seq(Answers) /\ ob.progState \notin DOMAIN Expected
    BY <2>1, Questions
  <2>. QED
    BY <2>1, <2>2 DEF Owed, AckAccount
<1>3. Uploads
  BY DEF Init, Uploads, Upload, Results
<1>. QED
  BY <1>1, <1>2, <1>3 DEF Inv, SessionInv

LEMMA InvHolds == Spec => []Inv
<1>1. Init => Inv
  BY InitOK
<1>2. Inv /\ [Next]_vars => Inv'
  BY StepOK
<1>. QED
  BY <1>1, <1>2, PTL DEF Spec

(* A session holds the UART, blocks MQTT and has its timer running all     *)
(* together, whatever requests overlap and whatever is lost: none of the   *)
(* three outlives it.                                                      *)
THEOREM SessionDrivenHolds == Spec => []SessionDriven
<1>1. Inv => SessionDriven
  BY DEF Inv, SessionInv
<1>. QED
  BY <1>1, InvHolds, PTL

(* While programming, no more answers are still to come than ackWait       *)
(* counts, for every image and every sequence of losses.                   *)
THEOREM AckAccountHolds == Spec => []AckAccount
<1>1. Inv => AckAccount
  BY DEF Inv, SessionInv, Owed
<1>. QED
  BY <1>1, InvHolds, PTL

-----------------------------------------------------------------------------
(* What an upload has to achieve, record by record *)

BytesOf(r) == r.full .. r.full + r.len - 1

\* The addresses the first k records have data for.
BytesUpTo(image, k) == UNION {BytesOf(image[j]) : j \in {i \in DataRecords(image) : i <= k}}

\* The upper half of the address that is in force after each record.
Uppers(image) ==
    {b \in [0..Len(image) -> Nat] :
        /\ b[0] = 0
        /\ \A k \in DOMAIN image :
              b[k] = IF image[k].type = "upper" THEN image[k].full ELSE b[k - 1]}

\* An image of the kind a linker makes: its records ascend, none is longer
\* than a page, each has its address in the upper half that was announced,
\* at a word, and the end is at the end.
Suitable(image, b) ==
    /\ \A k \in DataRecords(image) :
          /\ image[k].full % 2 = 0
          /\ image[k].len <= PgmSz
          /\ image[k].full \in b[k] .. b[k] + AddrMod - 1
          /\ BytesOf(image[k]) \subseteq 0..MaxAddress
          /\ \A j \in DataRecords(image) :
                k < j => image[k].full + image[k].len <= image[j].full
    /\ \A k \in DOMAIN image :
          /\ image[k].type = "upper" => image[k].full % AddrMod = 0
          /\ image[k].type = "eof" => k = Len(image)

\* What the boot loader of Optiboot can address by words.
Reachable(image) ==
    \A k \in DataRecords(image) : BytesOf(image[k]) \subseteq 0..2 * AddrMod - 1

LEMMA Records ==
    ASSUME NEW image \in Seq(HexRecord), NEW k \in DOMAIN image
    PROVE  /\ image[k].type \in {"data", "eof", "upper", "other", "bad"}
           /\ image[k].type = "data" => image[k].full \in Nat /\ image[k].len \in Nat
           /\ image[k].type = "upper" => image[k].full \in Nat
BY DEF HexRecord

LEMMA NoBytes ==
    ASSUME NEW image \in Seq(HexRecord)
    PROVE  BytesUpTo(image, 0) = {} /\ BytesUpTo(image, Len(image)) = Bytes(image)
<1>1. \A i \in DataRecords(image) : i \in 1..Len(image)
  BY DEF DataRecords
<1>2. {i \in DataRecords(image) : i <= 0} = {}
  BY <1>1
<1>3. {i \in DataRecords(image) : i <= Len(image)} = DataRecords(image)
  BY <1>1
<1>. QED
  BY <1>2, <1>3 DEF BytesUpTo, Bytes, BytesOf

LEMMA OneRecord ==
    ASSUME NEW image \in Seq(HexRecord), NEW k \in Nat, k + 1 \in DOMAIN image
    PROVE  BytesUpTo(image, k + 1) =
             IF image[k + 1].type = "data" THEN BytesUpTo(image, k) \cup BytesOf(image[k + 1])
             ELSE BytesUpTo(image, k)
<1>1. DataRecords(image) \subseteq Nat
  BY DEF DataRecords
<1>2. CASE image[k + 1].type = "data"
  <2>1. {i \in DataRecords(image) : i <= k + 1} = {i \in DataRecords(image) : i <= k} \cup {k + 1}
    BY <1>1, <1>2 DEF DataRecords
  <2>. QED
    BY <1>2, <2>1 DEF BytesUpTo
<1>3. CASE image[k + 1].type # "data"
  <2>1. {i \in DataRecords(image) : i <= k + 1} = {i \in DataRecords(image) : i <= k}
    BY <1>1, <1>3 DEF DataRecords
  <2>. QED
    BY <1>3, <2>1 DEF BytesUpTo
<1>. QED
  BY <1>2, <1>3

LEMMA InRange ==
    ASSUME NEW image \in Seq(HexRecord), NEW b, Suitable(image, b), NEW k
    PROVE  BytesUpTo(image, k) \subseteq 0..MaxAddress
BY DEF Suitable, BytesUpTo

LEMMA InReach ==
    ASSUME NEW image, Reachable(image), NEW k
    PROVE  BytesUpTo(image, k) \subseteq 0..2 * AddrMod - 1
BY DEF Reachable, BytesUpTo

\* The records of data before one are of lower addresses.
LEMMA Below ==
    ASSUME NEW image \in Seq(HexRecord), NEW b, Suitable(image, b), NEW k \in Nat,
           k + 1 \in DataRecords(image)
    PROVE  BytesUpTo(image, k) \cap BytesOf(image[k + 1]) = {}
<1>. SUFFICES ASSUME NEW a \in BytesUpTo(image, k), a \in BytesOf(image[k + 1]) PROVE FALSE
  OBVIOUS
<1>1. PICK j \in DataRecords(image) : j <= k /\ a \in BytesOf(image[j])
  BY DEF BytesUpTo
<1>2. image[j].full + image[j].len <= image[k + 1].full
  <2>1. j \in Nat /\ j < k + 1
    BY <1>1 DEF DataRecords
  <2>. QED
    BY <2>1 DEF Suitable
<1>3. /\ image[j].full \in Nat /\ image[j].len \in Nat
      /\ image[k + 1].full \in Nat /\ image[k + 1].len \in Nat
  BY Records DEF DataRecords
<1>4. a \in Int /\ a < image[j].full + image[j].len /\ image[k + 1].full <= a
  BY <1>1, <1>3 DEF BytesOf
<1>. QED
  BY <1>2, <1>3, <1>4

LEMMA DivMod ==
    ASSUME NEW m \in Nat \ {0}, NEW b \in Nat, b % m = 0, NEW x \in b .. b + m - 1
    PROVE  x % m = x - b /\ (x \div m) * m = b
<1>1. /\ b = m * (b \div m) + (b % m)
      /\ x = m * (x \div m) + (x % m) /\ (x % m) \in 0..m - 1
      /\ b \div m \in Int /\ x \div m \in Int
  OBVIOUS
<1>. DEFINE c == b \div m
            d == x \div m
<1>2. b = m * c /\ x = m * d + (x % m) /\ (x % m) \in 0..m - 1 /\ c \in Int /\ d \in Int
  BY <1>1
<1>. HIDE DEF c, d
<1>3. m * d - m * c \in -m + 1 .. m - 1
  BY <1>1, <1>2
<1>4. m * (d - c) \in -m + 1 .. m - 1
  BY <1>2, <1>3
<1>5. d - c = 0
  <2>1. CASE d - c >= 1
    BY <1>2, <1>4, <2>1
  <2>2. CASE d - c <= -1
    BY <1>2, <1>4, <2>2
  <2>. QED
    BY <1>2, <2>1, <2>2
<1>. QED
  BY <1>2, <1>5 DEF d

LEMMA WordAddress ==
    ASSUME NEW m \in Nat \ {0}, NEW a \in Nat, a % 2 = 0, a < 2 * m
    PROVE  2 * ((a \div 2) % m) = a
<1>1. a = 2 * (a \div 2) /\ a \div 2 \in Nat /\ a \div 2 < m
  OBVIOUS
<1>. DEFINE c == a \div 2
<1>2. c \in 0 .. 0 + m - 1 /\ a = 2 * c
  BY <1>1
<1>. HIDE DEF c
<1>3. c % m = c - 0
  BY <1>2, DivMod
<1>. QED
  BY <1>2, <1>3 DEF c

LEMMA Even ==
    ASSUME NEW a \in Nat, NEW c \in Nat, a % 2 = 0, c % 2 = 0
    PROVE  (a + c) % 2 = 0
OBVIOUS

\* The bytes from an address on, and two sequences of bytes.
LEMMA Run ==
    ASSUME NEW a \in Nat, NEW n \in Nat
    PROVE  LET more == [i \in 1..n |-> a + i - 1] IN
           more \in Seq(Nat) /\ Len(more) = n /\ \A i \in 1..n : more[i] = a + i - 1
<1>. DEFINE more == [i \in 1..n |-> a + i - 1]
<1>1. \A i \in 1..n : a + i - 1 \in Nat
  OBVIOUS
<1>2. more \in [1..n -> Nat] /\ \A i \in 1..n : more[i] = a + i - 1
  BY <1>1
<1>. HIDE DEF more
<1>3. more \in Seq(Nat) /\ Len(more) = n
  BY <1>2
<1>. QED
  BY <1>2, <1>3 DEF more

LEMMA Joined ==
    ASSUME NEW s \in Seq(Nat), NEW t \in Seq(Nat)
    PROVE  /\ s \o t \in Seq(Nat) /\ Len(s \o t) = Len(s) + Len(t)
           /\ \A i \in 1..Len(s) : (s \o t)[i] = s[i]
           /\ \A i \in 1..Len(t) : (s \o t)[Len(s) + i] = t[i]
OBVIOUS

LEMMA RunSize ==
    ASSUME NEW a \in Nat, NEW n \in Nat
    PROVE  IsFiniteSet(a .. a + n - 1) /\ Cardinality(a .. a + n - 1) = n
<1>. DEFINE z == a + n - 1
<1>1. a \in Int /\ z \in Int
  OBVIOUS
<1>2. (IF a > z THEN 0 ELSE z - a + 1) = n
  OBVIOUS
<1>. HIDE DEF z
<1>3. IsFiniteSet(a..z) /\ Cardinality(a..z) = n
  BY <1>1, <1>2, FS_Interval
<1>. QED
  BY <1>3 DEF z

LEMMA EndToEnd ==
    ASSUME NEW a \in Nat, NEW l \in Nat, NEW n \in Nat
    PROVE  /\ a + (l + n) = (a + l) + n
           /\ a .. a + l + n - 1 = (a .. a + l - 1) \cup (a + l .. a + l + n - 1)
OBVIOUS

-----------------------------------------------------------------------------
(* The page buffer *)

PageBuffers == [pageBuf : Seq(Nat), address : Nat, pgmDone : Nat, eof : BOOLEAN,
                saved : SUBSET Requests]

End(d) == d.address + Len(d.pageBuf)
Buffered(d) == d.address .. End(d) - 1

\* Of the bytes B, those that are not in the buffer are in the flash memory.
Buffer(d, flash, B) ==
    /\ d \in PageBuffers
    /\ \A i \in 1..Len(d.pageBuf) : d.pageBuf[i] = d.address + i - 1
    /\ d.pageBuf # <<>> => d.address % 2 = 0
    /\ Buffered(d) \subseteq B
    /\ \A a \in B \ Buffered(d) : flash[a] = a
    /\ d.pgmDone + Len(d.pageBuf) = Cardinality(B)

\* The flash memory with the first page of the buffer in it.
Paged(d, flash) ==
    LET page == SubSeq(d.pageBuf, 1, PageLen(d)) IN
    [a \in 0..MaxAddress |->
        IF a \in d.address .. d.address + Len(page) - 1 THEN page[a - d.address + 1] ELSE flash[a]]

LEMMA PagedIs ==
    ASSUME NEW d, NEW flash, NEW B, Buffer(d, flash, B), NEW f
    PROVE  \A a \in 0..MaxAddress :
              Paged(d, f)[a] =
                 IF a \in d.address .. d.address + PageLen(d) - 1 THEN a ELSE f[a]
<1>. DEFINE n == PageLen(d)
            L == Len(d.pageBuf)
            page == SubSeq(d.pageBuf, 1, n)
<1>0. /\ d.pageBuf \in Seq(Nat) /\ d.address \in Nat /\ L \in Nat /\ PgmSz \in Nat
  BY HexAssumption DEF Buffer, PageBuffers
<1>a. d.address \in Nat /\ L \in Nat
  BY <1>0
<1>1. n \in Nat /\ n <= L
  BY <1>0 DEF PageLen
<1>. HIDE DEF n
<1>2. Len(page) = n /\ \A i \in 1..n : page[i] = d.pageBuf[i]
  BY <1>0, <1>1
<1>. HIDE DEF page, L
<1>3. Paged(d, f) = [a \in 0..MaxAddress |->
        IF a \in d.address .. d.address + n - 1 THEN page[a - d.address + 1] ELSE f[a]]
  BY <1>2 DEF Paged, page, n
<1>4. \A a \in d.address .. d.address + n - 1 : page[a - d.address + 1] = a
  <2>. SUFFICES ASSUME NEW a \in d.address .. d.address + n - 1
                PROVE page[a - d.address + 1] = a
    OBVIOUS
  <2>. DEFINE i == a - d.address + 1
  <2>1. i \in 1..n /\ i \in 1..L /\ d.address + i - 1 = a
    BY <1>a, <1>1
  <2>. HIDE DEF i
  <2>2. d.pageBuf[i] = d.address + i - 1 /\ page[i] = d.pageBuf[i]
    BY <1>2, <2>1 DEF Buffer, L
  <2>3. page[i] = a
    BY <2>1, <2>2
  <2>. QED
    BY <2>3 DEF i
<1>. QED
  BY <1>3, <1>4 DEF n

LEMMA PageProgrammed ==
    ASSUME NEW d, NEW flash, NEW B, Buffer(d, flash, B), B \subseteq 0..MaxAddress,
           d.pageBuf # <<>>, PgmSz % 2 = 0
    PROVE  LET s == Shifted(d) IN
           /\ Buffer(s, Paged(d, flash), B)
           /\ End(s) = End(d) /\ Len(s.pageBuf) = Len(d.pageBuf) - PageLen(d)
           /\ s.address >= d.address /\ s.eof = d.eof /\ s.saved = d.saved
<1>. DEFINE n == PageLen(d)
            L == Len(d.pageBuf)
            page == SubSeq(d.pageBuf, 1, n)
            rest == SubSeq(d.pageBuf, n + 1, L)
            s == Shifted(d)
<1>0. /\ d \in PageBuffers /\ d.pageBuf \in Seq(Nat) /\ d.address \in Nat /\ d.pgmDone \in Nat
      /\ L \in Nat /\ PgmSz \in Nat /\ PgmSz # 0
  BY HexAssumption DEF Buffer, PageBuffers
<1>a. d.address \in Nat /\ L \in Nat
  BY <1>0
<1>1. n \in Nat /\ n <= L /\ (n = PgmSz \/ n = L) /\ n > 0
  BY <1>0 DEF PageLen
<1>. HIDE DEF n
<1>2. /\ page \in Seq(Nat) /\ Len(page) = n /\ \A i \in 1..n : page[i] = d.pageBuf[i]
      /\ rest \in Seq(Nat) /\ Len(rest) = L - n /\ \A i \in 1..L - n : rest[i] = d.pageBuf[n + i]
  BY <1>0, <1>1
<1>3. s = [pageBuf |-> rest, address |-> d.address + n, pgmDone |-> d.pgmDone + n,
           eof |-> d.eof, saved |-> d.saved]
  <2>1. s = [d EXCEPT !.pageBuf = rest, !.address = @ + n, !.pgmDone = @ + n]
    BY DEF Shifted, n
  <2>. QED
    BY <1>0, <2>1 DEF PageBuffers
<1>. HIDE DEF s, rest, page, L
<1>4. s \in PageBuffers
  BY <1>0, <1>1, <1>2, <1>3 DEF PageBuffers
<1>5. End(s) = End(d) /\ Len(s.pageBuf) = L - n
  BY <1>0, <1>1, <1>2, <1>3 DEF End, L
<1>8. \A a \in 0..MaxAddress :
         Paged(d, flash)[a] = IF a \in d.address .. d.address + n - 1 THEN a ELSE flash[a]
  BY PagedIs DEF n
<1>10. \A i \in 1..Len(s.pageBuf) : s.pageBuf[i] = s.address + i - 1
  <2>. SUFFICES ASSUME NEW i \in 1..L - n PROVE rest[i] = d.address + n + i - 1
    BY <1>3, <1>5
  <2>1. n + i \in 1..L
    BY <1>a, <1>1
  <2>2. d.pageBuf[n + i] = d.address + (n + i) - 1
    BY <2>1 DEF Buffer, L
  <2>3. rest[i] = d.pageBuf[n + i]
    BY <1>2
  <2>4. d.address + (n + i) - 1 = d.address + n + i - 1
    BY <1>a, <1>1
  <2>. QED
    BY <2>2, <2>3, <2>4
<1>11. s.pageBuf # <<>> => s.address % 2 = 0
  <2>. SUFFICES ASSUME s.pageBuf # <<>> PROVE s.address % 2 = 0
    OBVIOUS
  <2>1. Len(s.pageBuf) # 0
    BY <1>2, <1>3
  <2>2. n = PgmSz
    BY <1>1, <1>5, <2>1 DEF L
  <2>3. d.address % 2 = 0
    BY DEF Buffer
  <2>4. s.address = d.address + PgmSz
    BY <1>3, <2>2
  <2>. QED
    BY <1>0, <2>3, <2>4, Even
<1>12. Buffered(s) \subseteq B
  <2>1. Buffered(s) \subseteq Buffered(d)
    BY <1>0, <1>1, <1>3, <1>5 DEF Buffered, End
  <2>. QED
    BY <2>1 DEF Buffer
<1>13. \A a \in B \ Buffered(s) : Paged(d, flash)[a] = a
  <2>. SUFFICES ASSUME NEW a \in B, a \notin Buffered(s) PROVE Paged(d, flash)[a] = a
    OBVIOUS
  <2>1. a \in 0..MaxAddress
    OBVIOUS
  <2>2. CASE a \in Buffered(d)
    <3>1. a \in d.address .. d.address + n - 1
      BY <1>0, <1>1, <1>3, <1>5, <2>2 DEF Buffered, End
    <3>. QED
      BY <1>8, <2>1, <3>1
  <2>3. CASE a \notin Buffered(d)
    <3>1. flash[a] = a
      BY <2>3 DEF Buffer
    <3>. QED
      BY <1>8, <2>1, <3>1
  <2>. QED
    BY <2>2, <2>3
<1>14. s.pgmDone + Len(s.pageBuf) = Cardinality(B)
  <2>1. d.pgmDone + L = Cardinality(B)
    BY DEF Buffer, L
  <2>. QED
    BY <1>0, <1>1, <1>3, <1>5, <2>1
<1>15. Buffer(s, Paged(d, flash), B)
  BY <1>4, <1>10, <1>11, <1>12, <1>13, <1>14 DEF Buffer
<1>. QED
  BY <1>0, <1>1, <1>3, <1>5, <1>15 DEF s, n, L

\* The record r comes after the bytes B, in the upper half b of the address,
\* where the buffer ends unless it is empty.
Follows(r, B, d, b) ==
    /\ r.full \in Nat /\ r.len \in Nat /\ r.full % 2 = 0
    /\ b \in Nat /\ b % AddrMod = 0 /\ r.full \in b .. b + AddrMod - 1
    /\ b <= d.address /\ End(d) <= r.full
    /\ d.pageBuf # <<>> => End(d) = r.full
    /\ B \cap BytesOf(r) = {}

LEMMA Appended ==
    ASSUME NEW d, NEW flash, NEW B, Buffer(d, flash, B), B \subseteq 0..MaxAddress,
           NEW r, NEW b, Follows(r, B, d, b)
    PROVE  LET s == HEX!AppendData(d, r) IN
           /\ Buffer(s, flash, B \cup BytesOf(r))
           /\ End(s) = r.full + r.len /\ Len(s.pageBuf) = Len(d.pageBuf) + r.len
           /\ b <= s.address /\ s.eof = d.eof /\ s.saved = d.saved
<1>. DEFINE L == Len(d.pageBuf)
            more == [i \in 1..r.len |-> r.full + i - 1]
            at == IF d.pageBuf = <<>>
                  THEN (d.address \div AddrMod) * AddrMod + (r.full % AddrMod) ELSE d.address
            s == HEX!AppendData(d, r)
<1>. /\ r.full \in Nat /\ r.len \in Nat /\ r.full % 2 = 0
     /\ b \in Nat /\ b % AddrMod = 0 /\ r.full \in b .. b + AddrMod - 1
     /\ b <= d.address /\ End(d) <= r.full
     /\ d.pageBuf # <<>> => End(d) = r.full
     /\ B \cap BytesOf(r) = {}
  BY DEF Follows
<1>0. /\ d \in PageBuffers /\ d.pageBuf \in Seq(Nat) /\ d.address \in Nat /\ d.pgmDone \in Nat
      /\ L \in Nat /\ AddrMod \in Nat \ {0}
  BY HexAssumption DEF Buffer, PageBuffers
<1>1. more \in Seq(Nat) /\ Len(more) = r.len /\ \A i \in 1..r.len : more[i] = r.full + i - 1
  BY Run
<1>2. s = [pageBuf |-> d.pageBuf \o more, address |-> at, pgmDone |-> d.pgmDone,
           eof |-> d.eof, saved |-> d.saved]
  <2>1. s = [d EXCEPT !.address = at, !.pageBuf = @ \o more]
    BY DEF HEX!AppendData
  <2>. HIDE DEF s, at, more
  <2>. QED
    BY <1>0, <2>1 DEF PageBuffers
<1>. DEFINE both == d.pageBuf \o more
<1>3. /\ both \in Seq(Nat) /\ Len(both) = L + r.len
      /\ \A i \in 1..L : both[i] = d.pageBuf[i]
      /\ \A i \in 1..r.len : both[L + i] = more[i]
  <2>. HIDE DEF more
  <2>1. d.pageBuf \in Seq(Nat) /\ more \in Seq(Nat) /\ Len(more) = r.len
    BY <1>0, <1>1
  <2>2. /\ d.pageBuf \o more \in Seq(Nat)
        /\ Len(d.pageBuf \o more) = Len(d.pageBuf) + Len(more)
        /\ \A i \in 1..Len(d.pageBuf) : (d.pageBuf \o more)[i] = d.pageBuf[i]
        /\ \A i \in 1..Len(more) : (d.pageBuf \o more)[Len(d.pageBuf) + i] = more[i]
    BY <2>1, Joined
  <2>. QED
    BY <2>1, <2>2
<1>4. at = (IF d.pageBuf = <<>> THEN r.full ELSE d.address) /\ at + L = r.full
  <2>1. CASE d.pageBuf = <<>>
    <3>1. d.address <= r.full /\ L = 0
      BY <1>0, <2>1 DEF End
    <3>2. d.address \in b .. b + AddrMod - 1
      BY <1>0, <3>1
    <3>3. (d.address \div AddrMod) * AddrMod = b /\ r.full % AddrMod = r.full - b
      BY <1>0, <3>2, DivMod
    <3>4. at = b + (r.full - b)
      BY <2>1, <3>3
    <3>. QED
      BY <2>1, <3>1, <3>4
  <2>2. CASE d.pageBuf # <<>>
    BY <1>0, <2>2 DEF End
  <2>. QED
    BY <2>1, <2>2
<1>. HIDE DEF more, at, s
<1>5. at \in Nat /\ b <= at /\ at % 2 = 0
  BY <1>0, <1>4 DEF Buffer
<1>. HIDE DEF both, L
<1>6. s = [pageBuf |-> both, address |-> at, pgmDone |-> d.pgmDone, eof |-> d.eof,
           saved |-> d.saved]
  BY <1>2 DEF both
<1>7. s \in PageBuffers /\ End(s) = r.full + r.len /\ Len(s.pageBuf) = L + r.len
  <2>1. s.pageBuf = both /\ s.address = at /\ s.pgmDone = d.pgmDone
    BY <1>6
  <2>2. s \in PageBuffers
    BY <1>0, <1>3, <1>5, <1>6 DEF PageBuffers
  <2>3. Len(both) = L + r.len /\ at + L = r.full
    BY <1>3, <1>4
  <2>4. at + Len(both) = r.full + r.len
    <3>1. at \in Nat /\ L \in Nat /\ r.len \in Nat
      BY <1>0, <1>5
    <3>2. at + (L + r.len) = (at + L) + r.len
      BY <3>1, EndToEnd
    <3>. QED
      BY <2>3, <3>2
  <2>. QED
    BY <2>1, <2>2, <2>3, <2>4 DEF End
<1>8. \A i \in 1..Len(s.pageBuf) : s.pageBuf[i] = s.address + i - 1
  <2>. SUFFICES ASSUME NEW i \in 1..L + r.len PROVE both[i] = at + i - 1
    BY <1>6, <1>7
  <2>1. CASE i \in 1..L
    <3>1. d.pageBuf[i] = d.address + i - 1
      BY <2>1 DEF Buffer, L
    <3>2. d.pageBuf # <<>>
      BY <1>0, <2>1 DEF L
    <3>. QED
      BY <1>3, <1>4, <2>1, <3>1, <3>2
  <2>2. CASE i \notin 1..L
    <3>. DEFINE j == i - L
    <3>1. j \in 1..r.len /\ i = L + j
      BY <1>0, <2>2
    <3>. HIDE DEF j
    <3>2. both[L + j] = r.full + j - 1
      BY <1>1, <1>3, <3>1
    <3>. QED
      BY <1>0, <1>4, <1>5, <3>1, <3>2
  <2>. QED
    BY <2>1, <2>2
<1>9. /\ Buffered(s) \subseteq B \cup BytesOf(r)
      /\ Buffered(d) \cup BytesOf(r) \subseteq Buffered(s)
  <2>1. Buffered(d) \subseteq B
    BY DEF Buffer
  <2>2. Buffered(s) = at .. r.full + r.len - 1
    BY <1>6, <1>7 DEF Buffered
  <2>3. Buffered(d) = d.address .. d.address + L - 1
    BY <1>0 DEF Buffered, End, L
  <2>4. CASE d.pageBuf = <<>>
    <3>1. L = 0 /\ at = r.full
      BY <1>4, <2>4 DEF L
    <3>2. Buffered(s) = BytesOf(r) /\ Buffered(d) = {}
      BY <1>0, <2>2, <2>3, <3>1 DEF BytesOf
    <3>. QED
      BY <3>2
  <2>5. CASE d.pageBuf # <<>>
    <3>1. at = d.address /\ d.address + L = r.full
      BY <1>4, <2>5
    <3>2. Buffered(s) = Buffered(d) \cup BytesOf(r)
      <4>1. /\ Buffered(s) = d.address .. d.address + L + r.len - 1
            /\ Buffered(d) = d.address .. d.address + L - 1
            /\ BytesOf(r) = d.address + L .. d.address + L + r.len - 1
        BY <2>2, <2>3, <3>1, Zenon DEF BytesOf
      <4>. DEFINE c == d.address
      <4>2. c \in Nat /\ L \in Nat /\ r.len \in Nat
        BY <1>0
      <4>. HIDE DEF c
      <4>3. \A l, m \in Nat :
               c .. c + l + m - 1 = (c .. c + l - 1) \cup (c + l .. c + l + m - 1)
        BY <4>2
      <4>4. c .. c + L + r.len - 1 = (c .. c + L - 1) \cup (c + L .. c + L + r.len - 1)
        BY <4>2, <4>3, Zenon
      <4>. QED
        BY <4>1, <4>4, Zenon DEF c
    <3>. QED
      BY <2>1, <3>2
  <2>. QED
    BY <2>4, <2>5
<1>10. \A a \in (B \cup BytesOf(r)) \ Buffered(s) : flash[a] = a
  BY <1>9 DEF Buffer
<1>11. s.pgmDone + Len(s.pageBuf) = Cardinality(B \cup BytesOf(r))
  <2>1. d.pgmDone + L = Cardinality(B)
    BY DEF Buffer, L
  <2>2. IsFiniteSet(BytesOf(r)) /\ Cardinality(BytesOf(r)) = r.len
    BY RunSize DEF BytesOf
  <2>3. IsFiniteSet(B)
    <3>1. IsFiniteSet(0..MaxAddress)
      BY OptibootAssumption, FS_Interval
    <3>. QED
      BY <3>1, FS_Subset
  <2>4. Cardinality(B \cup BytesOf(r)) = Cardinality(B) + r.len - 0
    BY <2>2, <2>3, FS_Union, FS_EmptySet
  <2>5. s.pgmDone = d.pgmDone /\ Len(s.pageBuf) = L + r.len
    BY <1>6, <1>7
  <2>6. Cardinality(B) \in Nat
    BY <2>3, FS_CardinalityType
  <2>. HIDE DEF L
  <2>7. Cardinality(B \cup BytesOf(r)) = Cardinality(B) + r.len
    BY <2>4, <2>6
  <2>. QED
    BY <1>0, <2>1, <2>5, <2>7
<1>12. Buffer(s, flash, B \cup BytesOf(r))
  BY <1>5, <1>6, <1>7, <1>8, <1>9, <1>10, <1>11 DEF Buffer
<1>. QED
  BY <1>5, <1>6, <1>7, <1>12 DEF s, L

-----------------------------------------------------------------------------
(* An answer to every command that was sent means that each was executed.  *)

LEMMA PollDone ==
    ASSUME NEW p, Programmer(p), pollAck(p).ok
    PROVE  /\ Len(p.mcu.fifo) >= p.ackWait
           /\ pollAck(p).data = p.data
           /\ pollAck(p).mcu.flash = p.mcu.flash /\ pollAck(p).mcu.address = p.mcu.address
<1>0. p = [ok |-> p.ok, data |-> p.data, ackWait |-> p.ackWait, mcu |-> p.mcu]
      /\ p.mcu = [flash |-> p.mcu.flash, address |-> p.mcu.address, fifo |-> p.mcu.fifo]
  BY DEF Programmer
<1>1. CASE Len(p.mcu.fifo) >= p.ackWait
  <2>. DEFINE rest == SubSeq(p.mcu.fifo, p.ackWait + 1, Len(p.mcu.fifo))
              first == p.mcu.fifo[1] = "ack"
              m == [p.mcu EXCEPT !.fifo = rest]
              z == [p EXCEPT !.ackWait = 0]
              c == [z EXCEPT !.mcu = m]
  <2>1. pollAck(p) = [c EXCEPT !.ok = first]
    BY <1>1 DEF pollAck
  <2>2. m.flash = p.mcu.flash /\ m.address = p.mcu.address
    BY <1>0
  <2>. HIDE DEF first, rest, m
  <2>3. z = [ok |-> p.ok, data |-> p.data, ackWait |-> 0, mcu |-> p.mcu]
    BY <1>0
  <2>. HIDE DEF z
  <2>4. c = [ok |-> p.ok, data |-> p.data, ackWait |-> 0, mcu |-> m]
    BY <2>3
  <2>. HIDE DEF c
  <2>. QED
    BY <1>1, <2>1, <2>2, <2>4
<1>2. CASE ~(Len(p.mcu.fifo) >= p.ackWait)
  <2>1. pollAck(p).ok = FALSE
    BY <1>0, <1>2 DEF pollAck
  <2>. QED
    BY <2>1
<1>. QED
  BY <1>1, <1>2

LEMMA AskDone ==
    ASSUME NEW p, Programmer(p), NEW e, McuOf(e), e.fifo = p.mcu.fifo,
           NEW q \in Ask(p, e), q.ok
    PROVE  q.data = p.data /\ q.mcu.flash = e.flash /\ q.mcu.address = e.address
<1>1. PICK m \in Commanded(p.mcu, e, "ack") :
         q = pollAck([p EXCEPT !.ackWait = @ + 1, !.mcu = m])
  BY DEF Ask
<1>2. /\ p = [ok |-> p.ok, data |-> p.data, ackWait |-> p.ackWait, mcu |-> p.mcu]
      /\ McuOf(p.mcu) /\ p.mcu.fifo \in Seq(Answers) /\ p.ackWait \in Nat
      /\ Len(p.mcu.fifo) <= p.ackWait /\ "ack" \in Answers
  BY DEF Programmer, McuOf, Answers
<1>3. \/ m = [e EXCEPT !.fifo = Append(e.fifo, "ack")]
      \/ m = e
      \/ m = p.mcu
  BY <1>1 DEF Commanded
<1>4. /\ McuOf(m)
      /\ \/ m.fifo = Append(p.mcu.fifo, "ack") /\ m.flash = e.flash /\ m.address = e.address
         \/ m.fifo = p.mcu.fifo
  BY <1>2, <1>3 DEF McuOf
<1>. DEFINE c == [p EXCEPT !.ackWait = @ + 1, !.mcu = m]
<1>5. c.data = p.data /\ c.mcu = m /\ c.ackWait = p.ackWait + 1
  BY <1>2
<1>6. m.fifo \in Seq(Answers) /\ Len(m.fifo) <= p.ackWait + 1 /\ p.ackWait + 1 \in Nat
  <2>1. CASE m.fifo = p.mcu.fifo
    BY <1>2, <2>1
  <2>2. CASE m.fifo = Append(p.mcu.fifo, "ack")
    BY <1>2, <2>2
  <2>. QED
    BY <1>4, <2>1, <2>2
<1>7. Programmer(c)
  BY <1>4, <1>6, NewAnswers
<1>. HIDE DEF c
<1>8. /\ Len(m.fifo) >= p.ackWait + 1
      /\ q.data = p.data /\ q.mcu.flash = m.flash /\ q.mcu.address = m.address
  BY <1>1, <1>5, <1>7, PollDone DEF c
<1>9. m.fifo # p.mcu.fifo
  BY <1>2, <1>8
<1>. QED
  BY <1>4, <1>8, <1>9

\* Each page goes to its address: to the words from there on, which are
\* among those the boot loader can address.
LEMMA PageDone ==
    ASSUME NEW p, Programmer(p), NEW B, Buffer(p.data, p.mcu.flash, B),
           B \subseteq 0..2 * AddrMod - 1, p.data.pageBuf # <<>>,
           NEW q \in optibootProgramPage(p), q.ok
    PROVE  q.data = Shifted(p.data) /\ q.mcu.flash = Paged(p.data, p.mcu.flash)
<1>. DEFINE d == p.data
<1>1. /\ d \in PageBuffers /\ d.pageBuf \in Seq(Nat) /\ d.address \in Nat
      /\ d.address % 2 = 0 /\ AddrMod \in Nat \ {0} /\ Len(d.pageBuf) > 0
  BY HexAssumption DEF Buffer, PageBuffers
<1>2. d.address < 2 * AddrMod
  <2>1. d.address \in Buffered(d)
    BY <1>1 DEF Buffered, End
  <2>2. d.address \in 0..2 * AddrMod - 1
    BY <2>1 DEF Buffer
  <2>. QED
    BY <1>1, <2>2
<1>3. 2 * ((d.address \div 2) % AddrMod) = d.address
  BY <1>1, <1>2, WordAddress
<1>4. CASE p.ackWait > AckLimit
  <2>1. optibootProgramPage(p) = {[p EXCEPT !.ok = FALSE]}
    BY <1>4, Zenon DEF optibootProgramPage
  <2>. QED
    BY <2>1 DEF Programmer
<1>5. CASE ~(p.ackWait > AckLimit)
  <2>. DEFINE e == LoadAddress(p.mcu, d.address)
  <2>1. McuOf(e) /\ e.fifo = p.mcu.fifo /\ e.flash = p.mcu.flash /\ e.address = d.address
    BY <1>3 DEF LoadAddress, Programmer, McuOf
  <2>. HIDE DEF e
  <2>2. PICK a \in Ask(p, e) :
           q \in IF ~a.ok THEN {a}
                ELSE {IF r.ok THEN [r EXCEPT !.data = Shifted(@)] ELSE r : r \in LoadPage(a)}
    BY <1>5 DEF optibootProgramPage, e
  <2>3. Programmer(a)
    BY <2>1, AskKeeps
  <2>4. a.ok
    BY <2>2
  <2>5. a.data = d /\ a.mcu.flash = p.mcu.flash /\ a.mcu.address = d.address
    BY <2>1, <2>4, AskDone
  <2>6. PICK r \in LoadPage(a) : q = IF r.ok THEN [r EXCEPT !.data = Shifted(@)] ELSE r
    BY <2>2, <2>4
  <2>. DEFINE f == ProgPage(a.mcu, SubSeq(a.data.pageBuf, 1, PageLen(a.data)))
  <2>7. McuOf(f) /\ f.fifo = a.mcu.fifo /\ f.flash = Paged(d, p.mcu.flash)
    <3>1. \A m, g : McuOf(m) => /\ McuOf([m EXCEPT !.flash = g])
                               /\ [m EXCEPT !.flash = g].fifo = m.fifo
                               /\ [m EXCEPT !.flash = g].flash = g
      BY DEF McuOf
    <3>2. McuOf(a.mcu)
      BY <2>3 DEF Programmer, McuOf
    <3>3. f = [a.mcu EXCEPT !.flash = Paged(d, p.mcu.flash)]
      BY <2>5 DEF ProgPage, Paged
    <3>. HIDE DEF f
    <3>. QED
      BY <3>1, <3>2, <3>3
  <2>8. r \in Ask(a, f)
    BY <2>6 DEF LoadPage
  <2>. HIDE DEF f
  <2>9. r.ok
    BY <2>6
  <2>10. r.data = d /\ r.mcu.flash = Paged(d, p.mcu.flash) /\ Programmer(r)
    BY <2>3, <2>5, <2>7, <2>8, <2>9, AskDone, AskKeeps
  <2>11. q = [r EXCEPT !.data = Shifted(d)]
    BY <2>6, <2>9, <2>10
  <2>. QED
    BY <2>10, <2>11 DEF Programmer
<1>. QED
  BY <1>4, <1>5

-----------------------------------------------------------------------------
(* One record: what it makes of the page buffer, whoever programs the page *)

\* After the first k records of an image: its bytes so far are in the flash
\* memory or in the buffer, which holds less than a page and does not reach
\* into what is to come in this upper half of the address.
At(d, flash, image, k, b) ==
    /\ Buffer(d, flash, BytesUpTo(image, k))
    /\ Len(d.pageBuf) < PgmSz
    /\ b[k] % AddrMod = 0 /\ b[k] <= d.address
    /\ \A j \in DataRecords(image) : j > k /\ b[j] = b[k] => End(d) <= image[j].full
    /\ d.eof => k = Len(image) /\ d.pageBuf = <<>>

\* The first page of the buffer d is programmed: e is what is left.
Page(d, flash, e, flashed) == e = Shifted(d) /\ flashed = Paged(d, flash)

\* In between: the bytes of the first k records are in the flash memory or in
\* the buffer, which is not yet short of a page.
Gathered(d, flash, image, k, b) ==
    /\ Buffer(d, flash, BytesUpTo(image, k))
    /\ Len(d.pageBuf) < 2 * PgmSz
    /\ b[k] % AddrMod = 0 /\ b[k] <= d.address
    /\ \A j \in DataRecords(image) : j > k /\ b[j] = b[k] => End(d) <= image[j].full
    /\ ~d.eof

\* A partial page leaves nothing in the buffer.
LEMMA PartPage ==
    ASSUME PgmSz % 2 = 0, NEW d, NEW f, NEW e, NEW g, NEW B, Page(d, f, e, g),
           Buffer(d, f, B), B \subseteq 0..MaxAddress, d.pageBuf # <<>>, Len(d.pageBuf) < PgmSz
    PROVE  /\ Buffer(e, g, B) /\ e.pageBuf = <<>> /\ End(e) = End(d)
           /\ e.address >= d.address /\ e.eof = d.eof /\ e.saved = d.saved
<1>1. /\ Buffer(e, g, B) /\ End(e) = End(d)
      /\ Len(e.pageBuf) = Len(d.pageBuf) - PageLen(d)
      /\ e.address >= d.address /\ e.eof = d.eof /\ e.saved = d.saved
  BY PageProgrammed DEF Page
<1>2. PageLen(d) = Len(d.pageBuf) /\ d.pageBuf \in Seq(Nat)
  BY HexAssumption DEF PageLen, Buffer, PageBuffers
<1>3. Len(e.pageBuf) = 0 /\ e.pageBuf \in Seq(Nat)
  BY <1>1, <1>2 DEF Buffer, PageBuffers
<1>. QED
  BY <1>1, <1>3

\* The buffer, if it is not empty, ends where the record begins: else the
\* address would be seen to jump.
LEMMA Contiguous ==
    ASSUME NEW d, d \in PageBuffers, NEW r, r.full \in Nat, NEW b \in Nat, b % AddrMod = 0,
           b <= d.address, End(d) <= r.full, r.full \in b .. b + AddrMod - 1,
           ~HEX!Jumps(d, r), d.pageBuf # <<>>
    PROVE  End(d) = r.full
<1>. DEFINE e == End(d)
<1>1. d.address \in Nat /\ Len(d.pageBuf) \in Nat /\ AddrMod \in Nat \ {0}
  BY HexAssumption DEF PageBuffers
<1>2. e \in Nat /\ b <= e /\ e <= r.full
  BY <1>1 DEF End
<1>3. r.full % AddrMod = e % AddrMod
  BY DEF HEX!Jumps, End
<1>. HIDE DEF e
<1>4. e \in b .. b + AddrMod - 1
  BY <1>1, <1>2
<1>5. e % AddrMod = e - b /\ (e \div AddrMod) * AddrMod = b
  BY <1>1, <1>4, DivMod
<1>6. r.full % AddrMod = r.full - b /\ (r.full \div AddrMod) * AddrMod = b
  BY <1>1, DivMod
<1>. QED
  BY <1>2, <1>3, <1>5, <1>6 DEF e

\* The upper half of the address that is in force.
LEMMA UpperNow ==
    ASSUME NEW image \in Seq(HexRecord), NEW b \in Uppers(image),
           NEW k \in Nat, k + 1 \in DOMAIN image
    PROVE  /\ b[k + 1] = IF image[k + 1].type = "upper" THEN image[k + 1].full ELSE b[k]
           /\ b[k] \in Nat /\ k # Len(image)
<1>1. k \in 0..Len(image) /\ (k + 1) - 1 = k
  OBVIOUS
<1>. QED
  BY <1>1 DEF Uppers

\* Data: the buffer is programmed if the address jumps, and the record then
\* appended.
LEMMA DataGathered ==
    ASSUME PgmSz % 2 = 0, NEW image \in Seq(HexRecord), NEW b \in Uppers(image),
           Suitable(image, b), NEW k \in Nat, k + 1 \in DOMAIN image,
           image[k + 1].type = "data", NEW d, NEW f, At(d, f, image, k, b), NEW e, NEW g,
           IF HEX!Jumps(d, image[k + 1]) THEN Page(d, f, e, g) ELSE e = d /\ g = f
    PROVE  /\ Gathered(HEX!AppendData(e, image[k + 1]), g, image, k + 1, b)
           /\ HEX!AppendData(e, image[k + 1]).saved = d.saved
<1>. DEFINE r == image[k + 1]
            B == BytesUpTo(image, k)
            C == BytesUpTo(image, k + 1)
            u == b[k]
<1>1. k + 1 \in DataRecords(image) /\ r.full \in Nat /\ r.len \in Nat /\ r.type = "data"
  BY Records DEF DataRecords
<1>2. b[k + 1] = u /\ u \in Nat /\ k # Len(image)
  BY <1>1, UpperNow
<1>3. /\ r.full % 2 = 0 /\ r.len <= PgmSz /\ r.full \in u .. u + AddrMod - 1
      /\ \A j \in DataRecords(image) : k + 1 < j => r.full + r.len <= image[j].full
  BY <1>1, <1>2 DEF Suitable
<1>4. /\ B \subseteq 0..MaxAddress /\ C = B \cup BytesOf(r) /\ B \cap BytesOf(r) = {}
  BY <1>1, InRange, OneRecord, Below
<1>5. /\ Buffer(d, f, B) /\ Len(d.pageBuf) < PgmSz
      /\ u % AddrMod = 0 /\ u <= d.address /\ End(d) <= r.full /\ ~d.eof
  <2>1. k + 1 > k
    OBVIOUS
  <2>. QED
    BY <1>1, <1>2, <2>1 DEF At
<1>6. \A j \in DataRecords(image) : j \in Nat
  BY DEF DataRecords
<1>. HIDE DEF r, B, C, u
<1>7. /\ Buffer(e, g, B) /\ Len(e.pageBuf) < PgmSz
      /\ u <= e.address /\ End(e) <= r.full
      /\ e.pageBuf # <<>> => End(e) = r.full
      /\ e.eof = d.eof /\ e.saved = d.saved
  <2>1. CASE HEX!Jumps(d, r)
    <3>1. Page(d, f, e, g) /\ d.pageBuf # <<>>
      BY <2>1 DEF HEX!Jumps, r
    <3>2. /\ Buffer(e, g, B) /\ e.pageBuf = <<>> /\ End(e) = End(d)
          /\ e.address >= d.address /\ e.eof = d.eof /\ e.saved = d.saved
      BY <1>4, <1>5, <3>1, PartPage
    <3>3. e.address \in Nat /\ d.address \in Nat /\ Len(<<>>) = 0 /\ 0 < PgmSz
      BY <1>5, <3>2, HexAssumption DEF Buffer, PageBuffers
    <3>. QED
      BY <1>2, <1>5, <3>2, <3>3
  <2>2. CASE ~HEX!Jumps(d, r)
    <3>1. e = d /\ g = f
      BY <2>2 DEF r
    <3>2. d.pageBuf # <<>> => End(d) = r.full
      BY <1>1, <1>2, <1>3, <1>5, <2>2, Contiguous DEF Buffer
    <3>. QED
      BY <1>5, <3>1, <3>2
  <2>. QED
    BY <2>1, <2>2
<1>. DEFINE s == HEX!AppendData(e, r)
<1>8. /\ Buffer(s, g, C)
      /\ End(s) = r.full + r.len /\ Len(s.pageBuf) = Len(e.pageBuf) + r.len
      /\ u <= s.address /\ s.eof = e.eof /\ s.saved = e.saved
  <2>1. Follows(r, B, e, u)
    BY <1>1, <1>2, <1>3, <1>4, <1>5, <1>7, Zenon DEF Follows
  <2>2. /\ Buffer(s, g, B \cup BytesOf(r))
        /\ End(s) = r.full + r.len /\ Len(s.pageBuf) = Len(e.pageBuf) + r.len
        /\ u <= s.address /\ s.eof = e.eof /\ s.saved = e.saved
    BY <1>4, <1>7, <2>1, Appended
  <2>. QED
    BY <1>4, <2>2
<1>. HIDE DEF s
<1>9. Len(s.pageBuf) < 2 * PgmSz
  <2>1. Len(e.pageBuf) \in Nat /\ PgmSz \in Nat
    BY <1>7, HexAssumption DEF Buffer, PageBuffers
  <2>. QED
    BY <1>1, <1>3, <1>7, <1>8, <2>1
<1>10. Gathered(s, g, image, k + 1, b) /\ s.saved = d.saved
  BY <1>2, <1>3, <1>5, <1>6, <1>7, <1>8, <1>9 DEF Gathered, C
<1>. QED
  BY <1>10 DEF s, r

\* A buffer that holds a page is programmed.
LEMMA GatheredAt ==
    ASSUME PgmSz % 2 = 0, NEW image \in Seq(HexRecord), NEW b \in Uppers(image),
           Suitable(image, b), NEW k \in DOMAIN image, NEW d, NEW f,
           Gathered(d, f, image, k, b), NEW e, NEW g,
           IF Len(d.pageBuf) >= PgmSz THEN Page(d, f, e, g) ELSE e = d /\ g = f
    PROVE  At(e, g, image, k, b) /\ e.saved = d.saved
<1>. DEFINE B == BytesUpTo(image, k)
            u == b[k]
<1>1. /\ Buffer(d, f, B) /\ Len(d.pageBuf) < 2 * PgmSz /\ u % AddrMod = 0 /\ u <= d.address
      /\ \A j \in DataRecords(image) : j > k /\ b[j] = u => End(d) <= image[j].full
      /\ ~d.eof
  BY DEF Gathered
<1>2. B \subseteq 0..MaxAddress /\ u \in Nat
  BY InRange DEF Uppers
<1>3. d.address \in Nat /\ Len(d.pageBuf) \in Nat /\ PgmSz \in Nat \ {0}
  BY <1>1, HexAssumption DEF Buffer, PageBuffers
<1>. HIDE DEF B
<1>4. CASE Len(d.pageBuf) >= PgmSz
  <2>1. d.pageBuf # <<>> /\ PageLen(d) = PgmSz
    BY <1>3, <1>4 DEF PageLen
  <2>2. /\ Buffer(e, g, B) /\ End(e) = End(d)
        /\ Len(e.pageBuf) = Len(d.pageBuf) - PgmSz
        /\ e.address >= d.address /\ e.eof = d.eof /\ e.saved = d.saved
    BY <1>1, <1>2, <1>4, <2>1, PageProgrammed DEF Page
  <2>3. Len(e.pageBuf) < PgmSz
    BY <1>1, <1>3, <2>2
  <2>4. u <= e.address
    <3>1. e.address \in Nat
      BY <2>2 DEF Buffer, PageBuffers
    <3>. QED
      BY <1>1, <1>2, <1>3, <2>2, <3>1
  <2>. QED
    BY <1>1, <2>2, <2>3, <2>4 DEF At, B
<1>5. CASE ~(Len(d.pageBuf) >= PgmSz)
  <2>1. Len(d.pageBuf) < PgmSz /\ e = d /\ g = f
    BY <1>3, <1>5
  <2>. QED
    BY <1>1, <2>1 DEF At, B
<1>. QED
  BY <1>4, <1>5

\* What is buffered is programmed, as at the end.
LEMMA FlushedAt ==
    ASSUME PgmSz % 2 = 0, NEW image \in Seq(HexRecord), NEW b \in Uppers(image),
           Suitable(image, b), NEW k \in Nat, k + 1 \in DOMAIN image, NEW d, NEW f,
           At(d, f, image, k, b), NEW e, NEW g,
           IF d.pageBuf = <<>> THEN e = d /\ g = f ELSE Page(d, f, e, g)
    PROVE  At(e, g, image, k, b) /\ e.saved = d.saved /\ e.pageBuf = <<>>
<1>. DEFINE B == BytesUpTo(image, k)
            u == b[k]
<1>1. /\ Buffer(d, f, B) /\ Len(d.pageBuf) < PgmSz /\ u % AddrMod = 0 /\ u <= d.address
      /\ \A j \in DataRecords(image) : j > k /\ b[j] = u => End(d) <= image[j].full
      /\ ~d.eof
  BY UpperNow DEF At
<1>2. B \subseteq 0..MaxAddress /\ u \in Nat
  BY InRange, UpperNow
<1>. HIDE DEF B
<1>3. CASE d.pageBuf = <<>>
  BY <1>3
<1>4. CASE d.pageBuf # <<>>
  <2>1. /\ Buffer(e, g, B) /\ e.pageBuf = <<>> /\ End(e) = End(d)
        /\ e.address >= d.address /\ e.eof = d.eof /\ e.saved = d.saved
    BY <1>1, <1>2, <1>4, PartPage
  <2>2. Len(e.pageBuf) < PgmSz
    BY <2>1, HexAssumption
  <2>3. e.address \in Nat /\ d.address \in Nat
    BY <1>1, <2>1 DEF Buffer, PageBuffers
  <2>4. u <= e.address
    BY <1>1, <1>2, <2>1, <2>3
  <2>. QED
    BY <1>1, <2>1, <2>2, <2>4 DEF At, B
<1>. QED
  BY <1>3, <1>4

LEMMA EofAt ==
    ASSUME NEW image \in Seq(HexRecord), NEW b \in Uppers(image), Suitable(image, b),
           NEW k \in Nat, k + 1 \in DOMAIN image, image[k + 1].type = "eof",
           NEW d, NEW f, At(d, f, image, k, b), d.pageBuf = <<>>
    PROVE  LET e == [d EXCEPT !.eof = TRUE] IN
           At(e, f, image, k + 1, b) /\ e.saved = d.saved
<1>. DEFINE e == [d EXCEPT !.eof = TRUE]
            B == BytesUpTo(image, k)
<1>1. b[k + 1] = b[k] /\ BytesUpTo(image, k + 1) = B /\ k + 1 = Len(image)
  BY UpperNow, OneRecord DEF Suitable
<1>2. Buffer(d, f, B) /\ d \in PageBuffers
  BY DEF At, Buffer
<1>3. /\ e \in PageBuffers /\ e.pageBuf = <<>> /\ e.address = d.address
      /\ e.pgmDone = d.pgmDone /\ e.saved = d.saved
  BY <1>2 DEF PageBuffers
<1>4. \A j \in DataRecords(image) : ~(j > k + 1)
  BY <1>1 DEF DataRecords
<1>. HIDE DEF e, B
<1>5. End(e) = End(d) /\ Buffered(e) = Buffered(d)
  BY <1>3 DEF End, Buffered
<1>6. Buffer(e, f, B)
  BY <1>2, <1>3, <1>5 DEF Buffer
<1>. QED
  BY <1>1, <1>3, <1>4, <1>6 DEF At, e, B

LEMMA UpperAt ==
    ASSUME NEW image \in Seq(HexRecord), NEW b \in Uppers(image), Suitable(image, b),
           NEW k \in Nat, k + 1 \in DOMAIN image, image[k + 1].type = "upper",
           NEW d, NEW f, At(d, f, image, k, b), d.pageBuf = <<>>
    PROVE  LET e == [d EXCEPT !.address = image[k + 1].full] IN
           At(e, f, image, k + 1, b) /\ e.saved = d.saved
<1>. DEFINE a == image[k + 1].full
            e == [d EXCEPT !.address = a]
            B == BytesUpTo(image, k)
<1>1. /\ b[k + 1] = a /\ a \in Nat /\ a % AddrMod = 0
      /\ BytesUpTo(image, k + 1) = B
  BY UpperNow, OneRecord, Records DEF Suitable
<1>2. Buffer(d, f, B) /\ d \in PageBuffers /\ Len(<<>>) = 0 /\ 0 < PgmSz /\ ~d.eof
  BY UpperNow, HexAssumption DEF At, Buffer
<1>. HIDE DEF a
<1>3. /\ e \in PageBuffers /\ e.pageBuf = <<>> /\ e.address = a
      /\ e.pgmDone = d.pgmDone /\ e.saved = d.saved /\ ~e.eof
  BY <1>1, <1>2 DEF PageBuffers
<1>. HIDE DEF e, B
<1>4. End(e) = a /\ Buffered(e) = {} /\ Buffered(d) = {}
  BY <1>1, <1>2, <1>3 DEF End, Buffered, PageBuffers
<1>5. Buffer(e, f, B)
  BY <1>2, <1>3, <1>4 DEF Buffer
<1>6. \A j \in DataRecords(image) : b[j] = a => a <= image[j].full
  <2>. SUFFICES ASSUME NEW j \in DataRecords(image), b[j] = a PROVE a <= image[j].full
    OBVIOUS
  <2>1. image[j].full \in a .. a + AddrMod - 1
    BY DEF Suitable
  <2>. QED
    BY <1>1, <2>1
<1>7. At(e, f, image, k + 1, b)
  BY <1>1, <1>2, <1>3, <1>4, <1>5, <1>6 DEF At, B
<1>. QED
  BY <1>3, <1>7 DEF e, a

LEMMA OtherAt ==
    ASSUME NEW image \in Seq(HexRecord), NEW b \in Uppers(image), Suitable(image, b),
           NEW k \in Nat, k + 1 \in DOMAIN image, image[k + 1].type = "other",
           NEW d, NEW f, At(d, f, image, k, b)
    PROVE  At(d, f, image, k + 1, b)
<1>1. b[k + 1] = b[k] /\ BytesUpTo(image, k + 1) = BytesUpTo(image, k) /\ k # Len(image)
  BY UpperNow, OneRecord
<1>2. \A j \in DataRecords(image) : j \in Nat /\ (j > k + 1 => j > k)
  BY DEF DataRecords
<1>. QED
  BY <1>1, <1>2 DEF At

\* Nothing is uploaded yet.
LEMMA FirstAt ==
    ASSUME NEW image \in Seq(HexRecord), NEW b \in Uppers(image), NEW f
    PROVE  /\ At(NewData, f, image, 0, b) /\ NewData.saved = {} /\ ~NewData.eof
           /\ NewData \in PageBuffers
<1>1. b[0] = 0 /\ 0 % AddrMod = 0 /\ PgmSz > 0
  BY HexAssumption DEF Uppers
<1>2. BytesUpTo(image, 0) = {}
  BY NoBytes
<1>3. /\ NewData.pageBuf = <<>> /\ NewData.address = 0 /\ NewData.pgmDone = 0
      /\ ~NewData.eof /\ NewData.saved = {} /\ NewData \in PageBuffers
  BY DEF NewData, PageBuffers
<1>4. End(NewData) = 0 /\ Buffered(NewData) = {} /\ Len(<<>>) = 0
  BY <1>3 DEF End, Buffered
<1>5. Buffer(NewData, f, {})
  BY <1>3, <1>4, FS_EmptySet DEF Buffer
<1>6. \A j \in DataRecords(image) : 0 <= image[j].full
  BY Records DEF DataRecords
<1>7. Len(NewData.pageBuf) < PgmSz
  BY <1>1, <1>3, <1>4, HexAssumption
<1>8. b[0] % AddrMod = 0 /\ b[0] <= NewData.address
  BY <1>1, <1>3, HexAssumption
<1>. QED
  BY <1>2, <1>3, <1>4, <1>5, <1>6, <1>7, <1>8 DEF At

-----------------------------------------------------------------------------
(* One record, given to Optiboot *)

LEMMA DataDone ==
    ASSUME PgmSz % 2 = 0, NEW image \in Seq(HexRecord), NEW b \in Uppers(image),
           Suitable(image, b), Reachable(image), NEW k \in Nat, k + 1 \in DOMAIN image,
           image[k + 1].type = "data",
           NEW p, Programmer(p), p.ok, At(p.data, p.mcu.flash, image, k, b),
           NEW q \in HEX!processRecord(p, image[k + 1]), q.ok
    PROVE  At(q.data, q.mcu.flash, image, k + 1, b) /\ q.data.saved = p.data.saved
<1>. DEFINE r == image[k + 1]
<1>1. PICK a \in IF HEX!Jumps(p.data, r) THEN optibootProgramPage(p) ELSE {p} :
         q \in IF a.ok THEN HEX!DataRecord(a, r) ELSE {a}
  BY DEF HEX!processRecord
<1>2. a.ok
  BY <1>1
<1>3. /\ Programmer(a)
      /\ IF HEX!Jumps(p.data, r) THEN Page(p.data, p.mcu.flash, a.data, a.mcu.flash)
         ELSE a.data = p.data /\ a.mcu.flash = p.mcu.flash
  <2>1. CASE HEX!Jumps(p.data, r)
    <3>1. a \in optibootProgramPage(p) /\ p.data.pageBuf # <<>>
      BY <1>1, <2>1 DEF HEX!Jumps
    <3>2. Buffer(p.data, p.mcu.flash, BytesUpTo(image, k))
      BY DEF At
    <3>3. BytesUpTo(image, k) \subseteq 0..2 * AddrMod - 1
      BY InReach
    <3>. QED
      BY <1>2, <2>1, <3>1, <3>2, <3>3, PageDone, PageKeeps DEF Page
  <2>2. CASE ~HEX!Jumps(p.data, r)
    BY <1>1, <2>2
  <2>. QED
    BY <2>1, <2>2
<1>. DEFINE s == HEX!AppendData(a.data, r)
            c == [a EXCEPT !.data = s]
<1>4. Gathered(s, a.mcu.flash, image, k + 1, b) /\ s.saved = p.data.saved
  <2>. DEFINE d == p.data
              e == a.data
              f == p.mcu.flash
              g == a.mcu.flash
  <2>1. At(d, f, image, k, b) /\ IF HEX!Jumps(d, r) THEN Page(d, f, e, g) ELSE e = d /\ g = f
    BY <1>3
  <2>. HIDE DEF d, e, f, g
  <2>. QED
    BY <2>1, DataGathered DEF d, e, g
<1>5. q \in IF Len(c.data.pageBuf) >= PgmSz THEN optibootProgramPage(c) ELSE {c}
  BY <1>1, <1>2 DEF HEX!DataRecord
<1>. HIDE DEF s
<1>6. c.data = s /\ c.mcu = a.mcu /\ Programmer(c)
  BY <1>3, NewDataOf DEF Programmer
<1>. HIDE DEF c
<1>7. IF Len(s.pageBuf) >= PgmSz THEN Page(s, a.mcu.flash, q.data, q.mcu.flash)
      ELSE q.data = s /\ q.mcu.flash = a.mcu.flash
  <2>1. CASE Len(s.pageBuf) >= PgmSz
    <3>1. q \in optibootProgramPage(c) /\ s.pageBuf # <<>>
      BY <1>5, <1>6, <2>1, HexAssumption
    <3>2. Buffer(s, a.mcu.flash, BytesUpTo(image, k + 1))
      BY <1>4 DEF Gathered
    <3>3. BytesUpTo(image, k + 1) \subseteq 0..2 * AddrMod - 1
      BY InReach
    <3>. QED
      BY <1>6, <2>1, <3>1, <3>2, <3>3, PageDone DEF Page
  <2>2. CASE ~(Len(s.pageBuf) >= PgmSz)
    BY <1>5, <1>6, <2>2
  <2>. QED
    BY <2>1, <2>2
<1>. HIDE DEF r
<1>. QED
  BY <1>4, <1>7, GatheredAt

LEMMA FlushDone ==
    ASSUME PgmSz % 2 = 0, NEW image \in Seq(HexRecord), NEW b \in Uppers(image),
           Suitable(image, b), Reachable(image), NEW k \in Nat, k + 1 \in DOMAIN image,
           NEW p, Programmer(p), At(p.data, p.mcu.flash, image, k, b),
           NEW q \in HEX!Flush(p), q.ok
    PROVE  /\ Programmer(q) /\ At(q.data, q.mcu.flash, image, k, b)
           /\ q.data.saved = p.data.saved /\ q.data.pageBuf = <<>>
<1>1. CASE p.data.pageBuf = <<>>
  BY <1>1 DEF HEX!Flush
<1>2. CASE p.data.pageBuf # <<>>
  <2>1. q \in optibootProgramPage(p)
    BY <1>2 DEF HEX!Flush
  <2>2. Buffer(p.data, p.mcu.flash, BytesUpTo(image, k))
    BY DEF At
  <2>3. BytesUpTo(image, k) \subseteq 0..2 * AddrMod - 1
    BY InReach
  <2>4. Programmer(q) /\ Page(p.data, p.mcu.flash, q.data, q.mcu.flash)
    BY <1>2, <2>1, <2>2, <2>3, PageDone, PageKeeps DEF Page
  <2>. QED
    BY <1>2, <2>4, FlushedAt
<1>. QED
  BY <1>1, <1>2

\* The other records change nothing but the address and the end.
LEMMA OtherDone ==
    ASSUME PgmSz % 2 = 0, NEW image \in Seq(HexRecord), NEW b \in Uppers(image),
           Suitable(image, b), Reachable(image), NEW k \in Nat, k + 1 \in DOMAIN image,
           image[k + 1].type # "data",
           NEW p, Programmer(p), At(p.data, p.mcu.flash, image, k, b),
           NEW q \in HEX!processRecord(p, image[k + 1]), q.ok
    PROVE  At(q.data, q.mcu.flash, image, k + 1, b) /\ q.data.saved = p.data.saved
<1>. DEFINE r == image[k + 1]
<1>1. CASE r.type = "eof"
  <2>1. PICK a \in HEX!Flush(p) : q = IF a.ok THEN [a EXCEPT !.data.eof = TRUE] ELSE a
    BY <1>1 DEF HEX!processRecord
  <2>2. a.ok /\ q = [a EXCEPT !.data = [a.data EXCEPT !.eof = TRUE]]
    BY <2>1
  <2>3. /\ Programmer(a) /\ At(a.data, a.mcu.flash, image, k, b)
        /\ a.data.saved = p.data.saved /\ a.data.pageBuf = <<>>
    BY <2>1, <2>2, FlushDone
  <2>4. q.data = [a.data EXCEPT !.eof = TRUE] /\ q.mcu = a.mcu
    BY <2>2, <2>3 DEF Programmer
  <2>. QED
    BY <1>1, <2>3, <2>4, EofAt
<1>2. CASE r.type = "upper"
  <2>1. PICK a \in HEX!Flush(p) : q = IF a.ok THEN [a EXCEPT !.data.address = r.full] ELSE a
    BY <1>2 DEF HEX!processRecord
  <2>2. a.ok /\ q = [a EXCEPT !.data = [a.data EXCEPT !.address = r.full]]
    BY <2>1
  <2>3. /\ Programmer(a) /\ At(a.data, a.mcu.flash, image, k, b)
        /\ a.data.saved = p.data.saved /\ a.data.pageBuf = <<>>
    BY <2>1, <2>2, FlushDone
  <2>4. q.data = [a.data EXCEPT !.address = r.full] /\ q.mcu = a.mcu
    BY <2>2, <2>3 DEF Programmer
  <2>. QED
    BY <1>2, <2>3, <2>4, UpperAt
<1>3. CASE r.type = "other"
  <2>1. q = p
    BY <1>3 DEF HEX!processRecord
  <2>. QED
    BY <1>3, <2>1, OtherAt
<1>4. CASE r.type = "bad"
  <2>1. q = [p EXCEPT !.ok = FALSE]
    BY <1>4 DEF HEX!processRecord, HEX!Fail
  <2>. QED
    BY <2>1 DEF Programmer
<1>. QED
  BY <1>1, <1>2, <1>3, <1>4, Records

-----------------------------------------------------------------------------
(* What is told a success is in the flash memory *)

\* One upload at a time, and a page is of words.
OneAtATime == Overlap = {} /\ PgmSz % 2 = 0 /\ NoData \notin PageBuffers

Ordered == \A image \in Images : \E b \in Uppers(image) : Suitable(image, b)

Linked == Ordered /\ \A image \in Images : Reachable(image)

\* How far the upload u has got is what the buffer and the flash memory say.
Done(d, flash, u) ==
    /\ d.saved \subseteq {u}
    /\ \E b \in Uppers(upload[u].image) :
          /\ Suitable(upload[u].image, b)
          /\ At(d, flash, upload[u].image, upload[u].pos, b)

Running(u) == upload[u].result = "running"

ImageInv ==
    /\ \A u \in Requests : Running(u) => ob.progState = "prog" /\ Done(ob.data, mcu.flash, u)
    /\ \A u, v \in Requests : Running(u) /\ Running(v) => u = v
    /\ \A u \in Requests : upload[u].result = "none" => upload[u].pos = 0

LEMMA Started ==
    ASSUME Inv, Linked, NEW u \in Requests, upload[u].pos = 0
    PROVE  Done(NewData, mcu.flash, u)
<1>1. upload[u].image \in Images /\ upload[u].image \in Seq(HexRecord)
  BY OptibootAssumption DEF Inv, Uploads, Upload
<1>2. PICK b \in Uppers(upload[u].image) : Suitable(upload[u].image, b)
  BY <1>1 DEF Linked, Ordered
<1>3. At(NewData, mcu.flash, upload[u].image, 0, b) /\ NewData.saved = {}
  BY <1>1, FirstAt
<1>. QED
  BY <1>2, <1>3 DEF Done

\* What an upload builds on is its own.
LEMMA Own ==
    ASSUME Inv, ImageInv, OneAtATime, Linked, NEW u \in Requests, Uploading(u)
    PROVE  /\ Done(Data, mcu.flash, u) /\ Data \in PageBuffers
           /\ \A v \in Requests : Running(v) => v = u
<1>1. CASE Running(u)
  <2>1. Done(ob.data, mcu.flash, u) /\ ob.data \in PageBuffers
    BY <1>1 DEF ImageInv, Done, At, Buffer
  <2>2. Data = ob.data
    BY <2>1 DEF Data, OneAtATime
  <2>. QED
    BY <1>1, <2>1, <2>2 DEF ImageInv
<1>2. CASE ~Running(u)
  <2>1. /\ upload[u].result = "none" /\ ob.data = NoData
        /\ \A v \in Requests : ~Running(v)
    BY <1>2 DEF Uploading, Running, OneAtATime
  <2>2. Data = NewData /\ upload[u].pos = 0
    BY <2>1 DEF Data, ImageInv
  <2>3. Done(Data, mcu.flash, u)
    BY <2>2, Started
  <2>. QED
    BY <2>1, <2>3 DEF Done, At, Buffer
<1>. QED
  BY <1>1, <1>2

\* A step that no running upload notices.
LEMMA ImageKept ==
    ASSUME ImageInv,
           \A u \in Requests : upload'[u] = upload[u]
                               \/ upload'[u].result \notin {"none", "running"},
           \A u \in Requests : Running(u) =>
               \/ ob'.progState = "prog" /\ ob'.data = ob.data /\ mcu'.flash = mcu.flash
               \/ ~Running(u)'
    PROVE  ImageInv'
<1>1. ASSUME NEW u \in Requests, Running(u)'
      PROVE  upload'[u] = upload[u] /\ Running(u)
  BY <1>1 DEF Running
<1>2. ASSUME NEW u \in Requests, Running(u)'
      PROVE  ob'.progState = "prog" /\ Done(ob.data, mcu.flash, u)'
  <2>1. /\ ob'.progState = "prog" /\ ob'.data = ob.data /\ mcu'.flash = mcu.flash
        /\ upload'[u] = upload[u] /\ Done(ob.data, mcu.flash, u)
    BY <1>1, <1>2 DEF ImageInv
  <2>. QED
    BY <2>1 DEF Done
<1>3. \A u, v \in Requests : Running(u)' /\ Running(v)' => u = v
  BY <1>1 DEF ImageInv
<1>4. \A u \in Requests : upload'[u].result = "none" => upload'[u].pos = 0
  BY DEF ImageInv
<1>. QED
  BY <1>2, <1>3, <1>4 DEF ImageInv

LEMMA EndsOnly ==
    ASSUME Inv, NEW u \in Requests, NEW x, Ends(u, x)
    PROVE  /\ \A v \in Requests : v # u => upload'[v] = upload[v]
           /\ upload'[u].image = upload[u].image /\ upload'[u].pos = upload[u].pos
           /\ upload'[u].result = x
BY DEF Inv, Uploads, Upload, Ends

LEMMA SessionImage ==
    ASSUME Inv, ImageInv, OneAtATime,
           cgiOptibootSync \/ optibootTimerCB \/ optibootUartRecv
    PROVE  ImageInv'
<1>0. /\ ob = [progState |-> ob.progState, baudCnt |-> ob.baudCnt, ackWait |-> ob.ackWait,
               errMessage |-> ob.errMessage, programmingCB |-> ob.programmingCB,
               armed |-> ob.armed, blocked |-> ob.blocked, data |-> ob.data]
      /\ mcu = [flash |-> mcu.flash, address |-> mcu.address, fifo |-> mcu.fifo]
  BY DEF Inv, SessionInv, Session, Mcu
<1>1. CASE cgiOptibootSync
  <2>1. upload' = upload /\ \A u \in Requests : ~Running(u)
    BY <1>1 DEF cgiOptibootSync, OneAtATime, Running
  <2>. QED
    BY <2>1, ImageKept
<1>2. CASE optibootTimerCB
  <2>1. upload' = upload
    BY <1>2 DEF optibootTimerCB
  <2>2. CASE ob.progState # "prog"
    BY <2>1, <2>2, ImageKept DEF ImageInv
  <2>3. CASE ob.progState = "prog"
    <3>1. ob' = [ob EXCEPT !.ackWait = @ + 1] /\ Sends(mcu, "ack")
      BY <1>2, <2>3 DEF optibootTimerCB, SendSync, NextBaud, GiveUp, KeepAlive
    <3>2. ob'.progState = "prog" /\ ob'.data = ob.data
      BY <1>0, <2>3, <3>1
    <3>3. mcu'.flash = mcu.flash
      BY <1>0, <3>1 DEF Sends, Commanded
    <3>. QED
      BY <2>1, <3>2, <3>3, ImageKept
  <2>. QED
    BY <2>2, <2>3
<1>3. CASE optibootUartRecv
  <2>1. CASE ob.progState # "prog"
    <3>1. \A u \in Requests : ~Running(u)
      BY <2>1 DEF ImageInv
    <3>2. upload' = upload \/ WrongSignature
      BY <1>3 DEF optibootUartRecv
    <3>3. \A u \in Requests : upload'[u] = upload[u]
      BY <3>1, <3>2 DEF WrongSignature, Running
    <3>. QED
      BY <3>1, <3>3, ImageKept
  <2>2. CASE ob.progState = "prog"
    <3>1. ob.progState \notin DOMAIN Expected
      BY <2>2, Questions
    <3>2. /\ ob' = [ob EXCEPT !.ackWait = IF @ > 0 THEN @ - 1 ELSE @]
          /\ mcu' = [mcu EXCEPT !.fifo = Tail(@)] /\ upload' = upload
      BY <1>3, <2>2, <3>1 DEF optibootUartRecv
    <3>3. ob'.progState = "prog" /\ ob'.data = ob.data /\ mcu'.flash = mcu.flash
      BY <1>0, <2>2, <3>2
    <3>. QED
      BY <3>2, <3>3, ImageKept
  <2>. QED
    BY <2>1, <2>2
<1>. QED
  BY <1>1, <1>2, <1>3

\* u is the only one running, and as far as it should be.
LEMMA ImageRuns ==
    ASSUME Inv, Inv', ImageInv, NEW u \in Requests,
           \A v \in Requests : Running(v) => v = u,
           \A v \in Requests : v # u => upload'[v] = upload[v],
           upload'[u].result = "running",
           ob'.progState = "prog", Done(ob.data, mcu.flash, u)'
    PROVE  ImageInv'
<1>1. \A v \in Requests : Running(v)' => v = u
  BY DEF Running
<1>2. \A v \in Requests : upload'[v].result = "none" => v # u
  OBVIOUS
<1>. QED
  BY <1>1, <1>2 DEF ImageInv

LEMMA PartImage ==
    ASSUME Inv, Inv', ImageInv, OneAtATime, Linked, NEW u \in Requests, PartOfRecord(u)
    PROVE  ImageInv'
<1>. DEFINE d == [Data EXCEPT !.saved = @ \cup {u}]
<1>1. /\ Done(Data, mcu.flash, u) /\ Data \in PageBuffers
      /\ \A v \in Requests : Running(v) => v = u
  BY Own DEF PartOfRecord
<1>2. /\ \A v \in Requests : v # u => upload'[v] = upload[v]
      /\ upload'[u].image = upload[u].image /\ upload'[u].pos = upload[u].pos
      /\ upload'[u].result = "running"
  BY EndsOnly DEF PartOfRecord
<1>3. ob' = [ob EXCEPT !.data = d] /\ mcu' = mcu /\ ob.progState = "prog"
  BY DEF PartOfRecord, InSync
<1>4. /\ d \in PageBuffers /\ d.pageBuf = Data.pageBuf /\ d.address = Data.address
      /\ d.pgmDone = Data.pgmDone /\ d.eof = Data.eof /\ d.saved = Data.saved \cup {u}
  BY <1>1 DEF PageBuffers
<1>. HIDE DEF d
<1>5. ob'.progState = "prog" /\ ob'.data = d
  BY <1>3 DEF Inv, SessionInv, Session
<1>6. Done(d, mcu.flash, u)
  <2>1. End(d) = End(Data) /\ Buffered(d) = Buffered(Data)
    BY <1>4 DEF End, Buffered
  <2>2. \A B : Buffer(Data, mcu.flash, B) => Buffer(d, mcu.flash, B)
    BY <1>4, <2>1 DEF Buffer
  <2>. QED
    BY <1>1, <1>4, <2>1, <2>2 DEF Done, At
<1>7. Done(ob.data, mcu.flash, u)'
  BY <1>2, <1>3, <1>5, <1>6 DEF Done
<1>. QED
  BY <1>1, <1>2, <1>5, <1>7, ImageRuns

LEMMA EndImage ==
    ASSUME Inv, ImageInv, OneAtATime, Linked, NEW u \in Requests, NEW x, Ends(u, x),
           x \notin {"none", "running"}, Running(u) \/ \A v \in Requests : ~Running(v)
    PROVE  ImageInv'
<1>1. /\ \A v \in Requests : v # u => upload'[v] = upload[v]
      /\ upload'[u].result = x
  BY EndsOnly
<1>2. \A v \in Requests : Running(v) => ~Running(v)'
  BY <1>1 DEF ImageInv, Running
<1>. QED
  BY <1>1, <1>2, ImageKept

LEMMA RecordImage ==
    ASSUME Inv, Inv', ImageInv, OneAtATime, Linked, NEW u \in Requests, Record(u)
    PROVE  ImageInv'
<1>. DEFINE image == upload[u].image
            k == upload[u].pos
            p == [ok |-> TRUE, data |-> [Data EXCEPT !.saved = {}],
                  ackWait |-> ob.ackWait, mcu |-> mcu]
<1>1. /\ Done(Data, mcu.flash, u) /\ Data \in PageBuffers
      /\ \A v \in Requests : Running(v) => v = u
  BY Own DEF Record
<1>2. image \in Seq(HexRecord) /\ k \in Nat /\ k + 1 \in DOMAIN image
  BY OptibootAssumption DEF Inv, Uploads, Upload, Record
<1>3. PICK b \in Uppers(image) : Suitable(image, b) /\ At(Data, mcu.flash, image, k, b)
  BY <1>1 DEF Done
<1>4. PICK q \in HEX!processRecord(p, image[k + 1]) :
         /\ mcu' = q.mcu
         /\ IF q.ok
            THEN /\ ob' = [ob EXCEPT !.data = q.data, !.ackWait = q.ackWait]
                 /\ upload' = [upload EXCEPT ![u].pos = @ + 1, ![u].result = "running"]
            ELSE Ends(u, "failed")
  BY <1>1 DEF Record, Done
<1>5. CASE ~q.ok
  <2>1. Running(u) \/ \A v \in Requests : ~Running(v)
    BY <1>1
  <2>. QED
    BY <1>4, <1>5, <2>1, EndImage
<1>6. CASE q.ok
  <2>. DEFINE d == [Data EXCEPT !.saved = {}]
  <2>1. /\ d \in PageBuffers /\ d.pageBuf = Data.pageBuf /\ d.address = Data.address
        /\ d.pgmDone = Data.pgmDone /\ d.eof = Data.eof /\ d.saved = {}
    BY <1>1 DEF PageBuffers
  <2>. HIDE DEF d
  <2>2. End(d) = End(Data) /\ Buffered(d) = Buffered(Data)
    BY <2>1 DEF End, Buffered
  <2>3. At(d, mcu.flash, image, k, b)
    <3>1. \A B : Buffer(Data, mcu.flash, B) => Buffer(d, mcu.flash, B)
      BY <2>1, <2>2 DEF Buffer
    <3>. QED
      BY <1>3, <2>1, <2>2, <3>1 DEF At
  <2>4. p.ok /\ p.data = d /\ p.mcu = mcu
    BY DEF d
  <2>5. Programmer(p)
    <3>1. mcu = [flash |-> mcu.flash, address |-> mcu.address, fifo |-> mcu.fifo]
      BY DEF Inv, SessionInv, Mcu
    <3>2. ob.ackWait \in Nat /\ mcu.fifo \in Seq(Answers) /\ Len(mcu.fifo) <= ob.ackWait
      BY DEF Inv, SessionInv, Owed, AckAccount, Record, InSync
    <3>. QED
      BY <3>1, <3>2 DEF Programmer
  <2>. HIDE DEF p, image, k
  <2>6. At(q.data, q.mcu.flash, image, k + 1, b) /\ q.data.saved = {}
    <3>0. Reachable(image) /\ PgmSz % 2 = 0
      BY DEF Linked, OneAtATime, Inv, Uploads, Upload, image
    <3>1. CASE image[k + 1].type = "data"
      BY <3>0, <1>2, <1>3, <1>4, <1>6, <2>1, <2>3, <2>4, <2>5, <3>1, DataDone
    <3>2. CASE image[k + 1].type # "data"
      BY <3>0, <1>2, <1>3, <1>4, <1>6, <2>1, <2>3, <2>4, <2>5, <3>2, OtherDone
    <3>. QED
      BY <3>1, <3>2
  <2>7. /\ \A v \in Requests : v # u => upload'[v] = upload[v]
        /\ upload'[u].image = image /\ upload'[u].pos = k + 1
        /\ upload'[u].result = "running"
    <3>1. upload' = [upload EXCEPT ![u].pos = @ + 1, ![u].result = "running"]
      BY <1>4, <1>6
    <3>. QED
      BY <3>1 DEF Inv, Uploads, Upload, image, k
  <2>8. ob'.progState = "prog" /\ ob'.data = q.data
    <3>1. ob' = [ob EXCEPT !.data = q.data, !.ackWait = q.ackWait]
      BY <1>4, <1>6
    <3>. QED
      BY <3>1 DEF Inv, SessionInv, Session, Record, InSync
  <2>9. Done(ob.data, mcu.flash, u)'
    BY <1>3, <1>4, <2>6, <2>7, <2>8 DEF Done
  <2>. QED
    BY <1>1, <2>7, <2>8, <2>9, ImageRuns
<1>. QED
  BY <1>5, <1>6

LEMMA ImageStep ==
    ASSUME Inv, Inv', ImageInv, OneAtATime, Linked, [Next]_vars
    PROVE  ImageInv'
<1>1. ASSUME NEW u \in Requests, Refused(u) \/ Complete(u)
      PROVE  ImageInv'
  <2>1. \A v \in Requests : Running(v) => v = u
    BY <1>1, Own DEF Refused, Complete
  <2>2. \E x \in {"refused", "success", "failed"} : Ends(u, x)
    BY <1>1 DEF Refused, Complete
  <2>3. Running(u) \/ \A v \in Requests : ~Running(v)
    BY <2>1
  <2>. QED
    BY <2>2, <2>3, EndImage
<1>2. ASSUME NEW u \in Requests, Lost(u) PROVE ImageInv'
  BY <1>2, EndImage DEF Lost, Running
<1>3. CASE UNCHANGED vars
  <2>1. upload' = upload /\ ob' = ob /\ mcu' = mcu
    BY <1>3 DEF vars
  <2>2. \A u \in Requests : Running(u) => ob'.progState = "prog"
    BY <2>1 DEF ImageInv
  <2>. QED
    BY <2>1, <2>2, ImageKept
<1>. QED
  BY <1>1, <1>2, <1>3, SessionImage, PartImage, RecordImage DEF Next

LEMMA Completed ==
    ASSUME Inv, ImageInv, OneAtATime, Linked, [Next]_vars, NEW u \in Requests,
           upload[u].result # "success", upload'[u].result = "success"
    PROVE  LET bytes == Bytes(upload[u].image) IN
           /\ \A a \in bytes : mcu'.flash[a] = a
           /\ ob.data.pgmDone = Cardinality(bytes)
<1>1. ASSUME NEW v \in Requests,
             Refused(v) \/ PartOfRecord(v) \/ Lost(v) \/ Record(v)
      PROVE  FALSE
  <2>1. CASE \E x \in {"refused", "running", "lost", "failed"} : Ends(v, x)
    BY <2>1, EndsOnly
  <2>2. CASE upload' = [upload EXCEPT ![v].pos = @ + 1, ![v].result = "running"]
    BY <2>2 DEF Inv, Uploads, Upload
  <2>. QED
    BY <1>1, <2>1, <2>2 DEF Refused, PartOfRecord, Lost, Record
<1>2. upload' # upload /\ ~WrongSignature
  BY DEF WrongSignature, Inv, Uploads, Upload
<1>3. PICK v \in Requests : Complete(v)
  BY <1>1, <1>2 DEF Next, vars, cgiOptibootSync, optibootTimerCB, optibootUartRecv
<1>4. v = u /\ Data.eof /\ mcu' = mcu
  BY <1>3, EndsOnly DEF Complete
<1>. DEFINE image == upload[u].image
<1>5. image \in Seq(HexRecord) /\ upload[u].pos = Len(image)
  BY <1>3, <1>4, OptibootAssumption DEF Inv, Uploads, Upload, Complete
<1>6. Data = ob.data
  BY <1>4 DEF Data, NewData
<1>7. PICK b : At(ob.data, mcu.flash, image, Len(image), b)
  BY <1>3, <1>4, <1>5, <1>6, Own DEF Complete, Done
<1>8. Buffer(ob.data, mcu.flash, Bytes(image)) /\ ob.data.pageBuf = <<>>
  BY <1>4, <1>5, <1>6, <1>7, NoBytes DEF At
<1>9. Buffered(ob.data) = {} /\ ob.data.pgmDone + 0 = Cardinality(Bytes(image))
      /\ ob.data.pgmDone \in Nat
  BY <1>8 DEF Buffer, Buffered, End, PageBuffers
<1>10. \A a \in Bytes(image) : mcu.flash[a] = a
  BY <1>8, <1>9 DEF Buffer
<1>. QED
  BY <1>4, <1>9, <1>10

(* If one upload is under way at a time, pages are of whole words and the  *)
(* images are of the kind a linker makes, an upload that is told "Success" *)
(* has every byte in the flash memory, and is told how many there are: for *)
(* every image, page size and limit, whatever commands and answers are     *)
(* lost and wherever the data is cut.                                      *)
THEOREM SuccessIsWholeHolds ==
    ASSUME OneAtATime, Linked
    PROVE  Spec => SuccessIsWhole
<1>1. Init => ImageInv
  <2>. SUFFICES ASSUME Init PROVE ImageInv
    OBVIOUS
  <2>1. \A u \in Requests : upload[u].result = "none" /\ upload[u].pos = 0
    BY DEF Init
  <2>. QED
    BY <2>1 DEF ImageInv, Running
<1>2. Inv /\ Inv' /\ ImageInv /\ [Next]_vars => ImageInv'
  BY ImageStep
<1>3. Inv /\ ImageInv /\ [Next]_vars =>
        [\A u \in Requests :
            upload[u].result # "success" /\ upload'[u].result = "success" =>
                LET bytes == Bytes(upload[u].image) IN
                /\ \A a \in bytes : mcu'.flash[a] = a
                /\ ob.data.pgmDone = Cardinality(bytes)]_vars
  BY Completed
<1>. QED
  BY <1>1, <1>2, <1>3, InvHolds, PTL DEF Spec, SuccessIsWhole

-----------------------------------------------------------------------------
(* The other programmer, for which the page buffer and the records are the *)
(* same.  Its constants and variables are those of MegaProgrammer; what it *)
(* has in common with Optiboot has the same name.                          *)

CONSTANTS RespSize, MaxPages, ReadFrom, Faults

VARIABLES mega, target, sending, requests, session

Mega == INSTANCE MegaProgrammer WITH ob <- mega, mcu <- target, upload <- sending

LEMMA SameBuffer ==
    /\ Mega!NewData = NewData
    /\ \A d : Mega!PageLen(d) = PageLen(d) /\ Mega!Shifted(d) = Shifted(d)
    /\ \A d, r : Mega!HEX!Jumps(d, r) = HEX!Jumps(d, r)
    /\ \A d, r : Mega!HEX!AppendData(d, r) = HEX!AppendData(d, r)
    /\ \A image : Mega!Bytes(image) = Bytes(image)
<1>1. Mega!NewData = NewData
  BY DEF Mega!NewData, NewData
<1>2. ASSUME NEW d PROVE Mega!PageLen(d) = PageLen(d) /\ Mega!Shifted(d) = Shifted(d)
  BY DEF Mega!PageLen, PageLen, Mega!Shifted, Shifted
<1>3. ASSUME NEW d, NEW r
      PROVE  /\ Mega!HEX!Jumps(d, r) = HEX!Jumps(d, r)
             /\ Mega!HEX!AppendData(d, r) = HEX!AppendData(d, r)
  BY DEF Mega!HEX!Jumps, HEX!Jumps, Mega!HEX!AppendData, HEX!AppendData
<1>4. ASSUME NEW image PROVE Mega!Bytes(image) = Bytes(image)
  BY DEF Mega!Bytes, Bytes, Mega!DataRecords, DataRecords
<1>. QED
  BY <1>1, <1>2, <1>3, <1>4

Questioned == {"signon", "param", "spi", "address", "page", "flash", "leave"}
Words == Questioned \cup {"rest"}

\* All but the answer that the address is loaded.
Others == Words \ {"address"}

LEMMA Answered ==
    /\ DOMAIN Mega!Units = Questioned
    /\ \A a \in Questioned : Mega!Units[a] \in Nat \ {0}
    /\ Mega!Units["address"] = 1
BY DEF Mega!Units, Questioned

LEMMA AnswerSeq ==
    ASSUME NEW S, "rest" \in S, NEW a \in Questioned, a \in S
    PROVE  /\ Mega!Answer(a) \in Seq(S) /\ Mega!Answer(a)[1] = a
           /\ Len(Mega!Answer(a)) = Mega!Units[a]
<1>. DEFINE n == Mega!Units[a]
            s == [i \in 1..n |-> IF i = 1 THEN a ELSE "rest"]
<1>1. n \in Nat /\ n > 0
  BY Answered
<1>2. Mega!Answer(a) = s
  BY DEF Mega!Answer
<1>. HIDE DEF n
<1>3. s \in [1..n -> S]
  OBVIOUS
<1>4. s[1] = a
  BY <1>1
<1>. HIDE DEF s
<1>5. s \in Seq(S) /\ Len(s) = n
  BY <1>1, <1>3
<1>. QED
  BY <1>2, <1>4, <1>5 DEF n

LEMMA UnreadSeq ==
    ASSUME NEW S, NEW f \in Seq(S)
    PROVE  Mega!Unread(f) \in Seq(S)
<1>1. CASE f # <<>> /\ Head(f) \in Questioned
  <2>. DEFINE n == Mega!Units[Head(f)]
  <2>1. n \in Nat
    BY <1>1, Answered
  <2>2. Mega!Unread(f) = SubSeq(f, n + 1, Len(f))
    BY <1>1, Answered DEF Mega!Unread, Mega!Packet
  <2>. HIDE DEF n
  <2>. QED
    BY <2>1, <2>2
<1>2. CASE ~(f # <<>> /\ Head(f) \in Questioned)
  <2>1. Mega!Unread(f) = <<>>
    BY <1>2, Answered DEF Mega!Unread, Mega!Packet, Questioned
  <2>. QED
    BY <2>1
<1>. QED
  BY <1>1, <1>2

\* A microcontroller with its four variables, and a programmer.
TargetOf(m) ==
    /\ m = [flash |-> m.flash, address |-> m.address, fifo |-> m.fifo, boot |-> m.boot]
    /\ m.fifo \in Seq(Words)

Asker(p) ==
    /\ p = [ok |-> p.ok, data |-> p.data, reply_ok |-> p.reply_ok, mcu |-> p.mcu]
    /\ TargetOf(p.mcu)

LEMMA NewTarget ==
    ASSUME NEW m, TargetOf(m), NEW f \in Seq(Words)
    PROVE  LET n == [m EXCEPT !.fifo = f] IN
           /\ TargetOf(n) /\ n.fifo = f
           /\ n.flash = m.flash /\ n.address = m.address /\ n.boot = m.boot
BY DEF TargetOf

LEMMA NewAsker ==
    ASSUME NEW p, Asker(p), NEW m, TargetOf(m)
    PROVE  LET q == [p EXCEPT !.mcu = m] IN
           /\ Asker(q) /\ q.mcu = m
           /\ q.ok = p.ok /\ q.data = p.data /\ q.reply_ok = p.reply_ok
BY DEF Asker

LEMMA AskerReply ==
    ASSUME NEW p, Asker(p), NEW x
    PROVE  LET q == [p EXCEPT !.reply_ok = x] IN
           Asker(q) /\ q.ok = p.ok /\ q.data = p.data /\ q.mcu = p.mcu /\ q.reply_ok = x
BY DEF Asker

LEMMA AskerData ==
    ASSUME NEW p, Asker(p), NEW x
    PROVE  LET q == [p EXCEPT !.data = x] IN
           Asker(q) /\ q.ok = p.ok /\ q.data = x /\ q.mcu = p.mcu /\ q.reply_ok = p.reply_ok
BY DEF Asker

LEMMA AskerOk ==
    ASSUME NEW p, Asker(p), NEW x
    PROVE  LET q == [p EXCEPT !.ok = x] IN
           Asker(q) /\ q.ok = x /\ q.data = p.data /\ q.mcu = p.mcu
BY DEF Asker

\* q is p after a command and the reading of an answer: its microcontroller
\* is m except for what is to be read, f.
Becomes(p, q, m, f) ==
    /\ Asker(q) /\ q.ok = p.ok /\ q.data = p.data
    /\ q.mcu.flash = m.flash /\ q.mcu.address = m.address /\ q.mcu.boot = m.boot
    /\ q.mcu.fifo = f

LEMMA ReadsIs ==
    ASSUME NEW p, Asker(p), NEW a, NEW prior
    PROVE  LET q == Mega!Reads(p, a, prior) IN
           /\ Becomes(p, q, p.mcu, Mega!Unread(p.mcu.fifo))
           /\ q.reply_ok = (prior \/ Mega!Packet(p.mcu.fifo) = a)
<1>. DEFINE f == Mega!Unread(p.mcu.fifo)
            x == prior \/ Mega!Packet(p.mcu.fifo) = a
            m == [p.mcu EXCEPT !.fifo = f]
            c == [p EXCEPT !.mcu = m]
<1>1. f \in Seq(Words)
  BY UnreadSeq DEF Asker, TargetOf
<1>2. Mega!Reads(p, a, prior) = [c EXCEPT !.reply_ok = x]
  BY DEF Mega!Reads
<1>. HIDE DEF f, x
<1>3. /\ TargetOf(m) /\ m.fifo = f
      /\ m.flash = p.mcu.flash /\ m.address = p.mcu.address /\ m.boot = p.mcu.boot
  BY <1>1, NewTarget DEF Asker
<1>. HIDE DEF m
<1>4. Asker(c) /\ c.mcu = m /\ c.ok = p.ok /\ c.data = p.data
  BY <1>3, NewAsker
<1>. HIDE DEF c
<1>. DEFINE q == [c EXCEPT !.reply_ok = x]
<1>5. /\ Asker(q) /\ q.ok = c.ok /\ q.data = c.data /\ q.mcu = c.mcu /\ q.reply_ok = x
  BY <1>4, AskerReply
<1>6. Mega!Reads(p, a, prior) = q
  BY <1>2
<1>. HIDE DEF q
<1>7. Becomes(p, q, p.mcu, f) /\ q.reply_ok = x
  BY <1>3, <1>4, <1>5 DEF Becomes
<1>. QED
  BY <1>6, <1>7 DEF f, x

\* A command that has the effect e is executed and answered, or the answer is
\* lost, or it is missed, or the answer comes too late.
AskedOf(p, e, a, prior, q) ==
    \/ /\ p.mcu.boot
       /\ Becomes(p, q, e, Mega!Unread(p.mcu.fifo \o Mega!Answer(a)))
       /\ q.reply_ok = (prior \/ Mega!Packet(p.mcu.fifo \o Mega!Answer(a)) = a)
    \/ /\ p.mcu.boot
       /\ Becomes(p, q, e, Mega!Unread(p.mcu.fifo))
       /\ q.reply_ok = (prior \/ Mega!Packet(p.mcu.fifo) = a)
    \/ /\ p.mcu.boot /\ a = "page" => "missed" \in Faults
       /\ Becomes(p, q, p.mcu, Mega!Unread(p.mcu.fifo))
       /\ q.reply_ok = (prior \/ Mega!Packet(p.mcu.fifo) = a)
    \/ /\ p.mcu.boot
       /\ Becomes(p, q, e, Mega!Unread(p.mcu.fifo) \o Mega!Answer(a))
       /\ q.reply_ok = (prior \/ Mega!Packet(p.mcu.fifo) = a)

\* The microcontroller in which a command has had its effect e.
Effect(p, e) == TargetOf(e) /\ e.fifo = p.mcu.fifo

LEMMA AskIs ==
    ASSUME NEW p, Asker(p), NEW e, Effect(p, e), NEW a \in Questioned, NEW prior,
           NEW q \in Mega!Ask(p, e, a, prior)
    PROVE  AskedOf(p, e, a, prior, q)
<1>. DEFINE ans == Mega!Answer(a)
<1>1. ans \in Seq(Words) /\ p.mcu.fifo \in Seq(Words) /\ TargetOf(e) /\ e.fifo = p.mcu.fifo
  BY AnswerSeq DEF Words, Asker, TargetOf, Effect
<1>2. p.mcu.fifo \o ans \in Seq(Words)
  BY <1>1
<1>3. CASE \E s \in Mega!Sent(p.mcu, e, a) : q = Mega!Reads([p EXCEPT !.mcu = s.mcu], a, prior)
  <2>1. PICK s \in Mega!Sent(p.mcu, e, a) : q = Mega!Reads([p EXCEPT !.mcu = s.mcu], a, prior)
    BY <1>3
  <2>. DEFINE m == s.mcu
              c == [p EXCEPT !.mcu = m]
  <2>2. \/ p.mcu.boot /\ m = [e EXCEPT !.fifo = @ \o ans]
        \/ p.mcu.boot /\ m = e
        \/ m = p.mcu /\ (p.mcu.boot /\ a = "page" => "missed" \in Faults)
    BY <2>1 DEF Mega!Sent
  <2>3. [e EXCEPT !.fifo = @ \o ans] = [e EXCEPT !.fifo = p.mcu.fifo \o ans]
    BY <1>1
  <2>. HIDE DEF m, ans
  <2>4. TargetOf(m)
    <3>1. TargetOf([e EXCEPT !.fifo = p.mcu.fifo \o ans])
      BY <1>1, <1>2, NewTarget
    <3>2. TargetOf(p.mcu)
      BY DEF Asker
    <3>. QED
      BY <1>1, <2>2, <2>3, <3>1, <3>2
  <2>5. /\ Asker(c) /\ c.mcu = m /\ c.ok = p.ok /\ c.data = p.data
    BY <2>4, NewAsker
  <2>6. q = Mega!Reads(c, a, prior)
    BY <2>1 DEF m
  <2>. HIDE DEF c
  <2>7. /\ Becomes(c, q, m, Mega!Unread(m.fifo))
        /\ q.reply_ok = (prior \/ Mega!Packet(m.fifo) = a)
    BY <2>5, <2>6, ReadsIs
  <2>8. Becomes(p, q, m, Mega!Unread(m.fifo))
    BY <2>5, <2>7 DEF Becomes
  <2>9. CASE p.mcu.boot /\ m = [e EXCEPT !.fifo = @ \o ans]
    <3>1. /\ m.fifo = p.mcu.fifo \o ans
          /\ m.flash = e.flash /\ m.address = e.address /\ m.boot = e.boot
      BY <1>1, <1>2, <2>3, <2>9, NewTarget
    <3>2. Becomes(p, q, e, Mega!Unread(p.mcu.fifo \o ans))
      BY <2>8, <3>1 DEF Becomes
    <3>. QED
      BY <2>7, <2>9, <3>1, <3>2 DEF AskedOf, ans
  <2>10. CASE p.mcu.boot /\ m = e
    BY <1>1, <2>7, <2>8, <2>10 DEF AskedOf
  <2>11. CASE m = p.mcu /\ (p.mcu.boot /\ a = "page" => "missed" \in Faults)
    BY <2>7, <2>8, <2>11 DEF AskedOf
  <2>. QED
    BY <2>2, <2>9, <2>10, <2>11
<1>4. CASE /\ p.mcu.boot
           /\ q = [Mega!Reads([p EXCEPT !.mcu = e], a, prior) EXCEPT !.mcu.fifo = @ \o ans]
  <2>. DEFINE c == [p EXCEPT !.mcu = e]
              r == Mega!Reads(c, a, prior)
              f == Mega!Unread(p.mcu.fifo)
              m == [r.mcu EXCEPT !.fifo = f \o ans]
  <2>1. Asker(c) /\ c.mcu = e /\ c.ok = p.ok /\ c.data = p.data
    BY <1>1, NewAsker
  <2>. HIDE DEF c
  <2>2. /\ Becomes(c, r, e, f)
        /\ r.reply_ok = (prior \/ Mega!Packet(p.mcu.fifo) = a)
    BY <1>1, <2>1, ReadsIs
  <2>3. q = [r EXCEPT !.mcu = [r.mcu EXCEPT !.fifo = r.mcu.fifo \o ans]]
    BY <1>4 DEF c
  <2>. HIDE DEF r, f, ans
  <2>4. q = [r EXCEPT !.mcu = m]
    BY <2>2, <2>3 DEF Becomes
  <2>5. f \o ans \in Seq(Words)
    <3>1. f \in Seq(Words)
      BY <1>1, UnreadSeq DEF f
    <3>. QED
      BY <1>1, <3>1
  <2>6. /\ TargetOf(m) /\ m.fifo = f \o ans
        /\ m.flash = e.flash /\ m.address = e.address /\ m.boot = e.boot
    BY <2>2, <2>5, NewTarget DEF Becomes, Asker
  <2>. HIDE DEF m
  <2>7. Asker(q) /\ q.mcu = m /\ q.ok = r.ok /\ q.data = r.data /\ q.reply_ok = r.reply_ok
    BY <2>2, <2>4, <2>6, NewAsker DEF Becomes
  <2>8. Becomes(p, q, e, f \o ans)
    BY <2>1, <2>2, <2>6, <2>7 DEF Becomes
  <2>. QED
    BY <1>4, <2>2, <2>7, <2>8 DEF AskedOf, f, ans
<1>. QED
  BY <1>3, <1>4 DEF Mega!Ask

\* What is to be read stays within S.
LEMMA AskSeq ==
    ASSUME NEW p, Asker(p), NEW e, NEW a \in Questioned, NEW prior, NEW q,
           AskedOf(p, e, a, prior, q), NEW S, "rest" \in S, a \in S, p.mcu.fifo \in Seq(S)
    PROVE  q.mcu.fifo \in Seq(S)
<1>. DEFINE ans == Mega!Answer(a)
            f == p.mcu.fifo
<1>1. ans \in Seq(S) /\ f \in Seq(S)
  BY AnswerSeq
<1>2. q.mcu.fifo \in {Mega!Unread(f \o ans), Mega!Unread(f), Mega!Unread(f) \o ans}
  BY DEF AskedOf, Becomes
<1>. HIDE DEF ans, f
<1>3. f \o ans \in Seq(S)
  BY <1>1
<1>4. Mega!Unread(f \o ans) \in Seq(S) /\ Mega!Unread(f) \in Seq(S)
  BY <1>1, <1>3, UnreadSeq
<1>5. Mega!Unread(f) \o ans \in Seq(S)
  BY <1>1, <1>4
<1>. QED
  BY <1>2, <1>4, <1>5

\* The address is loaded if it is answered that one is, and no answer of
\* that kind was still to come.
LEMMA AddressLoaded ==
    ASSUME NEW p, Asker(p), p.mcu.fifo \in Seq(Others), NEW e, NEW q,
           AskedOf(p, e, "address", FALSE, q), q.reply_ok
    PROVE  Becomes(p, q, e, <<>>) /\ p.mcu.boot
<1>. DEFINE ans == Mega!Answer("address")
            f == p.mcu.fifo
<1>1. ans \in Seq(Words) /\ Len(ans) = 1 /\ ans[1] = "address"
  <2>1. "rest" \in Words /\ "address" \in Words /\ "address" \in Questioned
    BY DEF Words, Questioned
  <2>. QED
    BY <2>1, AnswerSeq, Answered
<1>2. f \in Seq(Others) /\ "address" \notin Others /\ "none" \notin Words /\ "none" # "address"
  BY DEF Others, Words, Questioned
<1>. HIDE DEF ans, f
<1>3. Mega!Packet(f) # "address"
  <2>1. f # <<>> => Head(f) \in Others
    BY <1>2
  <2>. QED
    BY <1>2, <2>1 DEF Mega!Packet
<1>4. /\ p.mcu.boot /\ Becomes(p, q, e, Mega!Unread(f \o ans))
      /\ Mega!Packet(f \o ans) = "address"
  BY <1>3 DEF AskedOf, f, ans
<1>5. f = <<>>
  <2>. SUFFICES ASSUME f # <<>> PROVE FALSE
    OBVIOUS
  <2>0. Words \cup Others = Words
    BY DEF Others
  <2>1. f \o ans # <<>> /\ Head(f \o ans) = Head(f) /\ Head(f) \in Others
    BY <1>1, <1>2
  <2>. QED
    BY <1>2, <1>4, <2>1 DEF Mega!Packet
<1>6. f \o ans = ans
  BY <1>1, <1>5
<1>7. Mega!Unread(ans) = <<>>
  <2>0. ans # <<>>
    <3>1. Len(ans) # Len(<<>>)
      BY <1>1
    <3>. QED
      BY <3>1, Zenon
  <2>1. ans # <<>> /\ Head(ans) = "address"
    BY <1>1, <2>0
  <2>2. "address" \in DOMAIN Mega!Units /\ Mega!Units["address"] = 1
    BY Answered DEF Questioned
  <2>3. Mega!Unread(ans) = SubSeq(ans, 2, 1)
    BY <1>1, <2>1, <2>2 DEF Mega!Unread, Mega!Packet
  <2>. QED
    BY <1>1, <2>3
<1>. QED
  BY <1>4, <1>6, <1>7

-----------------------------------------------------------------------------
(* One page and one record, given to the other programmer.  It takes the   *)
(* reply_ok of the address for that of the page, so a page that the boot   *)
(* loader missed passes for programmed.  Ghost is the flash memory as the  *)
(* programmer believes it to be: when pages may be missed, as it should be.*)

Whole == [a \in 0..MaxAddress |-> a]

Ghost(flash) == IF "missed" \in Faults THEN Whole ELSE flash

\* What has changed has what belongs there.
InPlace(f, g) == \A a \in 0..MaxAddress : g[a] = a \/ g[a] = f[a]

\* No answer that an address is loaded is still to come.
Quiet(p) == Asker(p) /\ p.mcu.fifo \in Seq(Others)

LEMMA InPlaceSame == \A f : InPlace(f, f)
BY DEF InPlace

LEMMA InPlaceTwice ==
    ASSUME NEW f, NEW g, NEW h, InPlace(f, g), InPlace(g, h)
    PROVE  InPlace(f, h)
BY DEF InPlace

LEMMA AddressEffect ==
    ASSUME NEW p, Asker(p), NEW x
    PROVE  LET e == [p.mcu EXCEPT !.address = x] IN
           Effect(p, e) /\ e.flash = p.mcu.flash /\ e.address = x /\ e.boot = p.mcu.boot
BY DEF Asker, TargetOf, Effect

LEMMA FlashEffect ==
    ASSUME NEW p, Asker(p), NEW x
    PROVE  LET e == [p.mcu EXCEPT !.flash = x] IN
           Effect(p, e) /\ e.flash = x
BY DEF Asker, TargetOf, Effect

LEMMA BootEffect ==
    ASSUME NEW p, Asker(p), NEW x
    PROVE  LET e == [p.mcu EXCEPT !.boot = x] IN
           Effect(p, e) /\ e.flash = p.mcu.flash
BY DEF Asker, TargetOf, Effect

LEMMA PageLoaded ==
    ASSUME NEW p, Quiet(p), NEW d, p.data = d, p.mcu.address = d.address, p.mcu.boot,
           p.reply_ok, NEW q \in Mega!LoadPage(p)
    PROVE  /\ Quiet(q) /\ q.ok = p.ok /\ q.data = d /\ q.reply_ok
           /\ \/ q.mcu.flash = Paged(d, p.mcu.flash)
              \/ q.mcu.flash = p.mcu.flash /\ "missed" \in Faults
<1>. DEFINE e == [p.mcu EXCEPT !.flash = Paged(d, p.mcu.flash)]
<1>1. q \in Mega!Ask(p, e, "page", p.reply_ok)
  <2>1. Mega!PageLen(d) = PageLen(d)
    BY SameBuffer
  <2>2. e = [p.mcu EXCEPT !.flash = [a \in 0..MaxAddress |->
                IF a \in d.address .. d.address + Len(SubSeq(d.pageBuf, 1, PageLen(d))) - 1
                THEN SubSeq(d.pageBuf, 1, PageLen(d))[a - d.address + 1] ELSE @[a]]]
    BY DEF Paged
  <2>. HIDE DEF e
  <2>. QED
    BY <2>1, <2>2 DEF Mega!LoadPage
<1>2. Effect(p, e) /\ e.flash = Paged(d, p.mcu.flash)
  BY FlashEffect DEF Quiet
<1>. HIDE DEF e
<1>3. "page" \in Questioned /\ "page" \in Others /\ "rest" \in Others
  BY DEF Questioned, Others, Words
<1>4. Asker(p) /\ p.mcu.fifo \in Seq(Others)
  BY DEF Quiet
<1>5. AskedOf(p, e, "page", p.reply_ok, q)
  BY <1>1, <1>2, <1>3, <1>4, AskIs
<1>6. q.mcu.fifo \in Seq(Others)
  BY <1>3, <1>4, <1>5, AskSeq
<1>7. /\ Asker(q) /\ q.ok = p.ok /\ q.data = p.data
      /\ \/ p.mcu.boot /\ q.mcu.flash = e.flash
         \/ q.mcu.flash = p.mcu.flash /\ (p.mcu.boot /\ "page" = "page" => "missed" \in Faults)
      /\ p.reply_ok => q.reply_ok
  BY <1>5, Zenon DEF AskedOf, Becomes
<1>. QED
  BY <1>2, <1>6, <1>7 DEF Quiet

\* A page goes to its address, or nowhere.
LEMMA MegaPageDone ==
    ASSUME NEW p, Quiet(p), p.ok, p.data.address \in Nat, p.data.address % 2 = 0,
           NEW q \in Mega!megaProgramPage(p)
    PROVE  /\ Asker(q)
           /\ ~q.ok => q.mcu.flash = p.mcu.flash
           /\ q.ok => /\ Quiet(q) /\ q.data = Shifted(p.data)
                      /\ \/ q.mcu.flash = Paged(p.data, p.mcu.flash)
                         \/ q.mcu.flash = p.mcu.flash /\ "missed" \in Faults
<1>. DEFINE d == p.data
            e == [p.mcu EXCEPT !.address = d.address]
<1>1. 2 * (d.address \div 2) = d.address
  OBVIOUS
<1>2. Mega!LoadAddress(p, d.address) = Mega!Ask(p, e, "address", FALSE)
  BY <1>1 DEF Mega!LoadAddress
<1>3. Effect(p, e) /\ e.flash = p.mcu.flash /\ e.address = d.address
  BY AddressEffect DEF Quiet
<1>. HIDE DEF e
<1>4. PICK a \in Mega!Ask(p, e, "address", FALSE) :
         q \in IF ~a.reply_ok THEN {[a EXCEPT !.ok = FALSE]}
               ELSE {IF r.reply_ok THEN [r EXCEPT !.data = Mega!Shifted(@)]
                     ELSE [r EXCEPT !.ok = FALSE] : r \in Mega!LoadPage(a)}
  BY <1>2 DEF Mega!megaProgramPage
<1>5. Asker(p) /\ p.mcu.fifo \in Seq(Others) /\ "address" \in Questioned
  BY DEF Quiet, Questioned
<1>6. AskedOf(p, e, "address", FALSE, a)
  BY <1>3, <1>4, <1>5, AskIs
<1>7. Asker(a) /\ a.ok = p.ok /\ a.data = d /\ a.mcu.flash = p.mcu.flash
  <2>1. /\ Asker(a) /\ a.ok = p.ok /\ a.data = p.data
        /\ a.mcu.flash = e.flash \/ a.mcu.flash = p.mcu.flash
    BY <1>6, Zenon DEF AskedOf, Becomes
  <2>. QED
    BY <1>3, <2>1
<1>8. CASE ~a.reply_ok
  <2>1. q = [a EXCEPT !.ok = FALSE]
    BY <1>4, <1>8
  <2>. QED
    BY <1>7, <2>1, AskerOk
<1>9. CASE a.reply_ok
  <2>1. Becomes(p, a, e, <<>>) /\ p.mcu.boot
    BY <1>5, <1>6, <1>9, AddressLoaded
  <2>2. <<>> \in Seq(Others)
    OBVIOUS
  <2>3. /\ Quiet(a) /\ a.mcu.address = d.address /\ a.mcu.boot
    <3>1. e.boot = p.mcu.boot
      BY AddressEffect DEF e, Quiet
    <3>. QED
      BY <1>3, <1>7, <2>1, <2>2, <3>1 DEF Becomes, Quiet
  <2>4. PICK r \in Mega!LoadPage(a) :
           q = IF r.reply_ok THEN [r EXCEPT !.data = Mega!Shifted(@)] ELSE [r EXCEPT !.ok = FALSE]
    BY <1>4, <1>9
  <2>5. /\ Quiet(r) /\ r.ok = a.ok /\ r.data = d /\ r.reply_ok
        /\ \/ r.mcu.flash = Paged(d, p.mcu.flash)
           \/ r.mcu.flash = p.mcu.flash /\ "missed" \in Faults
    <3>. HIDE DEF d
    <3>1. a.data = d /\ a.reply_ok
      BY <1>7, <1>9
    <3>2. /\ Quiet(r) /\ r.ok = a.ok /\ r.data = d /\ r.reply_ok
          /\ \/ r.mcu.flash = Paged(d, a.mcu.flash)
             \/ r.mcu.flash = a.mcu.flash /\ "missed" \in Faults
      BY <2>3, <2>4, <3>1, PageLoaded, Zenon
    <3>. QED
      BY <1>7, <3>2
  <2>6. q = [r EXCEPT !.data = Shifted(d)]
    <3>1. Mega!Shifted(d) = Shifted(d)
      BY SameBuffer
    <3>. QED
      BY <2>4, <2>5, <3>1
  <2>. HIDE DEF d
  <2>7. Asker(q) /\ q.ok = r.ok /\ q.data = Shifted(d) /\ q.mcu = r.mcu
    BY <2>5, <2>6, AskerData DEF Quiet
  <2>. QED
    BY <1>7, <2>5, <2>7 DEF Quiet, d
<1>. QED
  BY <1>8, <1>9

\* So it does whatever the programmer believes of the rest of the flash.
LEMMA MegaPaged ==
    ASSUME NEW p, Quiet(p), p.ok, NEW B, Buffer(p.data, Ghost(p.mcu.flash), B),
           p.data.pageBuf # <<>>, NEW q \in Mega!megaProgramPage(p)
    PROVE  /\ Asker(q) /\ InPlace(p.mcu.flash, q.mcu.flash)
           /\ q.ok => /\ Quiet(q)
                      /\ Page(p.data, Ghost(p.mcu.flash), q.data, Ghost(q.mcu.flash))
<1>. DEFINE d == p.data
            f == p.mcu.flash
<1>1. d.address \in Nat /\ d.address % 2 = 0
  BY DEF Buffer, PageBuffers
<1>2. /\ Asker(q)
      /\ ~q.ok => q.mcu.flash = f
      /\ q.ok => /\ Quiet(q) /\ q.data = Shifted(d)
                 /\ q.mcu.flash = Paged(d, f) \/ (q.mcu.flash = f /\ "missed" \in Faults)
  BY <1>1, MegaPageDone
<1>3. \A g : \A a \in 0..MaxAddress :
         Paged(d, g)[a] = IF a \in d.address .. d.address + PageLen(d) - 1 THEN a ELSE g[a]
  BY PagedIs
<1>4. InPlace(f, Paged(d, f))
  BY <1>3 DEF InPlace
<1>5. Paged(d, Whole) = Whole
  <2>1. \A a \in 0..MaxAddress : Paged(d, Whole)[a] = a
    BY <1>3 DEF Whole
  <2>2. Paged(d, Whole) = [a \in 0..MaxAddress |-> Paged(d, Whole)[a]]
    BY DEF Paged
  <2>3. [a \in 0..MaxAddress |-> Paged(d, Whole)[a]] = [a \in 0..MaxAddress |-> a]
    BY <2>1
  <2>. QED
    BY <2>2, <2>3 DEF Whole
<1>. HIDE DEF d, f
<1>6. q.ok => Ghost(q.mcu.flash) = Paged(d, Ghost(f))
  BY <1>2, <1>5 DEF Ghost
<1>. QED
  BY <1>2, <1>4, <1>6, InPlaceSame DEF Page, d, f

\* p has come as far as the records before the next.
MegaAt(p, image, k, b) == Quiet(p) /\ p.ok /\ At(p.data, Ghost(p.mcu.flash), image, k, b)

\* What a record comes to: whatever happens, bytes in their places, and if
\* nothing fails, one more record.
Comes(p, q, image, k, b) ==
    /\ Asker(q) /\ InPlace(p.mcu.flash, q.mcu.flash)
    /\ q.ok => MegaAt(q, image, k + 1, b) /\ q.data.saved = p.data.saved

LEMMA MegaData ==
    ASSUME PgmSz % 2 = 0, NEW image \in Seq(HexRecord), NEW b \in Uppers(image),
           Suitable(image, b), NEW k \in Nat, k + 1 \in DOMAIN image,
           image[k + 1].type = "data", NEW p, MegaAt(p, image, k, b),
           NEW q \in Mega!HEX!processRecord(p, image[k + 1])
    PROVE  Comes(p, q, image, k, b)
<1>. DEFINE r == image[k + 1]
            f == p.mcu.flash
<1>0. Quiet(p) /\ p.ok /\ At(p.data, Ghost(f), image, k, b) /\ Asker(p)
  BY DEF MegaAt, Quiet
<1>1. PICK a \in IF HEX!Jumps(p.data, r) THEN Mega!megaProgramPage(p) ELSE {p} :
         q \in IF a.ok THEN Mega!HEX!DataRecord(a, r) ELSE {a}
  BY SameBuffer DEF Mega!HEX!processRecord
<1>2. /\ Asker(a) /\ InPlace(f, a.mcu.flash)
      /\ a.ok => /\ Quiet(a)
                 /\ IF HEX!Jumps(p.data, r)
                    THEN Page(p.data, Ghost(f), a.data, Ghost(a.mcu.flash))
                    ELSE a.data = p.data /\ Ghost(a.mcu.flash) = Ghost(f)
  <2>1. CASE HEX!Jumps(p.data, r)
    <3>1. a \in Mega!megaProgramPage(p) /\ p.data.pageBuf # <<>>
      BY <1>1, <2>1 DEF HEX!Jumps
    <3>2. Buffer(p.data, Ghost(f), BytesUpTo(image, k))
      BY <1>0 DEF At
    <3>. QED
      BY <1>0, <2>1, <3>1, <3>2, MegaPaged
  <2>2. CASE ~HEX!Jumps(p.data, r)
    BY <1>0, <1>1, <2>2, InPlaceSame
  <2>. QED
    BY <2>1, <2>2
<1>3. CASE ~a.ok
  <2>1. q = a
    BY <1>1, <1>3
  <2>. QED
    BY <1>2, <1>3, <2>1 DEF Comes
<1>4. CASE a.ok
  <2>. DEFINE s == HEX!AppendData(a.data, r)
              c == [a EXCEPT !.data = s]
              h == Ghost(a.mcu.flash)
  <2>1. Gathered(s, h, image, k + 1, b) /\ s.saved = p.data.saved
    <3>. DEFINE d == p.data
                e == a.data
                g == Ghost(f)
    <3>1. /\ At(d, g, image, k, b)
          /\ IF HEX!Jumps(d, r) THEN Page(d, g, e, h) ELSE e = d /\ h = g
      BY <1>0, <1>2, <1>4
    <3>. HIDE DEF d, e, g, h
    <3>. QED
      BY <3>1, DataGathered DEF d, e
  <2>2. q \in IF Len(c.data.pageBuf) >= PgmSz THEN Mega!megaProgramPage(c) ELSE {c}
    <3>1. c = [a EXCEPT !.data = Mega!HEX!AppendData(@, r)]
      BY SameBuffer
    <3>. HIDE DEF c
    <3>. QED
      BY <1>1, <1>4, <3>1 DEF Mega!HEX!DataRecord
  <2>. HIDE DEF s
  <2>3. c.data = s /\ c.mcu = a.mcu /\ c.ok /\ Quiet(c)
    <3>1. Asker(c) /\ c.ok = a.ok /\ c.data = s /\ c.mcu = a.mcu
      BY <1>2, AskerData
    <3>. QED
      BY <1>2, <1>4, <3>1 DEF Quiet
  <2>. HIDE DEF c
  <2>4. /\ Asker(q) /\ InPlace(a.mcu.flash, q.mcu.flash)
        /\ q.ok => /\ Quiet(q)
                   /\ IF Len(s.pageBuf) >= PgmSz THEN Page(s, h, q.data, Ghost(q.mcu.flash))
                      ELSE q.data = s /\ Ghost(q.mcu.flash) = h
    <3>1. CASE Len(s.pageBuf) >= PgmSz
      <4>1. q \in Mega!megaProgramPage(c) /\ s.pageBuf # <<>>
        BY <2>2, <2>3, <3>1, HexAssumption
      <4>2. Buffer(c.data, Ghost(c.mcu.flash), BytesUpTo(image, k + 1))
        BY <2>1, <2>3 DEF Gathered
      <4>3. /\ Asker(q) /\ InPlace(c.mcu.flash, q.mcu.flash)
            /\ q.ok => /\ Quiet(q)
                       /\ Page(c.data, Ghost(c.mcu.flash), q.data, Ghost(q.mcu.flash))
        BY <2>3, <4>1, <4>2, MegaPaged
      <4>. QED
        BY <2>3, <3>1, <4>3
    <3>2. CASE ~(Len(s.pageBuf) >= PgmSz)
      <4>1. q = c
        BY <2>2, <2>3, <3>2
      <4>. QED
        BY <2>3, <3>2, <4>1, InPlaceSame DEF Quiet
    <3>. QED
      BY <3>1, <3>2
  <2>5. InPlace(f, q.mcu.flash)
    BY <1>2, <2>4, InPlaceTwice
  <2>6. q.ok => At(q.data, Ghost(q.mcu.flash), image, k + 1, b) /\ q.data.saved = s.saved
    <3>. SUFFICES ASSUME q.ok
                  PROVE  At(q.data, Ghost(q.mcu.flash), image, k + 1, b)
                         /\ q.data.saved = s.saved
      OBVIOUS
    <3>. DEFINE e == q.data
                g == Ghost(q.mcu.flash)
    <3>1. IF Len(s.pageBuf) >= PgmSz THEN Page(s, h, e, g) ELSE e = s /\ g = h
      BY <2>4
    <3>. HIDE DEF e, g, h, r
    <3>2. At(e, g, image, k + 1, b) /\ e.saved = s.saved
      BY <2>1, <3>1, GatheredAt
    <3>. QED
      BY <3>2 DEF e, g
  <2>. QED
    BY <2>1, <2>4, <2>5, <2>6 DEF Comes, MegaAt
<1>. QED
  BY <1>3, <1>4

LEMMA MegaFlush ==
    ASSUME PgmSz % 2 = 0, NEW image \in Seq(HexRecord), NEW b \in Uppers(image),
           Suitable(image, b), NEW k \in Nat, k + 1 \in DOMAIN image,
           NEW p, MegaAt(p, image, k, b), NEW q \in Mega!HEX!Flush(p)
    PROVE  /\ Asker(q) /\ InPlace(p.mcu.flash, q.mcu.flash)
           /\ q.ok => /\ MegaAt(q, image, k, b)
                      /\ q.data.saved = p.data.saved /\ q.data.pageBuf = <<>>
<1>. DEFINE d == p.data
            f == Ghost(p.mcu.flash)
            e == q.data
            g == Ghost(q.mcu.flash)
<1>0. Quiet(p) /\ p.ok /\ At(d, f, image, k, b) /\ Asker(p)
  BY DEF MegaAt, Quiet
<1>1. CASE d.pageBuf = <<>>
  BY <1>0, <1>1, InPlaceSame DEF Mega!HEX!Flush, MegaAt
<1>2. CASE d.pageBuf # <<>>
  <2>1. q \in Mega!megaProgramPage(p)
    BY <1>2 DEF Mega!HEX!Flush
  <2>2. Buffer(d, f, BytesUpTo(image, k))
    BY <1>0 DEF At
  <2>3. /\ Asker(q) /\ InPlace(p.mcu.flash, q.mcu.flash)
        /\ q.ok => Quiet(q) /\ Page(d, f, e, g)
    BY <1>0, <1>2, <2>1, <2>2, MegaPaged
  <2>. HIDE DEF d, e, f, g
  <2>4. q.ok => At(e, g, image, k, b) /\ e.saved = d.saved /\ e.pageBuf = <<>>
    BY <1>0, <1>2, <2>3, FlushedAt
  <2>. QED
    BY <2>3, <2>4 DEF MegaAt, d, e, g
<1>. QED
  BY <1>1, <1>2

LEMMA MegaOther ==
    ASSUME PgmSz % 2 = 0, NEW image \in Seq(HexRecord), NEW b \in Uppers(image),
           Suitable(image, b), NEW k \in Nat, k + 1 \in DOMAIN image,
           image[k + 1].type # "data", NEW p, MegaAt(p, image, k, b),
           NEW q \in Mega!HEX!processRecord(p, image[k + 1])
    PROVE  Comes(p, q, image, k, b)
<1>. DEFINE r == image[k + 1]
<1>0. Quiet(p) /\ p.ok /\ At(p.data, Ghost(p.mcu.flash), image, k, b) /\ Asker(p)
  BY DEF MegaAt, Quiet
<1>1. ASSUME NEW a \in Mega!HEX!Flush(p), NEW d,
             q = IF a.ok THEN [a EXCEPT !.data = d] ELSE a,
             a.ok => At(d, Ghost(a.mcu.flash), image, k + 1, b) /\ d.saved = a.data.saved
      PROVE  Comes(p, q, image, k, b)
  <2>1. /\ Asker(a) /\ InPlace(p.mcu.flash, a.mcu.flash)
        /\ a.ok => MegaAt(a, image, k, b) /\ a.data.saved = p.data.saved
    BY MegaFlush
  <2>2. CASE ~a.ok
    BY <1>1, <2>1, <2>2 DEF Comes
  <2>3. CASE a.ok
    <3>1. Asker(q) /\ q.ok = a.ok /\ q.data = d /\ q.mcu = a.mcu
      <4>1. q = [a EXCEPT !.data = d]
        BY <1>1, <2>3
      <4>. QED
        BY <2>1, <4>1, AskerData
    <3>. QED
      BY <1>1, <2>1, <2>3, <3>1 DEF Comes, MegaAt, Quiet
  <2>. QED
    BY <2>2, <2>3
<1>2. CASE r.type = "eof"
  <2>1. PICK a \in Mega!HEX!Flush(p) : q = IF a.ok THEN [a EXCEPT !.data.eof = TRUE] ELSE a
    BY <1>2 DEF Mega!HEX!processRecord
  <2>. DEFINE d == [a.data EXCEPT !.eof = TRUE]
  <2>2. q = IF a.ok THEN [a EXCEPT !.data = d] ELSE a
    BY <2>1
  <2>3. a.ok => At(d, Ghost(a.mcu.flash), image, k + 1, b) /\ d.saved = a.data.saved
    <3>1. a.ok => At(a.data, Ghost(a.mcu.flash), image, k, b) /\ a.data.pageBuf = <<>>
      BY <2>1, MegaFlush DEF MegaAt
    <3>. QED
      BY <1>2, <3>1, EofAt
  <2>. HIDE DEF d
  <2>. QED
    BY <1>1, <2>1, <2>2, <2>3
<1>3. CASE r.type = "upper"
  <2>1. PICK a \in Mega!HEX!Flush(p) : q = IF a.ok THEN [a EXCEPT !.data.address = r.full] ELSE a
    BY <1>3 DEF Mega!HEX!processRecord
  <2>. DEFINE d == [a.data EXCEPT !.address = r.full]
  <2>2. q = IF a.ok THEN [a EXCEPT !.data = d] ELSE a
    BY <2>1
  <2>3. a.ok => At(d, Ghost(a.mcu.flash), image, k + 1, b) /\ d.saved = a.data.saved
    <3>1. a.ok => At(a.data, Ghost(a.mcu.flash), image, k, b) /\ a.data.pageBuf = <<>>
      BY <2>1, MegaFlush DEF MegaAt
    <3>. QED
      BY <1>3, <3>1, UpperAt
  <2>. HIDE DEF d
  <2>. QED
    BY <1>1, <2>1, <2>2, <2>3
<1>4. CASE r.type = "other"
  <2>1. q = p
    BY <1>4 DEF Mega!HEX!processRecord
  <2>2. At(p.data, Ghost(p.mcu.flash), image, k + 1, b)
    BY <1>0, <1>4, OtherAt
  <2>. QED
    BY <1>0, <2>1, <2>2, InPlaceSame DEF Comes, MegaAt
<1>5. CASE r.type = "bad"
  <2>1. q = [p EXCEPT !.ok = FALSE]
    BY <1>5 DEF Mega!HEX!processRecord, Mega!HEX!Fail
  <2>2. Asker(q) /\ q.ok = FALSE /\ q.mcu = p.mcu
    BY <1>0, <2>1, AskerOk, Zenon
  <2>. QED
    BY <2>2, InPlaceSame DEF Comes
<1>. QED
  BY <1>2, <1>3, <1>4, <1>5, Records

\* A record that nothing is known of, or that another page interfered with.
LEMMA MegaPageTyped ==
    ASSUME NEW p, Asker(p), NEW q \in Mega!megaProgramPage(p)
    PROVE  Asker(q)
<1>. DEFINE e == [p.mcu EXCEPT !.address = 2 * (p.data.address \div 2)]
<1>1. PICK a \in Mega!Ask(p, e, "address", FALSE) :
         q \in IF ~a.reply_ok THEN {[a EXCEPT !.ok = FALSE]}
               ELSE {IF r.reply_ok THEN [r EXCEPT !.data = Mega!Shifted(@)]
                     ELSE [r EXCEPT !.ok = FALSE] : r \in Mega!LoadPage(a)}
  BY DEF Mega!megaProgramPage, Mega!LoadAddress
<1>2. Effect(p, e) /\ "address" \in Questioned /\ "page" \in Questioned
  BY AddressEffect DEF Questioned
<1>. HIDE DEF e
<1>3. AskedOf(p, e, "address", FALSE, a)
  BY <1>1, <1>2, AskIs
<1>4. Asker(a)
  BY <1>3 DEF AskedOf, Becomes
<1>5. CASE ~a.reply_ok
  BY <1>1, <1>4, <1>5, AskerOk
<1>6. CASE a.reply_ok
  <2>1. PICK r \in Mega!LoadPage(a) :
           q = IF r.reply_ok THEN [r EXCEPT !.data = Mega!Shifted(@)] ELSE [r EXCEPT !.ok = FALSE]
    BY <1>1, <1>6
  <2>2. PICK x : r \in Mega!Ask(a, [a.mcu EXCEPT !.flash = x], "page", a.reply_ok)
    BY <2>1 DEF Mega!LoadPage
  <2>. DEFINE f == [a.mcu EXCEPT !.flash = x]
  <2>3. Effect(a, f)
    BY <1>4, FlashEffect
  <2>. HIDE DEF f
  <2>4. AskedOf(a, f, "page", a.reply_ok, r)
    BY <1>2, <1>4, <2>2, <2>3, AskIs DEF f
  <2>5. Asker(r)
    BY <2>4 DEF AskedOf, Becomes
  <2>. QED
    BY <2>1, <2>5, AskerOk, AskerData
<1>. QED
  BY <1>5, <1>6

LEMMA MegaTyped ==
    ASSUME NEW p, Asker(p), NEW r, NEW q \in Mega!HEX!processRecord(p, r),
           r.type \in {"data", "eof", "upper", "other", "bad"}
    PROVE  Asker(q)
<1>1. ASSUME NEW f \in Mega!HEX!Flush(p) PROVE Asker(f)
  BY <1>1, MegaPageTyped DEF Mega!HEX!Flush
<1>2. CASE r.type = "data"
  <2>1. PICK a \in IF Mega!HEX!Jumps(p.data, r) THEN Mega!megaProgramPage(p) ELSE {p} :
           q \in IF a.ok THEN Mega!HEX!DataRecord(a, r) ELSE {a}
    BY <1>2 DEF Mega!HEX!processRecord
  <2>2. Asker(a)
    BY <2>1, MegaPageTyped
  <2>3. Asker([a EXCEPT !.data = Mega!HEX!AppendData(@, r)])
    BY <2>2, AskerData
  <2>. QED
    BY <2>1, <2>2, <2>3, MegaPageTyped DEF Mega!HEX!DataRecord
<1>3. CASE r.type \in {"eof", "upper"}
  <2>1. PICK a \in Mega!HEX!Flush(p) : q = a \/ \E d : q = [a EXCEPT !.data = d]
    BY <1>3 DEF Mega!HEX!processRecord
  <2>. QED
    BY <1>1, <2>1, AskerData
<1>4. CASE r.type = "other"
  BY <1>4 DEF Mega!HEX!processRecord
<1>5. CASE r.type = "bad"
  BY <1>5, AskerOk DEF Mega!HEX!processRecord, Mega!HEX!Fail
<1>. QED
  BY <1>2, <1>3, <1>4, <1>5

-----------------------------------------------------------------------------
(* The invariant of the other programmer.  Until another page has an       *)
(* address loaded, no answer that one is can be left over once the boot    *)
(* loader has signed on, and what has been uploaded is where the           *)
(* programmer believes it to be.                                           *)

MegaSession ==
    mega = [progState |-> mega.progState, responseLen |-> mega.responseLen,
            programmingCB |-> mega.programmingCB, armed |-> mega.armed, body |-> mega.body,
            data |-> mega.data, reply_ok |-> mega.reply_ok]

MegaUpload == [image : Images, pos : Nat, result : {"none", "running", "failed", "success", "lost"}]

MegaTypes ==
    /\ MegaSession /\ TargetOf(target) /\ sending \in MegaUpload
    /\ session = [lost |-> session.lost, diagnosed |-> session.diagnosed]

\* As far as the upload has got is what the buffer and the flash memory say.
Built(d, flash, image, k) ==
    /\ d.saved = {}
    /\ \E b \in Uppers(image) : Suitable(image, b) /\ At(d, flash, image, k, b)

MegaInv ==
    /\ MegaTypes
    /\ sending.result = "none" => sending.pos = 0 /\ mega.data \in {NoData, NewData}
    /\ ~session.diagnosed =>
          /\ mega.progState # "init" => target.fifo \in Seq(Others)
          /\ sending.result = "running" =>
                /\ mega.progState = "prog"
                /\ Built(mega.data, Ghost(target.flash), sending.image, sending.pos)

\* The questions: the flash memory is left alone.
MegaAsks(m) ==
    /\ TargetOf(target') /\ target'.flash = m.flash
    /\ m.fifo \in Seq(Others) => target'.fifo \in Seq(Others)

LEMMA SentIs ==
    ASSUME NEW m, NEW e, NEW a, NEW s \in Mega!Sent(m, e, a)
    PROVE  \/ s.mcu = [e EXCEPT !.fifo = @ \o Mega!Answer(a)]
           \/ s.mcu = e
           \/ s.mcu = m
<1>1. CASE ~m.boot
  BY <1>1 DEF Mega!Sent
<1>2. CASE m.boot
  <2>1. \/ s = [mcu |-> [e EXCEPT !.fifo = @ \o Mega!Answer(a)], lost |-> FALSE]
        \/ s = [mcu |-> e, lost |-> TRUE]
        \/ s = [mcu |-> m, lost |-> TRUE]
    BY <1>2 DEF Mega!Sent
  <2>. QED
    BY <2>1
<1>. QED
  BY <1>1, <1>2

LEMMA SendsIs ==
    ASSUME MegaTypes, NEW m, TargetOf(m), NEW a \in {"param", "spi"}, Mega!Sends(m, a)
    PROVE  MegaAsks(m) /\ session'.diagnosed = session.diagnosed
           /\ session' = [lost |-> session'.lost, diagnosed |-> session'.diagnosed]
<1>. DEFINE ans == Mega!Answer(a)
<1>1. PICK s \in Mega!Sent(m, m, a) : target' = s.mcu /\ Mega!Lossy(s.lost)
  BY DEF Mega!Sends
<1>2. target' = m \/ target' = [m EXCEPT !.fifo = m.fifo \o ans]
  <2>1. s.mcu = m \/ s.mcu = [m EXCEPT !.fifo = @ \o ans]
    BY <1>1, SentIs
  <2>2. [m EXCEPT !.fifo = @ \o ans] = [m EXCEPT !.fifo = m.fifo \o ans]
    BY DEF TargetOf
  <2>. QED
    BY <1>1, <2>1, <2>2
<1>3. a \in Questioned /\ a \in Others /\ "rest" \in Others /\ a \in Words /\ "rest" \in Words
  BY DEF Questioned, Others, Words
<1>4. ans \in Seq(Others) /\ ans \in Seq(Words)
  BY <1>3, AnswerSeq
<1>5. m.fifo \in Seq(Words)
  BY DEF TargetOf
<1>. HIDE DEF ans
<1>6. m.fifo \o ans \in Seq(Words) /\ (m.fifo \in Seq(Others) => m.fifo \o ans \in Seq(Others))
  BY <1>4, <1>5
<1>7. MegaAsks(m)
  <2>. DEFINE g == m.fifo \o ans
              n == [m EXCEPT !.fifo = g]
  <2>1. TargetOf(n) /\ n.flash = m.flash /\ n.fifo = g
    <3>. HIDE DEF g
    <3>. QED
      BY <1>6, NewTarget DEF g
  <2>2. target' = m \/ target' = n
    BY <1>2
  <2>. HIDE DEF n
  <2>. QED
    BY <1>6, <2>1, <2>2 DEF MegaAsks
<1>8. session' = [session EXCEPT !.lost = session.lost \/ s.lost]
  BY <1>1 DEF Mega!Lossy
<1>. DEFINE x == session.lost \/ s.lost
<1>9. session' = [session EXCEPT !.lost = x]
  BY <1>8
<1>. HIDE DEF x
<1>. QED
  BY <1>7, <1>9 DEF MegaTypes

\* A step in which no upload goes on.
LEMMA MegaQuiet ==
    ASSUME MegaInv, MegaSession', TargetOf(target'), sending' = sending,
           session' = [lost |-> session'.lost, diagnosed |-> session'.diagnosed],
           session'.diagnosed = session.diagnosed,
           sending.result = "none" => mega'.data \in {NoData, NewData},
           mega'.progState # "init" /\ ~session.diagnosed => target'.fifo \in Seq(Others),
           \/ mega.progState # "prog"
           \/ mega'.progState = "prog" /\ mega'.data = mega.data /\ target'.flash = target.flash
    PROVE  MegaInv'
<1>1. MegaTypes'
  BY DEF MegaInv, MegaTypes
<1>2. ASSUME ~session'.diagnosed, sending'.result = "running"
      PROVE  /\ mega'.progState = "prog"
             /\ Built(mega'.data, Ghost(target'.flash), sending'.image, sending'.pos)
  BY <1>2 DEF MegaInv
<1>3. MegaInv' =
        (/\ MegaTypes'
         /\ sending'.result = "none" => sending'.pos = 0 /\ mega'.data \in {NoData, NewData}
         /\ ~session'.diagnosed =>
               /\ mega'.progState # "init" => target'.fifo \in Seq(Others)
               /\ sending'.result = "running" =>
                     /\ mega'.progState = "prog"
                     /\ Built(mega'.data, Ghost(target'.flash), sending'.image, sending'.pos))
  BY DEF MegaInv, Ghost, Built, At, Buffer, Suitable
<1>. QED
  BY <1>1, <1>2, <1>3 DEF MegaInv

LEMMA MegaInit == Mega!Init => MegaInv
<1>. SUFFICES ASSUME Mega!Init PROVE MegaInv
  OBVIOUS
<1>1. mega.progState = "init" /\ mega.data = NoData /\ target.fifo = <<>>
      /\ sending.result = "none" /\ sending.pos = 0
  BY DEF Mega!Init
<1>2. MegaSession /\ session = [lost |-> session.lost, diagnosed |-> session.diagnosed]
  BY DEF Mega!Init, MegaSession
<1>3. TargetOf(target)
  <2>1. <<>> \in Seq(Words)
    OBVIOUS
  <2>. QED
    BY <2>1 DEF Mega!Init, TargetOf
<1>4. sending \in MegaUpload
  BY DEF Mega!Init, MegaUpload
<1>. QED
  BY <1>1, <1>2, <1>3, <1>4 DEF MegaInv, MegaTypes

LEMMA MegaSyncStep ==
    ASSUME MegaInv, Mega!cgiMegaSync
    PROVE  MegaInv' /\ target'.flash = target.flash
<1>1. /\ MegaSession' /\ mega'.progState = "init" /\ mega'.data = NoData
  BY DEF MegaInv, MegaTypes, MegaSession, Mega!cgiMegaSync, Mega!optibootInit
<1>2. TargetOf(target') /\ target'.flash = target.flash
  BY DEF MegaInv, MegaTypes, TargetOf, Mega!cgiMegaSync
<1>3. sending' \in MegaUpload /\ sending'.pos = 0 /\ sending'.result = "none"
  BY DEF MegaUpload, Mega!cgiMegaSync
<1>4. session' = [lost |-> session'.lost, diagnosed |-> session'.diagnosed]
  BY DEF Mega!cgiMegaSync
<1>. QED
  BY <1>1, <1>2, <1>3, <1>4 DEF MegaInv, MegaTypes, TargetOf

LEMMA MegaTimerStep ==
    ASSUME MegaInv, Mega!megaTimerCB
    PROVE  MegaInv' /\ target'.flash = target.flash
<1>0. /\ MegaTypes /\ MegaSession /\ TargetOf(target) /\ mega.progState = "init"
      /\ target.fifo = <<>> /\ sending' = sending
      /\ session = [lost |-> session.lost, diagnosed |-> session.diagnosed]
  BY DEF MegaInv, MegaTypes, Mega!megaTimerCB
<1>1. <<>> \in Seq(Others) /\ mega.progState # "prog"
  BY <1>0
<1>2. CASE /\ mega' = [mega EXCEPT !.armed = FALSE, !.body = TRUE, !.progState = "sync",
                                   !.responseLen = 0]
           /\ \/ Mega!Sends(target, "param")
              \/ Mega!Sends([target EXCEPT !.fifo = Mega!Answer("signon")], "param")
  <2>1. MegaSession' /\ mega'.data = mega.data
    BY <1>0, <1>2 DEF MegaSession
  <2>2. \E m : /\ TargetOf(m) /\ m.flash = target.flash /\ m.fifo \in Seq(Others)
               /\ Mega!Sends(m, "param")
    <3>1. CASE Mega!Sends(target, "param")
      BY <1>0, <1>1, <3>1
    <3>2. CASE Mega!Sends([target EXCEPT !.fifo = Mega!Answer("signon")], "param")
      <4>. DEFINE ans == Mega!Answer("signon")
                  m == [target EXCEPT !.fifo = ans]
      <4>1. ans \in Seq(Words) /\ ans \in Seq(Others)
        BY AnswerSeq DEF Others, Words, Questioned
      <4>. HIDE DEF ans
      <4>2. TargetOf(m) /\ m.fifo = ans /\ m.flash = target.flash
        BY <1>0, <4>1, NewTarget
      <4>3. Mega!Sends(m, "param")
        BY <3>2 DEF ans
      <4>. QED
        BY <4>1, <4>2, <4>3
    <3>. QED
      BY <1>2, <3>1, <3>2
  <2>3. PICK m : /\ TargetOf(m) /\ m.flash = target.flash /\ m.fifo \in Seq(Others)
                 /\ Mega!Sends(m, "param")
    BY <2>2
  <2>4. MegaAsks(m) /\ session'.diagnosed = session.diagnosed
        /\ session' = [lost |-> session'.lost, diagnosed |-> session'.diagnosed]
    BY <1>0, <2>3, SendsIs
  <2>. QED
    BY <1>0, <1>1, <2>1, <2>3, <2>4, MegaQuiet DEF MegaAsks, MegaInv
<1>3. CASE mega' = [mega EXCEPT !.armed = FALSE, !.body = TRUE] /\ Mega!Lossy(TRUE) /\ target' = target
  <2>1. MegaSession' /\ mega'.data = mega.data /\ mega'.progState = "init"
    BY <1>0, <1>3 DEF MegaSession
  <2>2. session'.diagnosed = session.diagnosed
        /\ session' = [lost |-> session'.lost, diagnosed |-> session'.diagnosed]
    BY <1>0, <1>3 DEF Mega!Lossy
  <2>. QED
    BY <1>0, <1>1, <1>3, <2>1, <2>2, MegaQuiet DEF MegaInv
<1>. QED
  BY <1>2, <1>3 DEF Mega!megaTimerCB

\* Receiving takes the beginning of what is to be read.
LEMMA Received ==
    ASSUME NEW m, TargetOf(m), NEW n \in 1..Len(m.fifo)
    PROVE  LET f == SubSeq(m.fifo, n + 1, Len(m.fifo))
               r == [m EXCEPT !.fifo = SubSeq(@, n + 1, Len(@))]
           IN  /\ TargetOf(r) /\ r.fifo = f /\ r.flash = m.flash
               /\ m.fifo \in Seq(Others) => f \in Seq(Others)
<1>. DEFINE f == SubSeq(m.fifo, n + 1, Len(m.fifo))
<1>1. \A S : m.fifo \in Seq(S) => f \in Seq(S)
  OBVIOUS
<1>. HIDE DEF f
<1>2. f \in Seq(Words)
  BY <1>1 DEF TargetOf
<1>3. [m EXCEPT !.fifo = SubSeq(@, n + 1, Len(@))] = [m EXCEPT !.fifo = f]
  BY DEF TargetOf, f
<1>4. TargetOf([m EXCEPT !.fifo = f]) /\ [m EXCEPT !.fifo = f].fifo = f
      /\ [m EXCEPT !.fifo = f].flash = m.flash
  BY <1>2, NewTarget
<1>. QED
  BY <1>1, <1>3, <1>4 DEF f

LEMMA MegaRecvStep ==
    ASSUME MegaInv, Mega!megaUartRecv
    PROVE  MegaInv' /\ target'.flash = target.flash
<1>. DEFINE s == mega.progState
<1>0. /\ MegaTypes /\ MegaSession /\ TargetOf(target) /\ sending' = sending
      /\ session = [lost |-> session.lost, diagnosed |-> session.diagnosed]
  BY DEF MegaInv, MegaTypes, Mega!megaUartRecv
<1>1. PICK n \in 1..Len(target.fifo) :
         \E read, len, piece :
            /\ read = [target EXCEPT !.fifo = SubSeq(@, n + 1, Len(@))]
            /\ \/ Mega!RecvVersion(s, len, read) \/ Mega!RecvSignature(s, len, read)
               \/ Mega!RecvFuse(s, len, read, piece) \/ Mega!RecvGarbage(s, len, read)
  BY DEF Mega!megaUartRecv
<1>2. PICK read, len, piece :
         /\ read = [target EXCEPT !.fifo = SubSeq(@, n + 1, Len(@))]
         /\ \/ Mega!RecvVersion(s, len, read) \/ Mega!RecvSignature(s, len, read)
            \/ Mega!RecvFuse(s, len, read, piece) \/ Mega!RecvGarbage(s, len, read)
  BY <1>1
<1>3. /\ TargetOf(read) /\ read.flash = target.flash
      /\ target.fifo \in Seq(Others) => read.fifo \in Seq(Others)
  BY <1>0, <1>2, Received
\* The next question, if there is one.
<1>4. ASSUME \/ target' = read /\ UNCHANGED session
             \/ \E a \in {"param", "spi"} : Mega!Sends(read, a)
      PROVE  /\ MegaAsks(read) /\ session'.diagnosed = session.diagnosed
             /\ session' = [lost |-> session'.lost, diagnosed |-> session'.diagnosed]
  <2>1. CASE target' = read /\ UNCHANGED session
    BY <1>0, <1>3, <2>1 DEF MegaAsks
  <2>2. CASE \E a \in {"param", "spi"} : Mega!Sends(read, a)
    BY <1>0, <1>3, <2>2, SendsIs
  <2>. QED
    BY <1>4, <2>1, <2>2
<1>5. ASSUME Mega!NextQuestion(s, read)
      PROVE  \/ target' = read /\ UNCHANGED session
             \/ \E a \in {"param", "spi"} : Mega!Sends(read, a)
  BY <1>5 DEF Mega!NextQuestion
<1>6. CASE s = "init" \/ s = "prog"
  <2>1. mega' = [mega EXCEPT !.responseLen = len] /\ target' = read /\ UNCHANGED session
    BY <1>2, <1>6 DEF Mega!RecvVersion, Mega!RecvSignature, Mega!RecvFuse, Mega!RecvGarbage
  <2>2. MegaSession' /\ mega'.progState = s /\ mega'.data = mega.data
    BY <1>0, <2>1 DEF MegaSession
  <2>3. /\ MegaAsks(read) /\ session'.diagnosed = session.diagnosed
        /\ session' = [lost |-> session'.lost, diagnosed |-> session'.diagnosed]
    BY <1>4, <2>1
  <2>. QED
    BY <1>0, <1>3, <1>6, <2>2, <2>3, MegaQuiet DEF MegaAsks, MegaInv
<1>7. CASE s # "init" /\ s # "prog"
  <2>1. /\ \/ target' = read /\ UNCHANGED session
           \/ \E a \in {"param", "spi"} : Mega!Sends(read, a)
        /\ MegaSession' /\ mega'.data \in {mega.data, NewData}
    <3>1. CASE Mega!RecvVersion(s, len, read)
      <4>1. PICK x, y, d : /\ mega' = [mega EXCEPT !.progState = x, !.responseLen = y, !.data = d]
                           /\ d \in {mega.data, NewData}
        BY <3>1, SameBuffer DEF Mega!RecvVersion
      <4>2. MegaSession' /\ mega'.data = d
        BY <1>0, <4>1 DEF MegaSession
      <4>. QED
        BY <1>5, <3>1, <4>1, <4>2 DEF Mega!RecvVersion
    <3>2. CASE Mega!RecvSignature(s, len, read)
      <4>1. \/ \E x, y : mega' = [mega EXCEPT !.progState = x, !.responseLen = y]
            \/ \E y : mega' = [mega EXCEPT !.responseLen = y]
        BY <3>2 DEF Mega!RecvSignature
      <4>2. MegaSession' /\ mega'.data = mega.data
        BY <1>0, <4>1 DEF MegaSession
      <4>. QED
        BY <1>5, <3>2, <4>2 DEF Mega!RecvSignature
    <3>3. CASE Mega!RecvFuse(s, len, read, piece)
      <4>1. \E x, y, z : mega' = [mega EXCEPT !.progState = x, !.responseLen = y, !.reply_ok = z]
        BY <3>3 DEF Mega!RecvFuse
      <4>2. MegaSession' /\ mega'.data = mega.data
        BY <1>0, <4>1 DEF MegaSession
      <4>. QED
        BY <1>5, <3>3, <4>2 DEF Mega!RecvFuse
    <3>. QED
      BY <1>2, <1>7, <3>1, <3>2, <3>3 DEF Mega!RecvGarbage
  <2>4. /\ MegaAsks(read) /\ session'.diagnosed = session.diagnosed
        /\ session' = [lost |-> session'.lost, diagnosed |-> session'.diagnosed]
    BY <1>4, <2>1
  <2>. QED
    BY <1>0, <1>3, <1>7, <2>1, <2>4, MegaQuiet DEF MegaAsks, MegaInv
<1>. QED
  BY <1>6, <1>7

LEMMA MegaProgrammer ==
    ASSUME MegaTypes
    PROVE  LET p == Mega!Programmer IN
           /\ Asker(p) /\ p.ok /\ p.mcu = target
           /\ p.data = IF mega.data = NoData THEN NewData ELSE mega.data
BY SameBuffer DEF MegaTypes, Mega!Programmer, Asker

\* The pages that ask: from then on nothing is promised.
LEMMA MegaPages ==
    ASSUME MegaInv, Mega!cgiMegaRead \/ Mega!cgiMegaFuse \/ Mega!cgiMegaRebootMCU
    PROVE  MegaInv' /\ target'.flash = target.flash
<1>. DEFINE p == Mega!Programmer
<1>0. MegaTypes /\ MegaSession /\ Asker(p) /\ p.mcu = target
  BY MegaProgrammer DEF MegaInv, MegaTypes
<1>. HIDE DEF p
<1>2. ASSUME NEW q, Asker(q) PROVE Effect(q, q.mcu)
  BY <1>2 DEF Asker, Effect
<1>3. {"address", "flash", "spi", "leave"} \subseteq Questioned
  BY DEF Questioned
<1>4. PICK q : Asker(q) /\ q.mcu.flash = target.flash /\ Mega!Diagnosed(q)
  <2>1. CASE Mega!cgiMegaRead
    <3>1. PICK address \in ReadFrom : \E q \in Mega!LoadAddress(p, address) :
             IF q.reply_ok THEN \E r \in Mega!Ask(q, q.mcu, "flash", FALSE) : Mega!Diagnosed(r)
             ELSE Mega!Diagnosed(q)
      BY <2>1 DEF Mega!cgiMegaRead, p
    <3>2. PICK q \in Mega!LoadAddress(p, address) :
             IF q.reply_ok THEN \E r \in Mega!Ask(q, q.mcu, "flash", FALSE) : Mega!Diagnosed(r)
             ELSE Mega!Diagnosed(q)
      BY <3>1
    <3>. DEFINE e == [p.mcu EXCEPT !.address = 2 * (address \div 2)]
    <3>3. Effect(p, e) /\ e.flash = p.mcu.flash
      BY <1>0, AddressEffect
    <3>4. q \in Mega!Ask(p, e, "address", FALSE)
      BY <3>2 DEF Mega!LoadAddress
    <3>. HIDE DEF e
    <3>5. Asker(q) /\ q.mcu.flash = target.flash
      <4>1. AskedOf(p, e, "address", FALSE, q)
        BY <1>0, <1>3, <3>3, <3>4, AskIs
      <4>. QED
        BY <1>0, <3>3, <4>1 DEF AskedOf, Becomes
    <3>6. ASSUME NEW r \in Mega!Ask(q, q.mcu, "flash", FALSE)
          PROVE  Asker(r) /\ r.mcu.flash = target.flash
      <4>1. AskedOf(q, q.mcu, "flash", FALSE, r)
        BY <1>2, <1>3, <3>5, <3>6, AskIs
      <4>. QED
        BY <3>5, <4>1 DEF AskedOf, Becomes
    <3>. QED
      BY <3>2, <3>5, <3>6
  <2>2. CASE Mega!cgiMegaFuse
    <3>1. PICK q \in Mega!Ask(p, target, "spi", FALSE) : Mega!Diagnosed(q)
      BY <2>2 DEF Mega!cgiMegaFuse, p
    <3>2. Effect(p, target)
      BY <1>0, <1>2
    <3>3. AskedOf(p, target, "spi", FALSE, q)
      BY <1>0, <1>3, <3>1, <3>2, AskIs
    <3>. QED
      BY <1>0, <3>1, <3>3 DEF AskedOf, Becomes
  <2>3. CASE Mega!cgiMegaRebootMCU
    <3>. DEFINE e == [target EXCEPT !.boot = FALSE]
    <3>1. PICK q \in Mega!Ask(p, e, "leave", mega.reply_ok) : Mega!Diagnosed(q)
      BY <2>3 DEF Mega!cgiMegaRebootMCU, p
    <3>2. Effect(p, e) /\ e.flash = target.flash
      BY <1>0, BootEffect
    <3>. HIDE DEF e
    <3>3. AskedOf(p, e, "leave", mega.reply_ok, q)
      BY <1>0, <1>3, <3>1, <3>2, AskIs
    <3>. QED
      BY <1>0, <3>1, <3>2, <3>3 DEF AskedOf, Becomes
  <2>. QED
    BY <2>1, <2>2, <2>3
<1>5. /\ mega' = [mega EXCEPT !.reply_ok = q.reply_ok]
      /\ target' = q.mcu /\ sending' = sending
      /\ session' = [lost |-> TRUE, diagnosed |-> TRUE]
  BY <1>4 DEF Mega!Diagnosed
<1>6. MegaSession' /\ mega'.data = mega.data
  BY <1>0, <1>5 DEF MegaSession
<1>7. MegaTypes' /\ session'.diagnosed
  BY <1>0, <1>4, <1>5, <1>6 DEF MegaTypes, Asker
<1>. QED
  BY <1>4, <1>5, <1>6, <1>7 DEF MegaInv

\* A step of the upload that ends it.
LEMMA MegaEnds ==
    ASSUME MegaInv, MegaSession', TargetOf(target'), session' = session,
           NEW x \in {"failed", "success", "lost"}, sending' = [sending EXCEPT !.result = x],
           mega'.progState # "init" => mega'.progState = mega.progState /\ target' = target
    PROVE  MegaInv'
<1>1. sending' \in MegaUpload /\ sending'.result = x
  BY DEF MegaInv, MegaTypes, MegaUpload
<1>2. MegaTypes'
  BY <1>1 DEF MegaInv, MegaTypes
<1>. QED
  BY <1>1, <1>2 DEF MegaInv

\* What an upload builds on.
LEMMA MegaStarted ==
    ASSUME MegaInv, Ordered, NoData \notin PageBuffers, ~session.diagnosed, Mega!Uploading
    PROVE  Built(Mega!Programmer.data, Ghost(target.flash), sending.image, sending.pos)
<1>. DEFINE d == Mega!Programmer.data
            image == sending.image
<1>1. d = (IF mega.data = NoData THEN NewData ELSE mega.data) /\ image \in Images
  BY MegaProgrammer DEF MegaInv, MegaTypes, MegaUpload
<1>2. CASE sending.result = "running"
  <2>1. Built(mega.data, Ghost(target.flash), image, sending.pos) /\ mega.data \in PageBuffers
    BY <1>2 DEF MegaInv, Built, At, Buffer
  <2>. QED
    BY <1>1, <2>1
<1>3. CASE sending.result = "none"
  <2>1. d = NewData /\ sending.pos = 0
    BY <1>1, <1>3 DEF MegaInv
  <2>2. PICK b \in Uppers(image) : Suitable(image, b)
    BY <1>1 DEF Ordered
  <2>3. At(NewData, Ghost(target.flash), image, 0, b) /\ NewData.saved = {}
    BY <1>1, <2>2, FirstAt, OptibootAssumption
  <2>. QED
    BY <2>1, <2>2, <2>3 DEF Built
<1>. QED
  BY <1>2, <1>3 DEF Mega!Uploading

LEMMA MegaRecordStep ==
    ASSUME MegaInv, Ordered, PgmSz % 2 = 0, NoData \notin PageBuffers, Mega!Record
    PROVE  MegaInv' /\ (~session.diagnosed => InPlace(target.flash, target'.flash))
<1>. DEFINE image == sending.image
            k == sending.pos
            p == Mega!Programmer
<1>0. /\ MegaTypes /\ MegaSession /\ Asker(p) /\ p.ok /\ p.mcu = target
      /\ mega.progState = "prog" /\ session' = session
      /\ image \in Images /\ k \in Nat /\ k + 1 \in DOMAIN image /\ image \in Seq(HexRecord)
  BY MegaProgrammer, OptibootAssumption
     DEF MegaInv, MegaTypes, MegaUpload, Mega!Record, Mega!Uploading
<1>1. PICK q \in Mega!HEX!processRecord(p, image[k + 1]) :
         /\ target' = q.mcu
         /\ IF q.ok
            THEN /\ mega' = [mega EXCEPT !.data = q.data, !.reply_ok = q.reply_ok]
                 /\ sending' = [sending EXCEPT !.pos = @ + 1, !.result = "running"]
            ELSE /\ mega' = Mega!optibootInit(mega)
                 /\ sending' = [sending EXCEPT !.result = "failed"]
  BY DEF Mega!Record
<1>. HIDE DEF p
<1>2. Asker(q)
  BY <1>0, <1>1, MegaTyped, Records
<1>3. ASSUME ~session.diagnosed
      PROVE  \E b \in Uppers(image) :
                Suitable(image, b) /\ Comes(p, q, image, k, b) /\ p.data.saved = {}
  <2>1. Built(p.data, Ghost(target.flash), image, k) /\ target.fifo \in Seq(Others)
    <3>1. Mega!Uploading /\ "prog" # "init"
      BY DEF Mega!Record
    <3>. QED
      BY <1>0, <1>3, <3>1, MegaStarted DEF p, MegaInv
  <2>2. PICK b \in Uppers(image) : Suitable(image, b) /\ At(p.data, Ghost(target.flash), image, k, b)
    BY <2>1 DEF Built
  <2>3. MegaAt(p, image, k, b) /\ p.data.saved = {}
    BY <1>0, <2>1, <2>2 DEF MegaAt, Quiet, Built
  <2>. HIDE DEF image, k
  <2>4. Comes(p, q, image, k, b)
    <3>1. CASE image[k + 1].type = "data"
      BY <1>0, <1>1, <2>2, <2>3, <3>1, MegaData
    <3>2. CASE image[k + 1].type # "data"
      BY <1>0, <1>1, <2>2, <2>3, <3>2, MegaOther
    <3>. QED
      BY <3>1, <3>2
  <2>. QED
    BY <2>2, <2>3, <2>4
<1>4. ~session.diagnosed => InPlace(target.flash, target'.flash)
  BY <1>0, <1>1, <1>3 DEF Comes
<1>5. TargetOf(target')
  BY <1>1, <1>2 DEF Asker
<1>6. CASE ~q.ok
  <2>1. MegaSession' /\ mega'.progState = "init"
    BY <1>0, <1>1, <1>6 DEF MegaSession, Mega!optibootInit
  <2>. QED
    BY <1>0, <1>1, <1>4, <1>5, <1>6, <2>1, MegaEnds
<1>7. CASE q.ok
  <2>1. MegaSession' /\ mega'.progState = "prog" /\ mega'.data = q.data
    BY <1>0, <1>1, <1>7 DEF MegaSession
  <2>2. /\ sending' \in MegaUpload /\ sending'.image = image /\ sending'.pos = k + 1
        /\ sending'.result = "running"
    <3>1. sending' = [sending EXCEPT !.pos = @ + 1, !.result = "running"]
      BY <1>1, <1>7
    <3>2. sending \in MegaUpload /\ sending.pos + 1 \in Nat
      BY <1>0 DEF MegaTypes
    <3>. QED
      BY <3>1, <3>2 DEF MegaUpload
  <2>3. MegaTypes'
    BY <1>0, <1>5, <2>1, <2>2 DEF MegaTypes
  <2>4. ASSUME ~session'.diagnosed
        PROVE  /\ target'.fifo \in Seq(Others)
               /\ Built(q.data, Ghost(target'.flash), image, k + 1)
    BY <1>0, <1>1, <1>3, <1>7, <2>4 DEF Comes, MegaAt, Quiet, Built
  <2>. HIDE DEF image, k
  <2>5. ~session'.diagnosed =>
           Built(mega'.data, Ghost(target'.flash), sending'.image, sending'.pos)
    BY <2>1, <2>2, <2>4
  <2>6. MegaInv'
    BY <2>1, <2>2, <2>3, <2>4, <2>5 DEF MegaInv, Built, Ghost
  <2>. QED
    BY <1>4, <2>6
<1>. QED
  BY <1>6, <1>7

LEMMA MegaCompleteStep ==
    ASSUME MegaInv, Mega!Complete \/ Mega!Lost
    PROVE  MegaInv' /\ target' = target
<1>0. /\ MegaTypes /\ MegaSession /\ TargetOf(target)
  BY DEF MegaInv, MegaTypes
<1>1. CASE Mega!Complete
  <2>1. /\ mega' = Mega!optibootInit(mega) /\ target' = target /\ session' = session
        /\ \E x \in {"failed", "success", "lost"} : sending' = [sending EXCEPT !.result = x]
    BY <1>1 DEF Mega!Complete
  <2>2. MegaSession' /\ mega'.progState = "init"
    BY <1>0, <2>1 DEF MegaSession, Mega!optibootInit
  <2>. QED
    BY <1>0, <2>1, <2>2, MegaEnds
<1>2. CASE Mega!Lost
  <2>1. /\ mega' = mega /\ target' = target /\ session' = session
        /\ sending' = [sending EXCEPT !.result = "lost"]
    BY <1>2 DEF Mega!Lost
  <2>2. MegaSession'
    BY <1>0, <2>1 DEF MegaSession
  <2>. QED
    BY <1>0, <2>1, <2>2, MegaEnds
<1>. QED
  BY <1>1, <1>2

\* The images are of the kind a linker makes, and pages of whole words.
MegaLinked == Ordered /\ PgmSz % 2 = 0 /\ NoData \notin PageBuffers

LEMMA MegaStep ==
    ASSUME MegaInv, MegaLinked, [Mega!Next]_Mega!vars
    PROVE  MegaInv' /\ (~session.diagnosed => InPlace(target.flash, target'.flash))
<1>1. CASE UNCHANGED Mega!vars
  <2>1. /\ mega' = mega /\ target' = target /\ sending' = sending /\ session' = session
    BY <1>1 DEF Mega!vars
  <2>2. MegaInv'
    BY <2>1 DEF MegaInv, MegaTypes, MegaSession, Built, Ghost
  <2>. QED
    BY <2>1, <2>2, InPlaceSame
<1>2. CASE Mega!cgiMegaSync
  BY <1>2, MegaSyncStep, InPlaceSame
<1>3. CASE Mega!megaTimerCB
  BY <1>3, MegaTimerStep, InPlaceSame
<1>4. CASE Mega!megaUartRecv
  BY <1>4, MegaRecvStep, InPlaceSame
<1>5. CASE Mega!Record
  BY <1>5, MegaRecordStep DEF MegaLinked
<1>6. CASE Mega!Complete \/ Mega!Lost
  BY <1>6, MegaCompleteStep, InPlaceSame
<1>7. CASE Mega!cgiMegaRead \/ Mega!cgiMegaFuse \/ Mega!cgiMegaRebootMCU
  BY <1>7, MegaPages, InPlaceSame
<1>. QED
  BY <1>1, <1>2, <1>3, <1>4, <1>5, <1>6, <1>7 DEF Mega!Next

LEMMA MegaInvHolds ==
    ASSUME MegaLinked
    PROVE  Mega!Spec => []MegaInv
<1>1. MegaInv /\ [Mega!Next]_Mega!vars => MegaInv'
  BY MegaStep
<1>. QED
  BY <1>1, MegaInit, PTL DEF Mega!Spec

(* If pages are of whole words and the images are of the kind a linker     *)
(* makes, the programmer for the STK500v2 protocol never programs a byte   *)
(* at the address of another: for every image, page size and limit, with   *)
(* commands missed, and answers lost, late, left over or cut anywhere, as  *)
(* long as no other page has an address loaded.                            *)
THEOREM FlashInPlaceHolds ==
    ASSUME MegaLinked
    PROVE  Mega!Spec => Mega!FlashInPlace
<1>1. MegaInv /\ [Mega!Next]_Mega!vars =>
        [\A a \in 0..MaxAddress :
            target'.flash[a] # target.flash[a] /\ ~session.diagnosed => target'.flash[a] = a]_Mega!vars
  BY MegaStep DEF InPlace
<1>. QED
  BY <1>1, MegaInvHolds, PTL DEF Mega!Spec, Mega!FlashInPlace

LEMMA MegaCardinality == \A S : Mega!Cardinality(S) = Cardinality(S)
  BY DEF Mega!Cardinality, Cardinality

LEMMA MegaCompleted ==
    ASSUME MegaInv, MegaLinked, "missed" \notin Faults, [Mega!Next]_Mega!vars,
           sending.result # "success", sending'.result = "success", ~session.diagnosed
    PROVE  LET bytes == Mega!Bytes(sending.image) IN
           /\ \A a \in bytes : target'.flash[a] = a
           /\ mega.data.pgmDone = Mega!Cardinality(bytes)
<1>. DEFINE image == sending.image
            d == Mega!Programmer.data
<1>0. MegaTypes /\ sending \in MegaUpload
  BY DEF MegaInv, MegaTypes
<1>1. Mega!Complete
  <2>1. sending' # sending
    OBVIOUS
  <2>2. ~Mega!cgiMegaSync
    BY DEF Mega!cgiMegaSync
  <2>3. ~Mega!Record
    <3>1. ~\E x \in {"running", "failed"} : sending'.result = x
      OBVIOUS
    <3>2. Mega!Record => \/ sending' = [sending EXCEPT !.pos = @ + 1, !.result = "running"]
                         \/ sending' = [sending EXCEPT !.result = "failed"]
      BY DEF Mega!Record
    <3>. QED
      BY <1>0, <3>1, <3>2 DEF MegaUpload
  <2>4. ~Mega!Lost
    BY <1>0 DEF Mega!Lost, MegaUpload
  <2>. QED
    BY <2>1, <2>2, <2>3, <2>4
       DEF Mega!Next, Mega!vars, Mega!megaTimerCB, Mega!megaUartRecv, Mega!cgiMegaRead,
           Mega!cgiMegaFuse, Mega!cgiMegaRebootMCU, Mega!Diagnosed
<1>2. d.eof /\ target' = target /\ sending.pos = Len(image) /\ Mega!Uploading
  BY <1>0, <1>1 DEF Mega!Complete, MegaUpload
<1>3. image \in Seq(HexRecord)
  BY <1>0, OptibootAssumption DEF MegaUpload
<1>4. Built(d, Ghost(target.flash), image, Len(image))
  BY <1>2, MegaStarted DEF MegaLinked
<1>5. d = mega.data
  BY <1>0, <1>2, MegaProgrammer DEF NewData
<1>. HIDE DEF d
<1>6. Buffer(d, target.flash, Bytes(image)) /\ d.pageBuf = <<>>
  <2>1. Ghost(target.flash) = target.flash
    BY DEF Ghost
  <2>. QED
    BY <1>2, <1>3, <1>4, <2>1, NoBytes DEF Built, At
<1>7. Buffered(d) = {} /\ d.pgmDone + 0 = Cardinality(Bytes(image)) /\ d.pgmDone \in Nat
  BY <1>6 DEF Buffer, Buffered, End, PageBuffers
<1>8. \A a \in Bytes(image) : target.flash[a] = a
  BY <1>6, <1>7 DEF Buffer
<1>9. Mega!Bytes(image) = Bytes(image)
  BY SameBuffer
<1>. QED
  BY <1>2, <1>5, <1>7, <1>8, <1>9, MegaCardinality

(* And if the boot loader cannot miss a page, an upload that is told       *)
(* "Success" has every byte in the flash memory, and is told how many      *)
(* there are.                                                              *)
THEOREM MegaSuccessIsWholeHolds ==
    ASSUME MegaLinked, "missed" \notin Faults
    PROVE  Mega!Spec => Mega!SuccessIsWhole
<1>1. MegaInv /\ [Mega!Next]_Mega!vars =>
        [sending.result # "success" /\ sending'.result = "success" /\ ~session.diagnosed =>
            LET bytes == Mega!Bytes(sending.image) IN
            /\ \A a \in bytes : target'.flash[a] = a
            /\ mega.data.pgmDone = Mega!Cardinality(bytes)]_Mega!vars
  BY MegaCompleted
<1>. QED
  BY <1>1, MegaInvHolds, PTL DEF Mega!Spec, Mega!SuccessIsWhole

=============================================================================
