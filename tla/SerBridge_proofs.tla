-------------------------- MODULE SerBridge_proofs --------------------------
(***************************************************************************)
(* Four facts about the serial bridge, for queues, FIFOs, buffers and      *)
(* packets of every length and any number of slots and clients.            *)
(*                                                                         *)
(* The serial port is never deaf.  The interrupt posts its event and does  *)
(* not look whether there was room for it; the argument is that there      *)
(* always is: when the interrupt is enabled and has no event in the queue, *)
(* all that is in the queue are events of other tasks, of which there are  *)
(* fewer than places.                                                      *)
(*                                                                         *)
(* The SDK is never given anything for a connection that is still sending, *)
(* and what a client is owed is in its buffers.  The invariant, BridgeInv, *)
(* says of every open slot that it and its connection point to each other  *)
(* and that the three obey the two rules; what the functions that send do  *)
(* to a slot, its connection and its client is proved of the three alone,  *)
(* as the model defines them.  What a packet does to the telnet machine is *)
(* a recursive function, whose type is proved by induction over the        *)
(* packet's length, with the lemmas of SequenceLemmas.                     *)
(*                                                                         *)
(* And what clients say comes out as they mean it.  The invariant,         *)
(* Understands, says how many bytes of a client's words have been heard;   *)
(* in which item, and how far into it, the telnet machine is; and that     *)
(* what has been done is what the items before it mean, with the item's    *)
(* own meaning once the byte that completes it has come.  One byte takes   *)
(* the machine from one place of an item to the next, whatever the item    *)
(* (by kinds of item); a packet does so by induction over its bytes.       *)
(***************************************************************************)
EXTENDS SerBridge, FiniteSetTheorems, SequenceTheorems, SequenceLemmas, TLAPS

Events == {"uart", "other"}

\* What is always true of the queue, and that the port is not deaf.
QueueOK ==
    /\ queue \in Seq(Events)
    /\ Len(queue) <= QueueLen
    /\ Cardinality(Others(queue)) <= OthersMax
UartInv == QueueOK /\ NeverDeaf

-----------------------------------------------------------------------------
(* Facts about queues *)

LEMMA OthersFinite ==
    ASSUME NEW q \in Seq(Events)
    PROVE  /\ Others(q) \subseteq 1..Len(q)
           /\ IsFiniteSet(Others(q))
           /\ Cardinality(Others(q)) \in Nat
<1>1. Others(q) \subseteq 1..Len(q)
  BY DEF Others
<1>2. IsFiniteSet(1..Len(q))
  BY FS_Interval
<1>3. IsFiniteSet(Others(q))
  BY <1>1, <1>2, FS_Subset
<1> QED
  BY <1>1, <1>3, FS_CardinalityType

LEMMA HasDef ==
    ASSUME NEW q \in Seq(Events)
    PROVE  Contains(q, "uart") <=> \E i \in 1..Len(q) : q[i] = "uart"
BY DEF Contains

\* An event of the UART adds nothing to the others.
LEMMA AppendUart ==
    ASSUME NEW q \in Seq(Events)
    PROVE  /\ Append(q, "uart") \in Seq(Events)
           /\ Len(Append(q, "uart")) = Len(q) + 1
           /\ Others(Append(q, "uart")) = Others(q)
           /\ Contains(Append(q, "uart"), "uart")
<1>1. Append(q, "uart") \in Seq(Events) /\ Len(Append(q, "uart")) = Len(q) + 1
  BY DEF Events
<1>2. Others(Append(q, "uart")) = Others(q)
  BY <1>1 DEF Others
<1>3. Append(q, "uart")[Len(q) + 1] = "uart" /\ Len(q) + 1 \in 1 .. Len(q) + 1
  OBVIOUS
<1> QED
  BY <1>1, <1>2, <1>3, HasDef

\* One event of another task adds one to the others.
LEMMA AppendOther ==
    ASSUME NEW q \in Seq(Events)
    PROVE  /\ Append(q, "other") \in Seq(Events)
           /\ Len(Append(q, "other")) = Len(q) + 1
           /\ Cardinality(Others(Append(q, "other"))) = Cardinality(Others(q)) + 1
           /\ Contains(q, "uart") => Contains(Append(q, "other"), "uart")
<1>1. Append(q, "other") \in Seq(Events) /\ Len(Append(q, "other")) = Len(q) + 1
  BY DEF Events
<1>2. Others(Append(q, "other")) = Others(q) \cup {Len(q) + 1}
  BY <1>1 DEF Others
<1>3. Len(q) + 1 \notin Others(q)
  BY OthersFinite
<1>4. Cardinality(Others(q) \cup {Len(q) + 1}) = Cardinality(Others(q)) + 1
  BY <1>3, OthersFinite, FS_AddElement
<1>5. Contains(q, "uart") => Contains(Append(q, "other"), "uart")
  <2> SUFFICES ASSUME NEW i \in 1..Len(q), q[i] = "uart"
               PROVE  \E j \in 1..Len(Append(q, "other")) : Append(q, "other")[j] = "uart"
    BY <1>1, HasDef
  <2>1. i \in 1..Len(Append(q, "other")) /\ Append(q, "other")[i] = "uart"
    BY <1>1
  <2> QED BY <2>1
<1> QED
  BY <1>1, <1>2, <1>4, <1>5

\* Taking the first event adds nothing to the others.
LEMMA TailOthers ==
    ASSUME NEW q \in Seq(Events), q # <<>>
    PROVE  /\ Tail(q) \in Seq(Events)
           /\ Len(Tail(q)) = Len(q) - 1
           /\ Cardinality(Others(Tail(q))) <= Cardinality(Others(q))
           /\ Contains(q, "uart") => Head(q) = "uart" \/ Contains(Tail(q), "uart")
<1> DEFINE f == [i \in Others(Tail(q)) |-> i + 1]
<1>1. Tail(q) \in Seq(Events) /\ Len(Tail(q)) = Len(q) - 1
  OBVIOUS
<1>2. \A i \in 1..Len(Tail(q)) : Tail(q)[i] = q[i + 1]
  OBVIOUS
<1>3. \A i \in Others(Tail(q)) : i \in Int /\ i + 1 \in Others(q)
  BY <1>1, <1>2 DEF Others
<1>4. f \in Injection(Others(Tail(q)), Others(q))
  BY <1>3 DEF Injection, IsInjective
<1>5. Cardinality(Others(Tail(q))) <= Cardinality(Others(q))
  <2> HIDE DEF f
  <2> QED BY <1>4, OthersFinite, FS_Injection
<1>6. Contains(q, "uart") => Head(q) = "uart" \/ Contains(Tail(q), "uart")
  <2> SUFFICES ASSUME NEW i \in 1..Len(q), q[i] = "uart", Head(q) # "uart"
               PROVE  \E j \in 1..Len(Tail(q)) : Tail(q)[j] = "uart"
    BY <1>1, HasDef
  <2>1. i # 1
    OBVIOUS
  <2>2. i - 1 \in 1..Len(Tail(q)) /\ Tail(q)[i - 1] = "uart"
    BY <2>1, <1>1, <1>2
  <2> QED BY <2>2
<1> QED
  BY <1>1, <1>5, <1>6

\* A full queue that leaves the other tasks too few places holds an event of
\* the UART.
LEMMA FullQueue ==
    ASSUME NEW q \in Seq(Events), Len(q) >= QueueLen, Cardinality(Others(q)) <= OthersMax
    PROVE  Contains(q, "uart")
<1> SUFFICES ASSUME ~Contains(q, "uart") PROVE FALSE
  OBVIOUS
<1>1. \A i \in 1..Len(q) : q[i] = "other"
  BY HasDef DEF Events
<1>2. Others(q) = 1..Len(q)
  BY <1>1 DEF Others
<1>3. Cardinality(Others(q)) = Len(q)
  BY <1>2, FS_Interval
<1> QED
  BY <1>3, UartAssumption

-----------------------------------------------------------------------------
(* The steps of the UART *)

LEMMA PostUart ==
    ASSUME QueueOK, post_usr_task("uart")
    PROVE  QueueOK' /\ Contains(queue', "uart")
<1> USE DEF QueueOK, post_usr_task
<1>1. CASE Len(queue) < QueueLen
  <2>1. queue' = Append(queue, "uart")
    BY <1>1
  <2> QED BY <1>1, <2>1, AppendUart, UartAssumption
<1>2. CASE ~(Len(queue) < QueueLen)
  <2>1. queue' = queue
    BY <1>2
  <2> QED BY <1>2, <2>1, FullQueue, UartAssumption
<1> QED BY <1>1, <1>2

LEMMA PostOther ==
    ASSUME QueueOK, Cardinality(Others(queue)) < OthersMax, post_usr_task("other")
    PROVE  QueueOK' /\ (Contains(queue, "uart") => Contains(queue', "uart"))
<1> USE DEF QueueOK, post_usr_task
<1>1. CASE Len(queue) < QueueLen
  <2>1. queue' = Append(queue, "other")
    BY <1>1
  <2> QED BY <1>1, <2>1, AppendOther, OthersFinite, UartAssumption
<1>2. CASE ~(Len(queue) < QueueLen)
  BY <1>2
<1> QED BY <1>1, <1>2

LEMMA InitUart == Init => UartInv
<1> SUFFICES ASSUME Init PROVE UartInv
  OBVIOUS
<1>1. queue = <<>> /\ intr
  BY DEF Init, UartInit
<1>2. <<>> \in Seq(Events) /\ Len(<<>>) = 0
  OBVIOUS
<1>3. Others(<<>>) = {}
  BY DEF Others
<1> QED
  BY <1>1, <1>2, <1>3, FS_EmptySet, UartAssumption DEF UartInv, QueueOK, NeverDeaf

\* Nothing but the UART and the user tasks touches the queue.
LEMMA StepUart == UartInv /\ [Next]_vars => UartInv'
<1> SUFFICES ASSUME UartInv, [Next]_vars PROVE UartInv'
  OBVIOUS
<1>q. QueueOK /\ NeverDeaf
  BY DEF UartInv
<1> DEFINE Kept == intr' = intr /\ queue' = queue /\ running' = running
<1>k. ASSUME Kept PROVE UartInv'
  BY <1>q, <1>k DEF UartInv, QueueOK, NeverDeaf
<1>1. CASE Arrive
  BY <1>1, <1>k DEF Arrive, Arrives
<1>2. CASE uart_recvTask
  BY <1>2, <1>k DEF uart_recvTask, RecvTaskReads
<1>3. CASE Interrupt
  <2>1. post_usr_task("uart")
    BY <1>3 DEF Interrupt, uart0_rx_intr_handler
  <2>2. QueueOK' /\ Contains(queue', "uart")
    BY <1>q, <2>1, PostUart
  <2> QED BY <2>2 DEF UartInv, NeverDeaf
<1>4. CASE TaskBegins
  <2>1. /\ running = "none" /\ queue # <<>>
        /\ running' = Head(queue) /\ queue' = Tail(queue) /\ intr' = intr
    BY <1>4 DEF TaskBegins, usr_event_handler
  <2>2. QueueOK'
    <3>1. queue \in Seq(Events) /\ Len(queue) <= QueueLen /\ Cardinality(Others(queue)) <= OthersMax
      BY <1>q DEF QueueOK
    <3>2. /\ Tail(queue) \in Seq(Events)
          /\ Len(Tail(queue)) = Len(queue) - 1
          /\ Cardinality(Others(Tail(queue))) <= Cardinality(Others(queue))
      BY <2>1, <3>1, TailOthers
    <3>3. Cardinality(Others(queue)) \in Nat /\ Cardinality(Others(Tail(queue))) \in Nat
      BY <3>1, <3>2, OthersFinite
    <3>4. Len(queue) \in Nat
      BY <3>1
    <3>5. Len(Tail(queue)) <= QueueLen /\ Cardinality(Others(Tail(queue))) <= OthersMax
      BY <3>1, <3>2, <3>3, <3>4, UartAssumption
    <3> QED BY <2>1, <3>2, <3>5 DEF QueueOK
  <2>3. NeverDeaf'
    BY <1>q, <2>1, TailOthers DEF NeverDeaf, QueueOK
  <2> QED BY <2>2, <2>3 DEF UartInv
<1>5. CASE TaskEnds
  <2>1. CASE RecvTaskEnds
    BY <1>q, <2>1 DEF RecvTaskEnds, UartInv, QueueOK, NeverDeaf
  <2>2. CASE OtherTask
    BY <1>q, <2>2 DEF OtherTask, UartInv, QueueOK, NeverDeaf
  <2> QED BY <1>5, <2>1, <2>2 DEF TaskEnds
<1>6. CASE Disturbs
  <2>1. CASE OtherPosts
    <3>1. QueueOK' /\ (Contains(queue, "uart") => Contains(queue', "uart"))
      BY <1>q, <2>1, PostOther DEF OtherPosts
    <3> QED BY <1>q, <2>1, <3>1 DEF OtherPosts, UartInv, NeverDeaf
  <2>2. CASE uart0_rx_poll
    BY <1>q, <2>2 DEF uart0_rx_poll, UartInv, QueueOK, NeverDeaf
  <2> QED BY <1>6, <2>1, <2>2 DEF Disturbs
<1>7. CASE TenSeconds \/ Programmer
  BY <1>7, <1>k DEF TenSeconds, Programmer, uartVars
<1>8. ASSUME NEW c \in Conns,
             serbridgeRecvCb(c) \/ serbridgeSentCb(c) \/ serbridgeConnectCb(c) \/ serbridgeDisconCb(c)
      PROVE  UartInv'
  <2>1. CASE serbridgeRecvCb(c)
    BY <2>1, <1>k DEF serbridgeRecvCb, uartVars
  <2>2. CASE serbridgeSentCb(c)
    BY <2>2, <1>k DEF serbridgeSentCb, uartVars
  <2>3. CASE serbridgeConnectCb(c)
    BY <2>3, <1>k DEF serbridgeConnectCb, uartVars
  <2>4. CASE serbridgeDisconCb(c)
    BY <2>4, <1>k DEF serbridgeDisconCb, uartVars
  <2> QED BY <1>8, <2>1, <2>2, <2>3, <2>4
<1>9. CASE UNCHANGED vars
  BY <1>9, <1>k DEF vars
<1> QED
  BY <1>1, <1>2, <1>3, <1>4, <1>5, <1>6, <1>7, <1>8, <1>9 DEF Next

(* While the receive interrupt is off, the task that turns it on again is  *)
(* under way or queued (uart0_rx_intr_handler, uart_recvTask and           *)
(* post_usr_task), as long as the other tasks leave one place of the       *)
(* queue: the event that post_usr_task cannot place is never the only one. *)
THEOREM NeverDeafHolds == Spec => []NeverDeaf
<1>1. UartInv => NeverDeaf
  BY DEF UartInv
<1> QED
  BY <1>1, InitUart, StepUart, PTL DEF Spec

-----------------------------------------------------------------------------
(* The telnet machine *)

TelnetStates ==
    {"normal", "iac", "will", "start", "end", "comPort", "setControl", "setBaud"} \cup Settings
Deeds == Bytes \cup {"RESET"}
Machine ==
    [state : TelnetStates, baud : Seq(Bytes), flashing : Nat,
     pins : [reset : 0..1, isp : 0..1], out : Seq(Seq(Deeds)), responses : Seq(Bytes)]

LEMMA Tuples ==
    ASSUME NEW S, NEW a \in S, NEW b \in S, NEW c \in S, NEW d \in S, NEW e \in S,
           NEW f \in S, NEW g \in S
    PROVE  /\ <<a>> \in Seq(S) /\ <<a, b>> \in Seq(S) /\ <<a, b, c>> \in Seq(S)
           /\ <<a, b, c, d>> \in Seq(S) /\ <<a, b, c, d, e>> \in Seq(S)
           /\ <<a, b, c, d, e, f, g>> \in Seq(S)
OBVIOUS

LEMMA MacroBytes == \A b \in Macros : b \in Bytes
BY TelnetAssumption

\* What the machine and its clients say.
LEMMA Words ==
    ASSUME NEW c \in Bytes, NEW d \in Bytes
    PROVE  /\ <<c>> \in Seq(Bytes) /\ <<"IAC", c>> \in Seq(Bytes)
           /\ <<"IAC", "IAC">> \in Seq(Bytes) /\ <<"IAC", "SE">> \in Seq(Bytes)
           /\ <<"IAC", d, c>> \in Seq(Bytes)
           /\ <<"IAC", "SB">> \in Seq(Bytes)
           /\ <<"IAC", "WILL", c>> \in Seq(Bytes)
           /\ <<"IAC", "DO", c>> \in Seq(Bytes) /\ <<"IAC", "DONT", c>> \in Seq(Bytes)
           /\ <<"IAC", "SB", "ComPort", "SetDataSize">> \in Seq(Bytes)
           /\ <<"IAC", "SB", "ComPort", "SetDataSize", "value", "IAC", "SE">> \in Seq(Bytes)
           /\ <<"IAC", "SB", "ComPort", c, "value", "IAC", "SE">> \in Seq(Bytes)
           /\ <<"ComPort", "SetControl", c>> \in Seq(Bytes)
           /\ <<"ComPort", "SetBaud">> \in Seq(Bytes)
           /\ <<c, "hi", "mid", "lo">> \in Seq(Bytes)
           /\ <<"ComPort", c, "zero">> \in Seq(Bytes)
           /\ <<c, "x">> \in Seq(Bytes)
<1>1. /\ "IAC" \in Bytes /\ "SB" \in Bytes /\ "SE" \in Bytes /\ "WILL" \in Bytes
      /\ "DO" \in Bytes /\ "DONT" \in Bytes /\ "ComPort" \in Bytes
      /\ "SetControl" \in Bytes /\ "SetBaud" \in Bytes /\ "SetDataSize" \in Bytes
      /\ "value" \in Bytes /\ "zero" \in Bytes /\ "hi" \in Bytes /\ "mid" \in Bytes
      /\ "lo" \in Bytes /\ "x" \in Bytes
  BY MacroBytes DEF Macros
<1>. QED
  BY <1>1, Tuples

LEMMA DoesType ==
    ASSUME NEW m \in Machine, NEW t \in TelnetStates, NEW w \in Seq(Bytes)
    PROVE  /\ [m EXCEPT !.state = t] \in Machine
           /\ Does(m, w) \in Machine /\ Answers(m, w) \in Machine
           /\ [m EXCEPT !.state = t, !.baud = w] \in Machine
           /\ [m EXCEPT !.baud = w] \in Machine
<1>1. m.out \in Seq(Seq(Deeds)) /\ m.responses \in Seq(Bytes)
  BY DEF Machine
<1>2. w \in Seq(Deeds)
  BY DEF Deeds
<1>3. Append(m.out, w) \in Seq(Seq(Deeds)) /\ m.responses \o w \in Seq(Bytes)
  BY <1>1, <1>2
<1>. QED
  BY <1>3 DEF Machine, Does, Answers

LEMMA StatesType ==
    /\ \A t \in {"normal", "iac", "will", "start", "end", "comPort", "setControl", "setBaud"} :
          t \in TelnetStates
    /\ \A t \in Settings : t \in TelnetStates
BY DEF TelnetStates

LEMMA ControlType ==
    ASSUME NEW m \in Machine, NEW c \in Bytes
    PROVE  SetControl(m, c) \in Machine
<1>. DEFINE n == CASE c = "RTS_ON"  -> (m.flashing + 1) % (FlashingMax + 1)
                   [] c = "RTS_OFF" -> IF m.flashing > 0 THEN m.flashing - 1 ELSE 0
                   [] OTHER         -> m.flashing
            p == CASE c = "DTR_ON"  -> [m.pins EXCEPT !.reset = 0]
                   [] c = "DTR_OFF" -> [m.pins EXCEPT !.reset = 1]
                   [] c = "RTS_ON"  -> [m.pins EXCEPT !.isp = 0]
                   [] c = "RTS_OFF" -> [m.pins EXCEPT !.isp = 1]
                   [] OTHER         -> m.pins
            q == [m EXCEPT !.state = "end", !.flashing = n, !.pins = p]
<1>1. n \in Nat
  <2>1. m.flashing \in Nat
    BY DEF Machine
  <2>2. (m.flashing + 1) % (FlashingMax + 1) \in Nat
    BY <2>1, TelnetAssumption
  <2>. QED BY <2>1, <2>2
<1>2. p \in [reset : 0..1, isp : 0..1]
  BY DEF Machine
<1>3. "end" \in TelnetStates
  BY StatesType
<1>4. SetControl(m, c) = CASE c \in Commands -> Does(q, <<c>>)
          [] c = "BRK_REQ"  -> Answers(q, <<"IAC", "SB", "ComPort", c, "value", "IAC", "SE">>)
          [] OTHER          -> q
  BY DEF SetControl
<1>. HIDE DEF n, p
<1>5. q \in Machine
  BY <1>1, <1>2, <1>3 DEF Machine
<1>. HIDE DEF q
<1>6. <<c>> \in Seq(Bytes) /\ <<"IAC", "SB", "ComPort", c, "value", "IAC", "SE">> \in Seq(Bytes)
  BY Words
<1>. QED
  BY <1>3, <1>4, <1>5, <1>6, DoesType

LEMMA BaudType ==
    ASSUME NEW m \in Machine, NEW c \in Bytes
    PROVE  SetBaud(m, c) \in Machine
<1>. DEFINE rate == Append(m.baud, c)
            q    == [m EXCEPT !.baud = rate]
            done == [q EXCEPT !.state = "end"]
            a    == <<"IAC", "SB", "ComPort", "SetDataSize">> \o rate \o <<"IAC", "SE">>
<1>1. rate \in Seq(Bytes)
  BY DEF Machine
<1>2. a \in Seq(Bytes)
  <2>. HIDE DEF rate
  <2>1. <<"IAC", "SB", "ComPort", "SetDataSize">> \in Seq(Bytes) /\ <<"IAC", "SE">> \in Seq(Bytes)
    BY Words
  <2>. QED BY <1>1, <2>1
<1>3. SetBaud(m, c) \in {q, done, Answers(done, a), Does(done, rate)}
  BY DEF SetBaud
<1>4. "end" \in TelnetStates
  BY StatesType
<1>. HIDE DEF rate, a
<1>5. q \in Machine
  BY <1>1, <1>4, DoesType
<1>. HIDE DEF q
<1>6. done \in Machine
  BY <1>4, <1>5, <1>1, DoesType
<1>. HIDE DEF done
<1>. QED
  BY <1>1, <1>2, <1>3, <1>4, <1>5, <1>6, DoesType

LEMMA CharType ==
    ASSUME NEW m \in Machine, NEW c \in Bytes
    PROVE  telnetChar(m, c) \in Machine
<1>1. m.state \in TelnetStates
  BY DEF Machine
<1>0. <<c>> \in Seq(Bytes) /\ <<"IAC", c>> \in Seq(Bytes) /\ <<>> \in Seq(Bytes)
      /\ <<"IAC", "SB", "ComPort", "SetDataSize", "value", "IAC", "SE">> \in Seq(Bytes)
      /\ \A d \in Bytes : <<"IAC", d, c>> \in Seq(Bytes)
      /\ <<"IAC", "DO", c>> \in Seq(Bytes) /\ <<"IAC", "DONT", c>> \in Seq(Bytes)
  BY Words
<1>2. Normal(m, c) \in Machine
  BY <1>0, DoesType, StatesType DEF Normal
<1>3. AfterIac(m, c) \in Machine
  <2>1. [m EXCEPT !.state = "normal"] \in Machine
    BY <1>0, DoesType, StatesType
  <2>. QED BY <1>0, <1>1, <2>1, DoesType, StatesType DEF AfterIac
<1>4. AfterWill(m, c) \in Machine
  <2>1. [m EXCEPT !.state = "normal"] \in Machine /\ "normal" \in TelnetStates
    BY <1>0, DoesType, StatesType
  <2>2. <<"IAC", IF c = "ComPort" THEN "DO" ELSE "DONT", c>> \in Seq(Bytes)
    BY <1>0
  <2>. QED BY <2>1, <2>2, DoesType DEF AfterWill
<1>5. ComPort(m, c) \in Machine
  BY <1>0, DoesType, StatesType DEF ComPort
<1>6. Setting(m, c) \in Machine
  <2>1. [m EXCEPT !.state = "end"] \in Machine /\ "end" \in TelnetStates
    BY <1>0, DoesType, StatesType
  <2>. QED BY <1>0, <2>1, DoesType DEF Setting
<1>7. /\ [m EXCEPT !.state = IF c = "ComPort" THEN "comPort" ELSE "end"] \in Machine
      /\ [m EXCEPT !.state = "iac"] \in Machine
  BY <1>0, DoesType, StatesType
<1>8. SetControl(m, c) \in Machine /\ SetBaud(m, c) \in Machine
  BY ControlType, BaudType
<1>. QED
  BY <1>1, <1>2, <1>3, <1>4, <1>5, <1>6, <1>7, <1>8 DEF telnetChar, TelnetStates, Settings

\* A packet leaves a machine a machine.
LEMMA UnwrapType ==
    ASSUME NEW m \in Machine, NEW data \in Seq(Bytes)
    PROVE  telnetUnwrap(m, data) \in Machine
<1>. DEFINE Is(g, k) ==
              g = [n \in 0..k |-> IF n = 0 THEN m ELSE telnetChar(g[n - 1], data[n])]
            T == {k \in Nat : \E g : Is(g, k)}
            after == CHOOSE g : Is(g, Len(data))
            U == {k \in Nat : k <= Len(data) => after[k] \in Machine}
<1>1. 0 \in T
  <2>1. Is([n \in 0..0 |-> m], 0)
    OBVIOUS
  <2>. QED BY <2>1
<1>2. \A k \in T : k + 1 \in T
  <2>. SUFFICES ASSUME NEW k \in T PROVE k + 1 \in T
    OBVIOUS
  <2>. PICK g : Is(g, k)
    OBVIOUS
  <2>. DEFINE h == [n \in 0..k + 1 |-> IF n = 0 THEN m ELSE telnetChar(g[n - 1], data[n])]
  <2>1. \A n \in 0..k : h[n] = g[n]
    OBVIOUS
  <2>2. \A n \in 0..k + 1 : n # 0 => n - 1 \in 0..k
    OBVIOUS
  <2>3. Is(h, k + 1)
    BY <2>1, <2>2
  <2>4. k + 1 \in Nat
    OBVIOUS
  <2>5. \E f : Is(f, k + 1)
    <3>. HIDE DEF h
    <3>. QED BY <2>3
  <2>. QED BY <2>4, <2>5
<1>3. T = Nat
  <2>1. T \subseteq Nat
    OBVIOUS
  <2>. HIDE DEF T
  <2>. QED BY <1>1, <1>2, <2>1, Induction
<1>4. Is(after, Len(data))
  <2>1. Len(data) \in T
    BY <1>3
  <2>2. \E g : Is(g, Len(data))
    BY <2>1
  <2>. QED BY <2>2
<1>5. telnetUnwrap(m, data) = after[Len(data)]
  BY DEF telnetUnwrap
<1>. HIDE DEF after
<1>6. 0 \in U
  BY <1>4
<1>7. \A k \in U : k + 1 \in U
  <2>. SUFFICES ASSUME NEW k \in Nat, k + 1 <= Len(data), after[k] \in Machine
                PROVE  after[k + 1] \in Machine
    OBVIOUS
  <2>1. after[k + 1] = telnetChar(after[k], data[k + 1])
    BY <1>4
  <2>2. data[k + 1] \in Bytes
    OBVIOUS
  <2>. QED BY <2>1, <2>2, CharType
<1>8. U = Nat
  <2>1. U \subseteq Nat
    OBVIOUS
  <2>. HIDE DEF U
  <2>. QED BY <1>6, <1>7, <2>1, Induction
<1>9. Len(data) \in U
  BY <1>8
<1>. QED
  BY <1>5, <1>9

-----------------------------------------------------------------------------
(* What a client says *)

LEMMA SentType ==
    ASSUME NEW item \in Items
    PROVE  Sent(item) \in Seq(Bytes)
<1>1. item.kind \in {"char", "will", "control", "baud", "setting", "option"} /\ item.arg \in Bytes
  BY DEF Items
<1>. DEFINE a == item.arg
<1>2. \A w \in Seq(Bytes) : Sub(w) \in Seq(Bytes)
  BY <1>1, Words DEF Sub
<1>3. <<"ComPort", "SetBaud">> \o Rate(a) \in Seq(Bytes)
  BY <1>1, Words DEF Rate
<1>4. Sent(item) \in {<<"IAC", "IAC">>, <<a>>, <<"IAC", "WILL", a>>,
                      Sub(<<"ComPort", "SetControl", a>>), Sub(<<"ComPort", "SetBaud">> \o Rate(a)),
                      Sub(<<"ComPort", a, "zero">>), Sub(<<a, "x">>)}
  BY <1>1 DEF Sent
<1>5. a \in Bytes
  BY <1>1
<1>. HIDE DEF a
<1>. QED
  BY <1>2, <1>3, <1>4, <1>5, Words

\* What a client has to say is a sequence of bytes.
LEMMA SaysType ==
    ASSUME load \in Loads, NEW c \in Conns
    PROVE  Says(c) \in Seq(Bytes)
<1>. DEFINE w == load.says[c]
            v == [i \in DOMAIN w |-> Sent(w[i])]
<1>1. w \in Seq(Items)
  BY SerBridgeAssumption
<1>2. v \in Seq(Seq(Bytes))
  <2>. HIDE DEF w
  <2>1. DOMAIN w = 1..Len(w) /\ Len(w) \in Nat
    BY <1>1
  <2>2. \A i \in 1..Len(w) : Sent(w[i]) \in Seq(Bytes)
    BY <1>1, SentType
  <2>. QED BY <2>1, <2>2
<1>3. Says(c) = FlattenSeq(v)
  BY DEF Says
<1>. HIDE DEF v
<1>. QED
  BY <1>2, <1>3, FlattenType

-----------------------------------------------------------------------------
(* Sending.  Sends is the SDK's rule for one connection; Owes says that the *)
(* client is owed what is being sent, what is in the buffer, and then rest. *)

Chars == Bytes \cup Nat
Modes == {"init", "pgmInit", "telnet", "transparent", "pgm"}
Slots ==
    [conn : Conns \cup {NoConn}, mode : Modes,
     telnet : TelnetStates, tx : Seq(Chars), sent : Seq(Chars),
     overflow : {"no", "since", "stuck"}, ready : BOOLEAN]
Sides == [state : {"idle", "open", "closing"}, reverse : 0..MAX_CONN, sending : Seq(Chars)]
Clients ==
    [unread : Seq(Bytes), done : Seq(Seq(Deeds)), owed : Seq(Chars), lossy : BOOLEAN]
Bundles == [s : Slots, k : Sides, h : Clients]

Sends(b) ==
    /\ b.k.sending = b.s.sent
    /\ b.s.ready = TRUE => b.s.tx = <<>> /\ b.s.sent = <<>>
Owes(b, rest) == b.h.lossy = FALSE => b.h.owed = (b.s.sent \o b.s.tx) \o rest

Good(b) == b \in Bundles /\ Sends(b) /\ Owes(b, <<>>)
Same(a, b) ==
    /\ a.s.conn = b.s.conn /\ a.k.reverse = b.k.reverse
    /\ a.k.state \in {b.k.state, "closing"}

\* Who is told that something is lost is owed nothing any more.
LEMMA LostKeeps ==
    ASSUME NEW b \in Bundles, Sends(b)
    PROVE  Good(Lost(b)) /\ Same(Lost(b), b)
<1>. DEFINE l == Lost(b)
<1>1. l.s = b.s /\ l.k = b.k /\ l.h = [b.h EXCEPT !.owed = <<>>, !.lossy = TRUE]
  BY DEF Lost, Bundles
<1>2. b.s \in Slots /\ b.k \in Sides /\ b.h \in Clients /\ <<>> \in Seq(Chars)
  BY DEF Bundles
<1>3. l.s \in Slots /\ l.k \in Sides /\ l.h \in Clients /\ l.h.lossy = TRUE
  <2>. HIDE DEF l
  <2>. QED BY <1>1, <1>2 DEF Clients
<1>4. l \in Bundles
  BY <1>3 DEF Lost, Bundles
<1>. HIDE DEF l
<1>5. Good(l) /\ Same(l, b)
  BY <1>1, <1>3, <1>4 DEF Good, Sends, Owes, Same
<1>. QED
  BY <1>5 DEF l

LEMMA OverflowKeeps ==
    ASSUME NEW b \in Bundles, Sends(b)
    PROVE  Good(Overflow(b)) /\ Same(Overflow(b), b)
<1>. DEFINE x == [b EXCEPT !.s.overflow = "since"]
            y == [b EXCEPT !.k.state = "closing"]
<1>1. Overflow(b) \in {Lost(x), Lost(b), Lost(y)}
  BY DEF Overflow, Bundles, Slots
<1>2. x \in Bundles /\ Sends(x) /\ Same(x, b)
  BY DEF Bundles, Slots, Sends, Same
<1>3. y \in Bundles /\ Sends(y) /\ Same(y, b)
  BY DEF Bundles, Sides, Sends, Same
<1>. HIDE DEF x, y
<1>. QED
  BY <1>1, <1>2, <1>3, LostKeeps DEF Same

\* sendtxbuffer, for a connection that has nothing left to be sent.
LEMMA SendKeeps ==
    ASSUME NEW b \in Bundles, b.s.sent = <<>>, b.k.sending = <<>>, NEW ok \in BOOLEAN,
           NEW rest \in Seq(Chars), Owes(b, rest)
    PROVE  LET g == sendtxbuffer(b, ok)
           IN  /\ g \in Bundles /\ Sends(g) /\ Owes(g, rest) /\ Same(g, b)
               /\ g.s.tx = <<>>
               /\ b.s.tx # <<>> => g.s.ready = FALSE
<1>. DEFINE g == sendtxbuffer(b, ok)
<1>1. CASE b.s.tx = <<>>
  <2>1. g = b
    BY <1>1 DEF sendtxbuffer
  <2>. QED BY <1>1, <2>1 DEF Sends, Same
<1>2. CASE b.s.tx # <<>> /\ ok
  <2>. DEFINE x == [b EXCEPT !.s.ready = FALSE, !.s.sent = b.s.tx, !.s.tx = <<>>, !.k.sending = b.s.tx]
  <2>1. g = x
    BY <1>2 DEF sendtxbuffer
  <2>2. x.s = [b.s EXCEPT !.ready = FALSE, !.sent = b.s.tx, !.tx = <<>>]
        /\ x.k = [b.k EXCEPT !.sending = b.s.tx] /\ x.h = b.h
    BY DEF Bundles
  <2>3. b.s.tx \in Seq(Chars) /\ b.s \in Slots /\ b.k \in Sides /\ b.h \in Clients
    BY DEF Bundles, Slots
  <2>4. x.s \in Slots /\ x.k \in Sides
    <3>. HIDE DEF x
    <3>. QED BY <2>2, <2>3 DEF Slots, Sides
  <2>5. x \in Bundles
    BY <2>2, <2>3, <2>4 DEF Bundles
  <2>. HIDE DEF x
  <2>6. /\ x.s.ready = FALSE /\ x.s.sent = b.s.tx /\ x.s.tx = <<>> /\ x.s.conn = b.s.conn
        /\ x.k.sending = b.s.tx /\ x.k.reverse = b.k.reverse /\ x.k.state = b.k.state
    BY <2>2, <2>3 DEF Slots, Sides
  <2>7. b.s.sent \o b.s.tx = b.s.tx /\ x.s.sent \o x.s.tx = b.s.tx
    BY <2>3, <2>6
  <2>8. Owes(x, rest)
    BY <2>2, <2>7 DEF Owes
  <2>. QED BY <1>2, <2>1, <2>5, <2>6, <2>8 DEF Sends, Same
<1>3. CASE b.s.tx # <<>> /\ ~ok
  <2>. DEFINE x == [b EXCEPT !.s.ready = FALSE, !.s.tx = <<>>,
                             !.s.overflow = IF @ = "no" THEN "since" ELSE @]
  <2>1. g = Lost(x)
    BY <1>3 DEF sendtxbuffer
  <2>2. x \in Bundles /\ Sends(x) /\ Same(x, b) /\ x.s.tx = <<>> /\ x.s.ready = FALSE
    BY DEF Bundles, Slots, Sends, Same
  <2>. HIDE DEF x
  <2>3. g.s = x.s /\ g.h.lossy = TRUE
    BY <2>1, <2>2 DEF Lost, Bundles, Clients
  <2>4. g \in Bundles /\ Sends(g) /\ Same(g, x)
    BY <2>1, <2>2, LostKeeps DEF Good
  <2>5. Same(g, b)
    BY <2>2, <2>4 DEF Same
  <2>. QED BY <1>3, <2>2, <2>3, <2>4, <2>5 DEF Owes
<1>. QED
  BY <1>1, <1>2, <1>3

\* What fits and what does not are all there is.
LEMMA FitsAndRest ==
    ASSUME NEW b \in Bundles, Len(b.s.tx) < MAX_TXBUFFER, NEW data \in Seq(Chars)
    PROVE  /\ Fits(b, data) \in Seq(Chars) /\ Rest(b, data) \in Seq(Chars)
           /\ Fits(b, data) \o Rest(b, data) = data
           /\ Rest(b, data) # <<>> => Fits(b, data) # <<>>
<1>. DEFINE r == Room(b)
            n == IF Len(data) < r THEN Len(data) ELSE r
            f == SubSeq(data, 1, n)
            q == SubSeq(data, r + 1, Len(data))
<1>1. r \in Nat \ {0}
  BY SerBridgeAssumption DEF Room, Bundles, Slots
<1>2. Fits(b, data) = f /\ Rest(b, data) = q
  BY DEF Fits, Rest
<1>. HIDE DEF r
<1>3. n \in Nat /\ n <= Len(data) /\ n <= r /\ (Len(data) < r => n = Len(data)) /\ (~(Len(data) < r) => n = r)
  BY <1>1
<1>. HIDE DEF n
<1>4. /\ f \in Seq(Chars) /\ Len(f) = n /\ \A i \in 1..n : f[i] = data[i]
  BY <1>1, <1>3
<1>5. CASE Len(data) <= r
  <2>1. q = <<>> /\ n = Len(data)
    BY <1>1, <1>3, <1>5
  <2>2. f = data
    <3>. HIDE DEF f
    <3>1. Len(f) = Len(data) /\ \A i \in 1..Len(f) : f[i] = data[i]
      BY <1>4, <2>1
    <3>. QED BY <1>4, <3>1, SeqEqual
  <2>3. data \o <<>> = data
    OBVIOUS
  <2>. HIDE DEF f, q
  <2>4. q \in Seq(Chars)
    BY <2>1, EmptySeq
  <2>. QED BY <1>2, <2>1, <2>2, <2>3, <2>4
<1>6. CASE ~(Len(data) <= r)
  <2>1. q \in Seq(Chars) /\ Len(q) = Len(data) - r /\ \A i \in 1..Len(data) - r : q[i] = data[r + i]
    BY <1>1, <1>6
  <2>2. n = r
    BY <1>1, <1>3, <1>6
  <2>. HIDE DEF f, q
  <2>3. f \o q \in Seq(Chars) /\ Len(f \o q) = Len(data)
    <3>1. f \o q \in Seq(Chars) /\ Len(f \o q) = Len(f) + Len(q)
      BY <1>4, <2>1, ConcatProperties
    <3>. QED BY <1>1, <1>4, <2>1, <2>2, <3>1
  <2>4. \A i \in 1..Len(data) : (f \o q)[i] = data[i]
    <3>. SUFFICES ASSUME NEW i \in 1..Len(data) PROVE (f \o q)[i] = data[i]
      OBVIOUS
    <3>1. CASE i <= r
      BY <1>1, <1>4, <2>1, <2>2, <3>1
    <3>2. CASE ~(i <= r)
      <4>1. i - r \in 1..Len(data) - r /\ r + (i - r) = i
        BY <1>1, <3>2
      <4>2. (f \o q)[i] = q[i - r]
        BY <1>1, <1>4, <2>1, <2>2, <3>2
      <4>. QED BY <2>1, <4>1, <4>2
    <3>. QED BY <3>1, <3>2
  <2>5. f \o q = data
    <3>. DEFINE z == f \o q
    <3>1. z \in Seq(Chars) /\ Len(z) = Len(data) /\ \A i \in 1..Len(z) : z[i] = data[i]
      BY <2>3, <2>4
    <3>. HIDE DEF z
    <3>2. z = data
      BY <3>1, SeqEqual
    <3>. QED BY <3>2 DEF z
  <2>6. f # <<>>
    BY <1>1, <1>4, <2>2
  <2>. QED BY <1>2, <1>4, <2>1, <2>5, <2>6
<1>. QED
  BY <1>1, <1>5, <1>6

\* Owing data after the buffer is owing it in the buffer, as far as it fits.
LEMMA FillKeeps ==
    ASSUME NEW b \in Bundles, NEW u \in Seq(Chars), NEW v \in Seq(Chars), Owes(b, u \o v)
    PROVE  LET f == [b EXCEPT !.s.tx = @ \o u]
           IN  f \in Bundles /\ Owes(f, v) /\ Same(f, b) /\ f.k = b.k
               /\ f.s = [b.s EXCEPT !.tx = b.s.tx \o u]
<1>. DEFINE f == [b EXCEPT !.s.tx = @ \o u]
<1>1. b.s \in Slots /\ b.s.tx \in Seq(Chars) /\ b.s.sent \in Seq(Chars) /\ b.h \in Clients /\ b.k \in Sides
  BY DEF Bundles, Slots
<1>2. f.s = [b.s EXCEPT !.tx = b.s.tx \o u] /\ f.k = b.k /\ f.h = b.h
  BY DEF Bundles
<1>0. f = [s |-> f.s, k |-> f.k, h |-> f.h]
  BY DEF Bundles
<1>. HIDE DEF f
<1>3. b.s.tx \o u \in Seq(Chars)
  BY <1>1
<1>4. f.s \in Slots /\ f.s.tx = b.s.tx \o u /\ f.s.sent = b.s.sent /\ f.s.conn = b.s.conn
  BY <1>1, <1>2, <1>3 DEF Slots
<1>5. f \in Bundles
  BY <1>0, <1>1, <1>2, <1>4 DEF Bundles
<1>6. (b.s.sent \o b.s.tx) \o (u \o v) = (b.s.sent \o (b.s.tx \o u)) \o v
  <2>. DEFINE s == b.s.sent
              t == b.s.tx
  <2>1. s \in Seq(Chars) /\ t \in Seq(Chars)
    BY <1>1
  <2>. HIDE DEF s, t
  <2>. DEFINE x == (s \o t) \o (u \o v)
              y == (s \o (t \o u)) \o v
  <2>2. x \in Seq(Chars) /\ y \in Seq(Chars)
    BY <2>1
  <2>3. Len(x) = Len(y)
    BY <2>1
  <2>4. \A i \in 1..Len(x) : x[i] = y[i]
    BY <2>1
  <2>. HIDE DEF x, y
  <2>5. x = y
    BY <2>2, <2>3, <2>4, SeqEqual
  <2>. QED BY <2>5 DEF s, t, x, y
<1>7. Owes(f, v)
  BY <1>2, <1>4, <1>6 DEF Owes
<1>. QED
  BY <1>2, <1>4, <1>5, <1>7 DEF Same, f

\* Data is added to the buffer, and sent if the connection is ready; what does
\* not fit is added once more or noted to be lost.
LEMMA BufferedKeeps ==
    ASSUME NEW b \in Bundles, Len(b.s.tx) < MAX_TXBUFFER, Sends(b),
           NEW data \in Seq(Chars), Owes(b, data), NEW outcome
    PROVE  Good(Buffered(b, data, outcome)) /\ Same(Buffered(b, data, outcome), b)
<1>. DEFINE u == Fits(b, data)
            r == Rest(b, data)
            f == [b EXCEPT !.s.tx = @ \o u]
            g == IF b.s.ready THEN sendtxbuffer(f, outcome # "send") ELSE f
            w == Fits(g, r)
            again == [g EXCEPT !.s.tx = w]
<1>1. /\ r = <<>> => Buffered(b, data, outcome) = g
      /\ r # <<>> /\ g.s.tx # <<>> => Buffered(b, data, outcome) = Overflow(g)
      /\ r # <<>> /\ g.s.tx = <<>> =>
            Buffered(b, data, outcome) \in
               {Lost(g), IF Rest(g, r) = <<>> THEN again ELSE Overflow(again)}
  BY DEF Buffered
<1>2. u \in Seq(Chars) /\ r \in Seq(Chars) /\ u \o r = data /\ (r # <<>> => u # <<>>)
  BY FitsAndRest
<1>. HIDE DEF u, r
<1>3. f \in Bundles /\ Owes(f, r) /\ Same(f, b) /\ f.k = b.k /\ f.s = [b.s EXCEPT !.tx = b.s.tx \o u]
  <2>1. Owes(b, u \o r)
    BY <1>2
  <2>. QED BY <1>2, <2>1, FillKeeps
<1>4. b.s \in Slots /\ b.s.tx \in Seq(Chars) /\ b.s.ready \in BOOLEAN
  BY DEF Bundles, Slots
<1>5. f.s.tx = b.s.tx \o u /\ f.s.sent = b.s.sent /\ f.s.ready = b.s.ready
  <2>. HIDE DEF f
  <2>. QED BY <1>3, <1>4 DEF Slots
<1>. HIDE DEF f
<1>6. /\ g \in Bundles /\ Sends(g) /\ Owes(g, r) /\ Same(g, b)
      /\ r # <<>> => g.s.ready = FALSE
  <2>1. CASE b.s.ready = TRUE
    <3>1. b.s.tx = <<>> /\ b.s.sent = <<>> /\ b.k.sending = <<>>
      BY <2>1 DEF Sends
    <3>2. f.s.tx = u /\ f.s.sent = <<>> /\ f.k.sending = <<>>
      BY <1>2, <1>3, <1>5, <3>1
    <3>. DEFINE ok == outcome # "send"
    <3>3. ok \in BOOLEAN /\ g = sendtxbuffer(f, ok)
      BY <2>1
    <3>. HIDE DEF ok, g
    <3>4. g \in Bundles /\ Sends(g) /\ Owes(g, r) /\ Same(g, f) /\ (f.s.tx # <<>> => g.s.ready = FALSE)
      BY <1>2, <1>3, <3>2, <3>3, SendKeeps
    <3>5. Same(g, b)
      BY <1>3, <3>4 DEF Same
    <3>. QED BY <1>2, <3>2, <3>4, <3>5
  <2>2. CASE b.s.ready = FALSE
    <3>1. g = f
      BY <2>2
    <3>2. Sends(f)
      BY <1>3, <1>5, <2>2 DEF Sends
    <3>. HIDE DEF g
    <3>. QED BY <1>3, <1>5, <2>2, <3>1, <3>2
  <2>. QED BY <1>4, <2>1, <2>2
<1>. HIDE DEF g
<1>7. CASE r = <<>>
  <2>1. Good(g)
    BY <1>6, <1>7 DEF Good
  <2>. QED BY <1>1, <1>6, <1>7, <2>1
<1>8. CASE r # <<>> /\ g.s.tx # <<>>
  <2>1. Good(Overflow(g)) /\ Same(Overflow(g), g)
    BY <1>6, OverflowKeeps
  <2>. QED BY <1>1, <1>6, <1>8, <2>1 DEF Same
<1>9. CASE r # <<>> /\ g.s.tx = <<>>
  <2>1. Good(Lost(g)) /\ Same(Lost(g), b)
    <3>1. Good(Lost(g)) /\ Same(Lost(g), g)
      BY <1>6, LostKeeps
    <3>. QED BY <1>6, <3>1 DEF Same
  <2>. DEFINE v == Rest(g, r)
  <2>2. w \in Seq(Chars) /\ v \in Seq(Chars) /\ w \o v = r
    <3>1. Len(g.s.tx) < MAX_TXBUFFER
      BY <1>9, SerBridgeAssumption
    <3>. QED BY <1>2, <1>6, <3>1, FitsAndRest
  <2>. HIDE DEF w, v
  <2>. DEFINE x == [g EXCEPT !.s.tx = @ \o w]
  <2>3. x \in Bundles /\ Owes(x, v) /\ Same(x, g) /\ x.k = g.k /\ x.s = [g.s EXCEPT !.tx = g.s.tx \o w]
    <3>1. Owes(g, w \o v)
      BY <1>6, <2>2
    <3>. QED BY <1>6, <2>2, <3>1, FillKeeps
  <2>4. again = x
    <3>1. g.s.tx \o w = w
      BY <1>9, <2>2
    <3>. QED BY <3>1
  <2>5. Sends(x)
    <3>1. g.s \in Slots
      BY <1>6 DEF Bundles
    <3>2. x.s.ready = g.s.ready /\ x.s.sent = g.s.sent
      <4>. HIDE DEF x
      <4>. QED BY <2>3, <3>1 DEF Slots
    <3>. HIDE DEF x
    <3>. QED BY <1>6, <1>9, <2>3, <3>2 DEF Sends
  <2>. HIDE DEF x, again
  <2>6. Good(Overflow(x)) /\ Same(Overflow(x), b)
    <3>1. Good(Overflow(x)) /\ Same(Overflow(x), x)
      BY <2>3, <2>5, OverflowKeeps
    <3>. QED BY <1>6, <2>3, <3>1 DEF Same
  <2>7. v = <<>> => Good(x) /\ Same(x, b)
    BY <1>6, <2>3, <2>5 DEF Good, Same
  <2>8. Buffered(b, data, outcome) \in {Lost(g), IF v = <<>> THEN again ELSE Overflow(again)}
    BY <1>1, <1>9 DEF v
  <2>. QED BY <2>1, <2>4, <2>6, <2>7, <2>8
<1>. QED
  BY <1>7, <1>8, <1>9

LEMMA espbuffsendKeeps ==
    ASSUME NEW b, Good(b), NEW data \in Seq(Chars), NEW outcome
    PROVE  Good(espbuffsend(b, data, outcome)) /\ Same(espbuffsend(b, data, outcome), b)
<1>. DEFINE q == IF b.h.lossy THEN b ELSE [b EXCEPT !.h.owed = @ \o data]
<1>1. b \in Bundles /\ Sends(b) /\ Owes(b, <<>>)
  BY DEF Good
<1>2. b.s \in Slots /\ b.h \in Clients /\ b.s.tx \in Seq(Chars) /\ b.s.sent \in Seq(Chars)
      /\ b.h.owed \in Seq(Chars) /\ b.h.lossy \in BOOLEAN
  BY <1>1 DEF Bundles, Slots, Clients
<1>3. \/ espbuffsend(b, data, outcome) \in {Overflow(b), Lost(b)}
      \/ /\ Len(b.s.tx) < MAX_TXBUFFER
         /\ espbuffsend(b, data, outcome) = Buffered(q, data, outcome)
  BY <1>2, SerBridgeAssumption DEF espbuffsend
<1>4. q \in Bundles /\ Sends(q) /\ Owes(q, data) /\ Same(q, b) /\ q.s = b.s
  <2>1. CASE b.h.lossy = TRUE
    BY <1>1, <2>1 DEF Owes, Same
  <2>2. CASE b.h.lossy = FALSE
    <3>. DEFINE x == [b EXCEPT !.h.owed = @ \o data]
    <3>1. q = x
      BY <2>2
    <3>2. x.s = b.s /\ x.k = b.k /\ x.h = [b.h EXCEPT !.owed = b.h.owed \o data]
      BY <1>1 DEF Bundles
    <3>3. b.h.owed \o data \in Seq(Chars)
      BY <1>2
    <3>4. x.h \in Clients /\ x.h.owed = b.h.owed \o data
      <4>. HIDE DEF x
      <4>. QED BY <1>2, <3>2, <3>3 DEF Clients
    <3>5. x \in Bundles
      BY <1>1, <3>2, <3>4 DEF Bundles
    <3>6. b.h.owed = b.s.sent \o b.s.tx
      <4>1. b.h.owed = (b.s.sent \o b.s.tx) \o <<>>
        BY <1>1, <2>2 DEF Owes
      <4>2. b.s.sent \o b.s.tx \in Seq(Chars)
        BY <1>2
      <4>. QED BY <4>1, <4>2, ConcatEmptySeq
    <3>. HIDE DEF x, q
    <3>7. Owes(x, data)
      BY <3>2, <3>4, <3>6 DEF Owes
    <3>. QED BY <1>1, <3>1, <3>2, <3>5, <3>7 DEF Sends, Same
  <2>. QED BY <1>2, <2>1, <2>2
<1>. HIDE DEF q
<1>5. Len(b.s.tx) < MAX_TXBUFFER =>
         Good(Buffered(q, data, outcome)) /\ Same(Buffered(q, data, outcome), q)
  BY <1>4, BufferedKeeps
<1>6. Good(Overflow(b)) /\ Same(Overflow(b), b) /\ Good(Lost(b)) /\ Same(Lost(b), b)
  BY <1>1, OverflowKeeps, LostKeeps
<1>. QED
  BY <1>3, <1>4, <1>5, <1>6 DEF Same

-----------------------------------------------------------------------------
(* The invariant: what every connection obeys, and that a slot and its      *)
(* connection point to each other.                                          *)

BridgeType ==
    /\ load \in Loads
    /\ connData \in [1..MAX_CONN -> Slots]
    /\ sdk \in [Conns -> Sides]
    /\ client \in [Conns -> Clients]
    /\ fifo \in Seq(Nat) /\ next \in Nat
    /\ flashing \in Nat /\ pins \in [reset : 0..1, isp : 0..1] /\ baud \in Seq(Bytes)

Linked ==
    /\ \A c \in Conns : /\ sdk[c].reverse # 0 => connData[sdk[c].reverse].conn = c
                        /\ sdk[c].state = "idle" => sdk[c].reverse = 0
    /\ \A i \in Open : sdk[connData[i].conn].reverse = i
    /\ \A i \in 1..MAX_CONN \ Open : connData[i].tx = <<>> /\ connData[i].sent = <<>>

Obeys == \A i \in Open : Sends(Bundle(i)) /\ Owes(Bundle(i), <<>>)

BridgeInv == BridgeType /\ Linked /\ Obeys

LEMMA BundleGood ==
    ASSUME BridgeInv, NEW i \in Open
    PROVE  /\ Good(Bundle(i)) /\ i \in 1..MAX_CONN /\ connData[i].conn \in Conns
           /\ Bundle(i).s = connData[i] /\ Bundle(i).k = sdk[connData[i].conn]
           /\ Bundle(i).h = client[connData[i].conn]
           /\ Bundle(i).k.reverse = i /\ Bundle(i).k.state # "idle"
<1>. USE DEF BridgeInv, BridgeType
<1>1. i \in 1..MAX_CONN /\ connData[i] \in Slots /\ connData[i].conn \in Conns
  BY DEF Open, Slots
<1>2. Bundle(i) = [s |-> connData[i], k |-> sdk[connData[i].conn], h |-> client[connData[i].conn]]
  BY DEF Bundle
<1>3. Bundle(i) \in Bundles
  BY <1>1, <1>2 DEF Bundles
<1>4. Sends(Bundle(i)) /\ Owes(Bundle(i), <<>>)
  BY DEF Obeys
<1>5. sdk[connData[i].conn].reverse = i /\ sdk[connData[i].conn].state # "idle"
  BY <1>1, SerBridgeAssumption DEF Linked
<1>6. Bundle(i).s = connData[i] /\ Bundle(i).k = sdk[connData[i].conn] /\ Bundle(i).h = client[connData[i].conn]
  BY <1>2
<1>. QED
  BY <1>1, <1>3, <1>4, <1>5, <1>6 DEF Good

LEMMA SlotOfOpen ==
    ASSUME BridgeInv, NEW c \in Conns, SlotOf(c) # 0
    PROVE  SlotOf(c) \in Open /\ connData[SlotOf(c)].conn = c
<1>1. sdk[c].reverse \in 0..MAX_CONN
  BY DEF BridgeInv, BridgeType, Sides
<1>2. connData[sdk[c].reverse].conn = c
  BY DEF BridgeInv, Linked, SlotOf
<1>. QED
  BY <1>1, <1>2, SerBridgeAssumption DEF Open, SlotOf

\* Some slots, and with them their clients, become something that obeys.
LEMMA BecomeKeeps ==
    ASSUME BridgeInv, NEW b, DOMAIN b \subseteq Open, Become(b),
           \A i \in DOMAIN b : Good(b[i]) /\ Same(b[i], Bundle(i))
    PROVE  /\ connData' \in [1..MAX_CONN -> Slots] /\ sdk' \in [Conns -> Sides]
           /\ client' \in [Conns -> Clients]
           /\ Linked' /\ Obeys'
<1>. USE DEF BridgeInv, BridgeType
<1>1. \A i \in DOMAIN b : /\ i \in 1..MAX_CONN /\ b[i] \in Bundles
                          /\ b[i].s \in Slots /\ b[i].k \in Sides /\ b[i].h \in Clients
                          /\ b[i].s.conn = connData[i].conn /\ b[i].k.reverse = i /\ b[i].k.state # "idle"
  <2>. SUFFICES ASSUME NEW i \in DOMAIN b
                PROVE  /\ i \in 1..MAX_CONN /\ b[i] \in Bundles
                       /\ b[i].s \in Slots /\ b[i].k \in Sides /\ b[i].h \in Clients
                       /\ b[i].s.conn = connData[i].conn /\ b[i].k.reverse = i /\ b[i].k.state # "idle"
    OBVIOUS
  <2>1. i \in Open
    OBVIOUS
  <2>2. b[i] \in Bundles /\ Same(b[i], Bundle(i))
    BY DEF Good
  <2>3. b[i].s \in Slots /\ b[i].k \in Sides /\ b[i].h \in Clients
    BY <2>2 DEF Bundles
  <2>. QED BY <2>1, <2>2, <2>3, BundleGood DEF Same
<1>2. \A i \in 1..MAX_CONN : connData'[i] = IF i \in DOMAIN b THEN b[i].s ELSE connData[i]
  BY DEF Become
<1>3. \A c \in Conns : /\ sdk'[c] = IF SlotOf(c) \in DOMAIN b THEN b[SlotOf(c)].k ELSE sdk[c]
                       /\ client'[c] = IF SlotOf(c) \in DOMAIN b THEN b[SlotOf(c)].h ELSE client[c]
  BY DEF Become
<1>4. /\ connData' \in [1..MAX_CONN -> Slots] /\ sdk' \in [Conns -> Sides]
      /\ client' \in [Conns -> Clients]
  BY <1>1 DEF Become
<1>5. \A i \in 1..MAX_CONN : connData'[i].conn = connData[i].conn
  BY <1>1, <1>2
<1>6. \A c \in Conns : sdk'[c].reverse = sdk[c].reverse /\ (sdk'[c].state = "idle" => sdk[c].state = "idle")
  BY <1>1, <1>3 DEF SlotOf
<1>7. Open' = Open
  BY <1>5 DEF Open
<1>8. Linked'
  <2>1. \A c \in Conns : sdk[c].reverse # 0 => sdk[c].reverse \in 1..MAX_CONN
    BY SlotOfOpen DEF SlotOf, Open
  <2>2. \A c \in Conns : /\ sdk'[c].reverse # 0 => connData'[sdk'[c].reverse].conn = c
                         /\ sdk'[c].state = "idle" => sdk'[c].reverse = 0
    BY <1>5, <1>6, <2>1 DEF Linked
  <2>3. \A i \in Open' : sdk'[connData'[i].conn].reverse = i
    <3>. SUFFICES ASSUME NEW i \in Open PROVE sdk'[connData'[i].conn].reverse = i
      BY <1>7
    <3>1. i \in 1..MAX_CONN /\ connData[i].conn \in Conns /\ Bundle(i).k.reverse = i
          /\ Bundle(i).k = sdk[connData[i].conn]
      BY BundleGood
    <3>. QED BY <1>5, <1>6, <3>1
  <2>4. \A i \in 1..MAX_CONN \ Open : i \notin DOMAIN b
    OBVIOUS
  <2>5. \A i \in 1..MAX_CONN \ Open' : connData'[i].tx = <<>> /\ connData'[i].sent = <<>>
    BY <1>2, <1>7, <2>4 DEF Linked
  <2>. QED BY <2>2, <2>3, <2>5 DEF Linked
<1>9. Obeys'
  <2>. SUFFICES ASSUME NEW i \in Open
                PROVE  Sends(Bundle(i)') /\ Owes(Bundle(i)', <<>>)
    BY <1>7 DEF Obeys
  <2>. DEFINE c == connData[i].conn
  <2>1. i \in 1..MAX_CONN /\ c \in Conns /\ SlotOf(c) = i /\ connData'[i].conn = c
    BY <1>5, BundleGood DEF SlotOf
  <2>2. Bundle(i)' = [s |-> connData'[i], k |-> sdk'[c], h |-> client'[c]]
    BY <2>1 DEF Bundle
  <2>. HIDE DEF c
  <2>3. Bundle(i)'.s = connData'[i] /\ Bundle(i)'.k = sdk'[c] /\ Bundle(i)'.h = client'[c]
    BY <2>2
  <2>4. CASE i \in DOMAIN b
    <3>1. Bundle(i)'.s = b[i].s /\ Bundle(i)'.k = b[i].k /\ Bundle(i)'.h = b[i].h
      BY <1>2, <1>3, <2>1, <2>3, <2>4
    <3>2. Sends(b[i]) /\ Owes(b[i], <<>>)
      BY <2>4 DEF Good
    <3>. QED BY <3>1, <3>2 DEF Sends, Owes
  <2>5. CASE i \notin DOMAIN b
    <3>1. Bundle(i)'.s = Bundle(i).s /\ Bundle(i)'.k = Bundle(i).k /\ Bundle(i)'.h = Bundle(i).h
      BY <1>2, <1>3, <2>1, <2>3, <2>5, BundleGood DEF c
    <3>2. Sends(Bundle(i)) /\ Owes(Bundle(i), <<>>)
      BY BundleGood DEF Good
    <3>. QED BY <3>1, <3>2 DEF Sends, Owes
  <2>. QED BY <2>4, <2>5
<1>. QED
  BY <1>4, <1>8, <1>9

-----------------------------------------------------------------------------
(* Steps *)

\* Who leaves the connections alone leaves them in order.
LEMMA Untouched ==
    ASSUME BridgeInv, UNCHANGED <<connData, sdk, client>>
    PROVE  Linked' /\ Obeys'
<1>1. Open' = Open /\ \A i \in Open : Bundle(i)' = Bundle(i)
  BY DEF Open, Bundle
<1>. QED
  BY <1>1 DEF BridgeInv, Linked, Obeys

LEMMA FifoType ==
    ASSUME fifo \in Seq(Nat), NEW n \in Nat
    PROVE  SubSeq(fifo, n + 1, Len(fifo)) \in Seq(Nat)
OBVIOUS

LEMMA BufferType ==
    ASSUME fifo \in Seq(Nat)
    PROVE  Buffer \in Seq(Nat) /\ Buffer \in Seq(Chars)
<1>. DEFINE n == IF Len(fifo) < BufSize THEN Len(fifo) ELSE BufSize
<1>1. n \in Nat /\ n <= Len(fifo)
  BY UartAssumption
<1>. HIDE DEF n
<1>2. SubSeq(fifo, 1, n) \in Seq(Nat)
  BY <1>1
<1>3. Buffer \in Seq(Nat)
  BY <1>2 DEF Buffer, n
<1>. HIDE DEF n
<1>4. Buffer \in Seq(Chars)
  BY <1>3, SeqMonotonic DEF Chars
<1>. QED BY <1>3, <1>4

LEMMA UartSteps ==
    ASSUME BridgeInv, Arrive \/ Interrupt \/ TaskBegins \/ TaskEnds \/ Disturbs
    PROVE  BridgeInv'
<1>. USE DEF BridgeInv, BridgeType
<1>1. UNCHANGED <<bridgeVars, load>>
  BY DEF Arrive, Interrupt, TaskBegins, TaskEnds, Disturbs, UartOnly
<1>2. fifo' \in Seq(Nat) /\ next' \in Nat
  <2>1. CASE Arrive
    <3>1. (next + 1) % ByteIds \in Nat
      BY SerBridgeAssumption
    <3>. QED BY <2>1, <3>1 DEF Arrive, Arrives
  <2>2. CASE Interrupt
    <3>1. fifo' \in {fifo, <<>>} /\ next' = next /\ <<>> \in Seq(Nat)
      BY <2>2 DEF Interrupt, UartOnly, uart0_rx_intr_handler
    <3>. QED BY <3>1
  <2>3. CASE TaskBegins
    BY <2>3 DEF TaskBegins, UartOnly, usr_event_handler
  <2>4. CASE TaskEnds
    BY <2>4 DEF TaskEnds, UartOnly, RecvTaskEnds, OtherTask
  <2>5. CASE Disturbs
    <3>1. next' = next /\ (OtherPosts \/ uart0_rx_poll)
      BY <2>5 DEF Disturbs, UartOnly
    <3>2. CASE OtherPosts
      BY <3>1, <3>2 DEF OtherPosts
    <3>3. CASE uart0_rx_poll
      <4>1. PICK n \in 0..Len(fifo) : fifo' = SubSeq(fifo, n + 1, Len(fifo))
        BY <3>3 DEF uart0_rx_poll
      <4>2. n \in Nat
        OBVIOUS
      <4>3. fifo' \in Seq(Nat)
        BY <4>1, <4>2, FifoType
      <4>. QED BY <3>1, <4>3
    <3>. QED BY <3>1, <3>2, <3>3
  <2>. QED BY <2>1, <2>2, <2>3, <2>4, <2>5
<1>3. Linked' /\ Obeys'
  BY <1>1, Untouched DEF bridgeVars
<1>. QED
  BY <1>1, <1>2, <1>3 DEF bridgeVars

LEMMA RecvTaskStep ==
    ASSUME BridgeInv, uart_recvTask
    PROVE  BridgeInv'
<1>. USE DEF uart_recvTask
<1>1. fifo \in Seq(Nat)
  BY DEF BridgeInv, BridgeType
<1>2. fifo' \in Seq(Nat)
  <2>1. Len(Buffer) \in Nat
    BY <1>1, BufferType
  <2>. QED BY <1>1, <2>1, FifoType DEF RecvTaskReads
<1>3. CASE UNCHANGED <<connData, sdk, client>>
  BY <1>2, <1>3, Untouched DEF BridgeInv, BridgeType
<1>4. CASE console_process(Buffer)
  <2>1. PICK outcome \in [Open -> Outcomes] :
           Become([i \in Open |-> espbuffsend(Bundle(i), Buffer, outcome[i])])
    BY <1>4 DEF console_process
  <2>. DEFINE b == [i \in Open |-> espbuffsend(Bundle(i), Buffer, outcome[i])]
  <2>2. \A i \in Open : Good(b[i]) /\ Same(b[i], Bundle(i))
    BY <1>1, BufferType, BundleGood, espbuffsendKeeps
  <2>3. DOMAIN b \subseteq Open /\ Become(b)
    BY <2>1
  <2>. HIDE DEF b
  <2>4. /\ connData' \in [1..MAX_CONN -> Slots] /\ sdk' \in [Conns -> Sides]
        /\ client' \in [Conns -> Clients] /\ Linked' /\ Obeys'
    BY <2>2, <2>3, BecomeKeeps
  <2>. QED BY <1>2, <2>4 DEF BridgeInv, BridgeType
<1>. QED
  BY <1>3, <1>4 DEF serbridgeUartCb

\* One slot becomes something that obeys.
LEMMA OneBecomes ==
    ASSUME BridgeInv, NEW i \in Open, NEW x, Good(x), Same(x, Bundle(i)), Becomes(i, x)
    PROVE  /\ connData' \in [1..MAX_CONN -> Slots] /\ sdk' \in [Conns -> Sides]
           /\ client' \in [Conns -> Clients]
           /\ Linked' /\ Obeys'
<1>. DEFINE b == [j \in {i} |-> x]
<1>1. DOMAIN b = {i} /\ b[i] = x
  OBVIOUS
<1>. HIDE DEF b
<1>2. Become(b) /\ DOMAIN b \subseteq Open /\ \A j \in DOMAIN b : Good(b[j]) /\ Same(b[j], Bundle(j))
  BY <1>1 DEF b, Becomes
<1>. QED
  BY <1>2, BecomeKeeps

\* Hearing a client touches neither its buffers nor what it is owed.
LEMMA HeardKeeps ==
    ASSUME NEW b, Good(b), NEW y \in Bundles, NEW n \in Nat,
           y.s.conn = b.s.conn, y.s.tx = b.s.tx, y.s.sent = b.s.sent, y.s.ready = b.s.ready,
           y.k = b.k, y.h.owed = b.h.owed, y.h.lossy = b.h.lossy
    PROVE  Good(StillToSay(y, n)) /\ Same(StillToSay(y, n), b)
<1>. DEFINE u == SubSeq(y.h.unread, n + 1, Len(y.h.unread))
            x == [y EXCEPT !.h.unread = u]
<1>1. b \in Bundles /\ Sends(b) /\ Owes(b, <<>>)
  BY DEF Good
<1>2. y.s \in Slots /\ y.k \in Sides /\ y.h \in Clients /\ y.h.unread \in Seq(Bytes)
  BY DEF Bundles, Clients
<1>3. u \in Seq(Bytes)
  BY <1>2
<1>. HIDE DEF u
<1>4. x.s = y.s /\ x.k = y.k /\ x.h = [y.h EXCEPT !.unread = u]
  BY DEF Bundles
<1>5. x.h \in Clients /\ x.h.owed = y.h.owed /\ x.h.lossy = y.h.lossy
  <2>. HIDE DEF x
  <2>. QED BY <1>2, <1>3, <1>4 DEF Clients
<1>6. x \in Bundles
  BY <1>4, <1>5 DEF Bundles
<1>7. StillToSay(y, n) = x
  BY DEF StillToSay, u, Bundles
<1>. HIDE DEF x
<1>8. Good(x) /\ Same(x, b)
  BY <1>1, <1>2, <1>4, <1>5, <1>6 DEF Good, Same, Sends, Owes
<1>. QED
  BY <1>7, <1>8

\* A slot in another mode, whose client has had something done.
InMode(b, m, d) == [b EXCEPT !.s.mode = m, !.h.done = d]

LEMMA ModeKeeps ==
    ASSUME NEW b \in Bundles, NEW m \in Modes,
           NEW d \in Seq(Seq(Deeds))
    PROVE  LET y == InMode(b, m, d)
           IN  /\ y \in Bundles /\ y.k = b.k /\ y.s = [b.s EXCEPT !.mode = m]
               /\ y.s.conn = b.s.conn /\ y.s.tx = b.s.tx /\ y.s.sent = b.s.sent
               /\ y.s.ready = b.s.ready /\ y.h.owed = b.h.owed /\ y.h.lossy = b.h.lossy
<1>. DEFINE y == [b EXCEPT !.s.mode = m, !.h.done = d]
<1>5. InMode(b, m, d) = y
  BY DEF InMode
<1>1. b.s \in Slots /\ b.k \in Sides /\ b.h \in Clients
  BY DEF Bundles
<1>2. y.s = [b.s EXCEPT !.mode = m] /\ y.k = b.k /\ y.h = [b.h EXCEPT !.done = d]
  BY DEF Bundles
<1>3. /\ y.s \in Slots /\ y.h \in Clients
      /\ y.s.conn = b.s.conn /\ y.s.tx = b.s.tx /\ y.s.sent = b.s.sent /\ y.s.ready = b.s.ready
      /\ y.h.owed = b.h.owed /\ y.h.lossy = b.h.lossy
  <2>. HIDE DEF y
  <2>. QED BY <1>1, <1>2 DEF Slots, Clients
<1>4. y \in Bundles
  BY <1>1, <1>2, <1>3 DEF Bundles
<1>. HIDE DEF y
<1>. QED
  BY <1>2, <1>3, <1>4, <1>5

LEMMA TelnetKeeps ==
    ASSUME NEW b \in Bundles, NEW t \in TelnetStates, NEW d \in Seq(Seq(Deeds))
    PROVE  LET y == [b EXCEPT !.s.mode = "telnet", !.s.telnet = t, !.h.done = d]
           IN  /\ y \in Bundles /\ y.k = b.k
               /\ y.s.conn = b.s.conn /\ y.s.tx = b.s.tx /\ y.s.sent = b.s.sent
               /\ y.s.ready = b.s.ready /\ y.h.owed = b.h.owed /\ y.h.lossy = b.h.lossy
<1>. DEFINE y == [b EXCEPT !.s.mode = "telnet", !.s.telnet = t, !.h.done = d]
<1>1. b.s \in Slots /\ b.k \in Sides /\ b.h \in Clients /\ "telnet" \in Modes
  BY DEF Bundles, Modes
<1>2. y.s = [b.s EXCEPT !.mode = "telnet", !.telnet = t] /\ y.k = b.k /\ y.h = [b.h EXCEPT !.done = d]
  BY DEF Bundles
<1>3. /\ y.s \in Slots /\ y.h \in Clients
      /\ y.s.conn = b.s.conn /\ y.s.tx = b.s.tx /\ y.s.sent = b.s.sent /\ y.s.ready = b.s.ready
      /\ y.h.owed = b.h.owed /\ y.h.lossy = b.h.lossy
  <2>. HIDE DEF y
  <2>. QED BY <1>1, <1>2 DEF Slots, Clients
<1>4. y \in Bundles
  BY <1>1, <1>2, <1>3 DEF Bundles
<1>. HIDE DEF y
<1>. QED
  BY <1>2, <1>3, <1>4 DEF y

Wiring == [reset : 0..1, isp : 0..1]

\* A client that is heard.
LEMMA RecvStep ==
    ASSUME BridgeInv, NEW c \in Conns, serbridgeRecvCb(c)
    PROVE  BridgeInv'
<1>. DEFINE i == SlotOf(c)
            b == Bundle(i)
<1>1. SlotOf(c) # 0 /\ UNCHANGED <<fifo, load, next>>
  BY DEF serbridgeRecvCb, uartVars
<1>2. i \in Open /\ connData[i].conn = c
  BY <1>1, SlotOfOpen
<1>. HIDE DEF i
<1>3. /\ Good(b) /\ b \in Bundles /\ i \in 1..MAX_CONN /\ b.s = connData[i] /\ b.k = sdk[c]
      /\ b.h = client[c]
  BY <1>2, BundleGood DEF Good
<1>. HIDE DEF b
<1>4. PICK n \in 1..Len(client[c].unread) :
         n <= MaxPacket /\ (StartPGM(i, n) \/ Verbatim(i, n) \/ Telneting(i, n))
  BY DEF serbridgeRecvCb, i
<1>5. client[c].unread \in Seq(Bytes) /\ client[c].done \in Seq(Seq(Deeds)) /\ flashing \in Nat
  BY DEF BridgeInv, BridgeType, Clients
<1>6. n \in Nat /\ Heard(c, n) \in Seq(Bytes)
  <2>1. n \in Nat /\ n <= Len(client[c].unread)
    BY <1>5
  <2>. QED BY <1>5, <2>1 DEF Heard
<1>7. SUFFICES /\ flashing' \in Nat /\ pins' \in Wiring /\ baud' \in Seq(Bytes)
               /\ \E x : Good(x) /\ Same(x, b) /\ Becomes(i, x)
  <2>1. PICK x : Good(x) /\ Same(x, b) /\ Becomes(i, x)
    BY <1>7
  <2>2. /\ connData' \in [1..MAX_CONN -> Slots] /\ sdk' \in [Conns -> Sides]
        /\ client' \in [Conns -> Clients] /\ Linked' /\ Obeys'
    BY <1>2, <2>1, OneBecomes DEF b
  <2>. QED BY <1>1, <1>7, <2>2 DEF BridgeInv, BridgeType, Wiring
<1>8. CASE StartPGM(i, n)
  <2>. DEFINE d == Append(client[c].done, <<"RESET">>)
              y == [b EXCEPT !.s.mode = "pgm", !.h.done = Append(@, <<"RESET">>)]
              z == InMode(b, "pgm", d)
  <2>1. d \in Seq(Seq(Deeds))
    <3>1. "RESET" \in Deeds
      BY DEF Deeds
    <3>2. <<"RESET">> \in Seq(Deeds)
      BY <3>1, Tuples
    <3>. QED BY <1>5, <3>2
  <2>2. y = z
    BY <1>3 DEF Bundles, InMode
  <2>. HIDE DEF d
  <2>3. /\ z \in Bundles /\ z.k = b.k
        /\ z.s.conn = b.s.conn /\ z.s.tx = b.s.tx /\ z.s.sent = b.s.sent
        /\ z.s.ready = b.s.ready /\ z.h.owed = b.h.owed /\ z.h.lossy = b.h.lossy
    <3>1. "pgm" \in Modes
      BY DEF Modes
    <3>. QED BY <1>3, <2>1, <3>1, ModeKeeps
  <2>4. Becomes(i, StillToSay(y, n))
    BY <1>8 DEF StartPGM, b
  <2>. HIDE DEF y, z
  <2>5. Good(StillToSay(z, n)) /\ Same(StillToSay(z, n), b)
    BY <1>3, <1>6, <2>3, HeardKeeps
  <2>6. /\ flashing' = (flashing + 1) % (FlashingMax + 1) /\ pins' = [reset |-> 1, isp |-> 0]
        /\ baud' = baud
    BY <1>8 DEF StartPGM
  <2>7. flashing' \in Nat
    BY <1>5, <2>6, TelnetAssumption
  <2>8. pins' \in Wiring /\ baud' \in Seq(Bytes)
    BY <2>6 DEF Wiring, BridgeInv, BridgeType
  <2>. QED BY <2>2, <2>4, <2>5, <2>7, <2>8
<1>9. CASE Verbatim(i, n)
  <2>. DEFINE data == Heard(c, n)
              mode == Dispatch(connData[i], data)
              w == [j \in DOMAIN data |-> <<data[j]>>]
              d == client[c].done \o w
              y == [b EXCEPT !.s.mode = mode, !.h.done = @ \o w]
              z == InMode(b, mode, d)
  <2>1. mode \in {"transparent", "pgm"} /\ Becomes(i, StillToSay(y, n))
        /\ UNCHANGED <<flashing, pins, baud>>
    BY <1>2, <1>9 DEF Verbatim, b
  <2>2. d \in Seq(Seq(Deeds))
    <3>1. data \in Seq(Bytes)
      BY <1>6
    <3>. HIDE DEF data
    <3>2. DOMAIN data = 1..Len(data) /\ Len(data) \in Nat
      BY <3>1
    <3>3. \A j \in 1..Len(data) : data[j] \in Deeds
      BY <3>1 DEF Deeds
    <3>4. \A j \in 1..Len(data) : <<data[j]>> \in Seq(Deeds)
      BY <3>3, Tuples
    <3>5. w \in Seq(Seq(Deeds))
      BY <3>2, <3>4
    <3>. HIDE DEF w
    <3>. QED BY <1>5, <3>5
  <2>. HIDE DEF mode, w
  <2>3. y = z
    BY <1>3 DEF Bundles, InMode
  <2>. HIDE DEF d
  <2>8. b \in Bundles
    BY <1>3
  <2>7. mode \in Modes
    BY <2>1 DEF Modes
  <2>. HIDE DEF y, data
  <2>4. /\ z \in Bundles /\ z.k = b.k
        /\ z.s.conn = b.s.conn /\ z.s.tx = b.s.tx /\ z.s.sent = b.s.sent
        /\ z.s.ready = b.s.ready /\ z.h.owed = b.h.owed /\ z.h.lossy = b.h.lossy
    BY <2>2, <2>7, <2>8, ModeKeeps
  <2>. HIDE DEF z
  <2>5. Good(StillToSay(z, n)) /\ Same(StillToSay(z, n), b)
    BY <1>3, <1>6, <2>4, HeardKeeps
  <2>6. flashing' \in Nat /\ pins' \in Wiring /\ baud' \in Seq(Bytes)
    BY <2>1 DEF Wiring, BridgeInv, BridgeType
  <2>. QED BY <2>1, <2>3, <2>5, <2>6
<1>10. CASE Telneting(i, n)
  <2>. DEFINE data == Heard(c, n)
              m0 == [state |-> connData[i].telnet, baud |-> baud, flashing |-> flashing, pins |-> pins,
                     out |-> client[c].done, responses |-> <<>>]
              m == telnetUnwrap(m0, data)
              y == [b EXCEPT !.s.mode = "telnet", !.s.telnet = m.state, !.h.done = m.out]
              h == StillToSay(y, n)
  <2>1. m \in Machine
    <3>1. connData[i].telnet \in TelnetStates /\ baud \in Seq(Bytes) /\ pins \in Wiring
      BY <1>3 DEF BridgeInv, BridgeType, Slots, Wiring
    <3>2. m0 \in Machine
      BY <1>5, <3>1 DEF Machine, Wiring
    <3>. HIDE DEF m0
    <3>. QED BY <1>6, <3>2, UnwrapType
  <2>2. /\ flashing' = m.flashing /\ pins' = m.pins /\ baud' = m.baud
        /\ \E outcome \in Outcomes :
              Becomes(i, IF m.responses = <<>> THEN h ELSE espbuffsend(h, m.responses, outcome))
    <3>1. connData[i].conn = c
      BY <1>2
    <3>. QED BY <1>10, <3>1 DEF Telneting, b
  <2>. HIDE DEF m
  <2>3. /\ m.state \in TelnetStates /\ m.out \in Seq(Seq(Deeds)) /\ m.responses \in Seq(Bytes)
        /\ m.flashing \in Nat /\ m.pins \in Wiring /\ m.baud \in Seq(Bytes)
    BY <2>1 DEF Machine, Wiring
  <2>4. /\ y \in Bundles /\ y.k = b.k
        /\ y.s.conn = b.s.conn /\ y.s.tx = b.s.tx /\ y.s.sent = b.s.sent
        /\ y.s.ready = b.s.ready /\ y.h.owed = b.h.owed /\ y.h.lossy = b.h.lossy
    BY <1>3, <2>3, TelnetKeeps
  <2>. HIDE DEF y
  <2>5. Good(h) /\ Same(h, b)
    BY <1>3, <1>6, <2>4, HeardKeeps
  <2>. HIDE DEF h
  <2>6. PICK outcome \in Outcomes :
              Becomes(i, IF m.responses = <<>> THEN h ELSE espbuffsend(h, m.responses, outcome))
    BY <2>2
  <2>7. m.responses \in Seq(Chars)
    BY <2>3, SeqMonotonic DEF Chars
  <2>8. Good(espbuffsend(h, m.responses, outcome)) /\ Same(espbuffsend(h, m.responses, outcome), b)
    <3>1. Good(espbuffsend(h, m.responses, outcome)) /\ Same(espbuffsend(h, m.responses, outcome), h)
      BY <2>5, <2>7, espbuffsendKeeps
    <3>. QED BY <2>5, <3>1 DEF Same
  <2>. QED BY <2>2, <2>3, <2>5, <2>6, <2>8
<1>. QED
  BY <1>4, <1>8, <1>9, <1>10

\* What was given to the SDK has been sent.
LEMMA SentStep ==
    ASSUME BridgeInv, NEW c \in Conns, serbridgeSentCb(c)
    PROVE  BridgeInv'
<1>. DEFINE i == SlotOf(c)
            b == Bundle(i)
            u == SubSeq(b.h.owed, Len(sdk[c].sending) + 1, Len(b.h.owed))
            y == [b EXCEPT !.h.owed = SubSeq(@, Len(sdk[c].sending) + 1, Len(@)), !.k.sending = <<>>,
                           !.s.sent = <<>>, !.s.ready = TRUE, !.s.overflow = "no"]
            z == [b EXCEPT !.h.owed = u, !.k.sending = <<>>,
                           !.s.sent = <<>>, !.s.ready = TRUE, !.s.overflow = "no"]
<1>1. SlotOf(c) # 0 /\ UNCHANGED <<uartVars, flashing, pins, baud, programming, load, next>>
  BY DEF serbridgeSentCb
<1>2. PICK outcome \in Outcomes \ {"alloc", "realloc"} :
         Becomes(i, sendtxbuffer(y, outcome # "send"))
  BY DEF serbridgeSentCb
<1>. HIDE DEF y
<1>3. i \in Open /\ connData[i].conn = c
  BY <1>1, SlotOfOpen
<1>. HIDE DEF i
<1>4. Good(b) /\ b \in Bundles /\ b.k = sdk[c]
  BY <1>3, BundleGood DEF Good
<1>. HIDE DEF b
<1>5. /\ b.s \in Slots /\ b.k \in Sides /\ b.h \in Clients
      /\ b.s.tx \in Seq(Chars) /\ b.s.sent \in Seq(Chars) /\ b.h.owed \in Seq(Chars)
      /\ b.h.lossy \in BOOLEAN /\ sdk[c].sending = b.s.sent
  BY <1>4 DEF Bundles, Slots, Clients, Good, Sends
<1>6. u \in Seq(Chars)
  <2>1. Len(b.s.sent) \in Nat
    BY <1>5
  <2>. QED BY <1>5, <2>1
<1>7. b.h.lossy = FALSE => u = b.s.tx
  <2>. SUFFICES ASSUME b.h.lossy = FALSE PROVE u = b.s.tx
    OBVIOUS
  <2>. DEFINE p == b.s.sent
              q == b.s.tx
  <2>1. b.h.owed = (p \o q) \o <<>>
    BY <1>4 DEF Good, Owes
  <2>2. p \in Seq(Chars) /\ q \in Seq(Chars) /\ sdk[c].sending = p
    BY <1>5
  <2>. HIDE DEF p, q
  <2>3. b.h.owed = p \o q
    <3>1. p \o q \in Seq(Chars)
      BY <2>2
    <3>. QED BY <2>1, <3>1, ConcatEmptySeq
  <2>. DEFINE w == SubSeq(p \o q, Len(p) + 1, Len(p \o q))
  <2>4. w = q
    <3>1. w \in Seq(Chars) /\ Len(w) = Len(q)
      BY <2>2
    <3>2. \A k \in 1..Len(q) : w[k] = q[k]
      BY <2>2
    <3>. HIDE DEF w
    <3>. QED BY <2>2, <3>1, <3>2, SeqEqual
  <2>. QED BY <2>2, <2>3, <2>4 DEF q
<1>8. y = z
  BY <1>4 DEF y, Bundles
<1>. HIDE DEF u
<1>9. /\ z.s = [b.s EXCEPT !.sent = <<>>, !.ready = TRUE, !.overflow = "no"]
      /\ z.k = [b.k EXCEPT !.sending = <<>>] /\ z.h = [b.h EXCEPT !.owed = u]
  BY <1>4 DEF Bundles
<1>10. /\ z.s \in Slots /\ z.k \in Sides /\ z.h \in Clients
       /\ z.s.tx = b.s.tx /\ z.s.sent = <<>> /\ z.s.conn = b.s.conn
       /\ z.k.sending = <<>> /\ z.k.reverse = b.k.reverse /\ z.k.state = b.k.state
       /\ z.h.owed = u /\ z.h.lossy = b.h.lossy
  <2>. HIDE DEF z
  <2>1. <<>> \in Seq(Chars)
    OBVIOUS
  <2>. QED BY <1>5, <1>6, <1>9, <2>1 DEF Slots, Sides, Clients
<1>11. z \in Bundles
  BY <1>4, <1>9, <1>10 DEF Bundles
<1>. HIDE DEF z
<1>12. Owes(z, <<>>)
  <2>1. (<<>> \o b.s.tx) \o <<>> = b.s.tx
    BY <1>5
  <2>. QED BY <1>7, <1>10, <2>1 DEF Owes
<1>. DEFINE ok == outcome # "send"
            x == sendtxbuffer(z, ok)
<1>13. ok \in BOOLEAN
  OBVIOUS
<1>. HIDE DEF ok
<1>14. x \in Bundles /\ Sends(x) /\ Owes(x, <<>>) /\ Same(x, z)
  <2>1. <<>> \in Seq(Chars)
    OBVIOUS
  <2>. HIDE DEF x
  <2>. QED BY <1>10, <1>11, <1>12, <1>13, <2>1, SendKeeps DEF x
<1>15. Becomes(i, x)
  BY <1>2, <1>8 DEF ok
<1>. HIDE DEF x
<1>16. Good(x) /\ Same(x, b)
  BY <1>10, <1>14 DEF Good, Same
<1>17. /\ connData' \in [1..MAX_CONN -> Slots] /\ sdk' \in [Conns -> Sides]
       /\ client' \in [Conns -> Clients] /\ Linked' /\ Obeys'
  BY <1>3, <1>15, <1>16, OneBecomes DEF b
<1>. QED
  BY <1>1, <1>17 DEF BridgeInv, BridgeType, uartVars

LEMMA TenSecondsStep ==
    ASSUME BridgeInv, TenSeconds
    PROVE  BridgeInv'
<1>. USE DEF BridgeInv, BridgeType
<1>1. UNCHANGED <<fifo, sdk, client, flashing, pins, baud, load, next>>
  BY DEF TenSeconds, uartVars
<1>2. PICK i \in Open : connData' = [connData EXCEPT ![i].overflow = "stuck"]
  BY DEF TenSeconds
<1>3. i \in 1..MAX_CONN /\ connData[i] \in Slots
  BY DEF Open
<1>4. connData' \in [1..MAX_CONN -> Slots]
  BY <1>2, <1>3 DEF Slots
<1>5. \A j \in 1..MAX_CONN : /\ connData'[j].conn = connData[j].conn /\ connData'[j].tx = connData[j].tx
                             /\ connData'[j].sent = connData[j].sent /\ connData'[j].ready = connData[j].ready
  BY <1>2, <1>3 DEF Slots
<1>6. Open' = Open
  BY <1>5 DEF Open
<1>7. Linked'
  <2>1. \A c \in Conns : sdk[c].reverse # 0 => sdk[c].reverse \in 1..MAX_CONN
    BY SlotOfOpen DEF SlotOf, Open
  <2>2. \A j \in Open : j \in 1..MAX_CONN
    BY DEF Open
  <2>. QED BY <1>1, <1>5, <1>6, <2>1, <2>2 DEF Linked
<1>8. Obeys'
  <2>. SUFFICES ASSUME NEW j \in Open
                PROVE  Sends(Bundle(j)') /\ Owes(Bundle(j)', <<>>)
    BY <1>6 DEF Obeys
  <2>1. j \in 1..MAX_CONN
    BY DEF Open
  <2>2. /\ Bundle(j)'.s = connData'[j] /\ Bundle(j)'.k = sdk[connData[j].conn]
        /\ Bundle(j)'.h = client[connData[j].conn]
    BY <1>1, <1>5, <2>1 DEF Bundle
  <2>3. Sends(Bundle(j)) /\ Owes(Bundle(j), <<>>)
    BY DEF Obeys
  <2>4. /\ Bundle(j).s = connData[j] /\ Bundle(j).k = sdk[connData[j].conn]
        /\ Bundle(j).h = client[connData[j].conn]
    BY BundleGood
  <2>5. /\ Bundle(j)'.s.tx = Bundle(j).s.tx /\ Bundle(j)'.s.sent = Bundle(j).s.sent
        /\ Bundle(j)'.s.ready = Bundle(j).s.ready
        /\ Bundle(j)'.k = Bundle(j).k /\ Bundle(j)'.h = Bundle(j).h
    BY <1>5, <2>1, <2>2, <2>4
  <2>. QED BY <2>3, <2>5 DEF Sends, Owes
<1>. QED
  BY <1>1, <1>4, <1>7, <1>8

\* The first free slot, if there is one.
LEMMA FirstFree ==
    LET free == {i \in 1..MAX_CONN : connData[i].conn = NoConn}
    IN  free # {} => (CHOOSE j \in free : \A k \in free : j <= k) \in free
<1>. DEFINE free == {i \in 1..MAX_CONN : connData[i].conn = NoConn}
<1>. SUFFICES ASSUME free # {} PROVE (CHOOSE j \in free : \A k \in free : j <= k) \in free
  OBVIOUS
<1>1. free \subseteq Nat
  OBVIOUS
<1>. HIDE DEF free
<1>2. \E j \in free : \A k \in free : j <= k
  BY <1>1, Smallest
<1>. QED
  BY <1>2

\* A connection is taken in if there is a slot for it.
LEMMA ConnectStep ==
    ASSUME BridgeInv, NEW c \in Conns, serbridgeConnectCb(c)
    PROVE  BridgeInv'
<1>. USE DEF BridgeInv, BridgeType
<1>. DEFINE free == {j \in 1..MAX_CONN : connData[j].conn = NoConn}
            i == CHOOSE j \in free : \A k \in free : j <= k
            m == IF load.port[c] = 2 THEN "pgmInit" ELSE "init"
            s == [Free EXCEPT !.conn = c, !.ready = TRUE, !.mode = m]
<1>1. /\ UNCHANGED <<fifo, flashing, pins, baud, load, next>>
      /\ sdk[c].state = "idle" /\ client' = [client EXCEPT ![c] = Fresh(c)]
      /\ free = {} => /\ sdk' = [sdk EXCEPT ![c] = [Idle EXCEPT !.state = "closing"]]
                      /\ connData' = connData
      /\ free # {} => /\ sdk' = [sdk EXCEPT ![c] = [Idle EXCEPT !.state = "open", !.reverse = i]]
                      /\ connData' = [connData EXCEPT ![i] = s]
  BY DEF serbridgeConnectCb, uartVars
<1>2. free # {} => i \in free
  BY FirstFree
<1>. HIDE DEF i
<1>9. Idle \in Sides /\ Idle.reverse = 0 /\ Idle.sending = <<>>
  BY SerBridgeAssumption DEF Idle, Sides
<1>10. s \in Slots /\ s.conn = c /\ s.tx = <<>> /\ s.sent = <<>> /\ s.ready = TRUE
  <2>1. Free \in Slots /\ Free.tx = <<>> /\ Free.sent = <<>>
    BY DEF Free, Slots, Modes, TelnetStates
  <2>2. m \in Modes
    BY DEF Modes
  <2>. HIDE DEF m
  <2>. QED BY <2>1, <2>2 DEF Slots
<1>. HIDE DEF s
<1>3. Fresh(c) \in Clients /\ Fresh(c).owed = <<>> /\ Fresh(c).lossy = FALSE
  BY SaysType DEF Fresh, Clients
<1>4. sdk[c].reverse = 0
  BY <1>1 DEF Linked
<1>5. \A j \in Open : connData[j].conn # c
  <2>. SUFFICES ASSUME NEW j \in Open, connData[j].conn = c PROVE FALSE
    OBVIOUS
  <2>1. sdk[c].reverse = j /\ j \in 1..MAX_CONN
    BY DEF Linked, Open
  <2>. QED BY <1>4, <2>1
<1>6. client' \in [Conns -> Clients] /\ \A d \in Conns : d # c => client'[d] = client[d]
  BY <1>1, <1>3
<1>7. CASE free = {}
  <2>. DEFINE k == [Idle EXCEPT !.state = "closing"]
  <2>1. k \in Sides /\ k.reverse = 0 /\ k.state = "closing"
    BY <1>9 DEF Sides
  <2>2. sdk' = [sdk EXCEPT ![c] = k] /\ connData' = connData
    BY <1>1, <1>7
  <2>. HIDE DEF k
  <2>3. sdk' \in [Conns -> Sides] /\ sdk'[c] = k /\ \A d \in Conns : d # c => sdk'[d] = sdk[d]
    BY <2>1, <2>2
  <2>4. Open' = Open
    BY <2>2 DEF Open
  <2>5. \A j \in Open : j \in 1..MAX_CONN /\ connData[j].conn \in Conns
    BY BundleGood
  <2>6. Linked'
    BY <1>5, <2>1, <2>2, <2>3, <2>4, <2>5 DEF Linked
  <2>7. Obeys'
    <3>. SUFFICES ASSUME NEW j \in Open
                  PROVE  Sends(Bundle(j)') /\ Owes(Bundle(j)', <<>>)
      BY <2>4 DEF Obeys
    <3>1. Bundle(j)' = Bundle(j)
      BY <1>5, <1>6, <2>2, <2>3, <2>5 DEF Bundle
    <3>. QED BY <3>1 DEF Obeys
  <2>. QED BY <1>1, <1>6, <2>2, <2>3, <2>6, <2>7
<1>8. CASE free # {}
  <2>. DEFINE k == [Idle EXCEPT !.state = "open", !.reverse = i]
  <2>1. i \in 1..MAX_CONN /\ connData[i].conn = NoConn /\ i # 0
    BY <1>2, <1>8
  <2>2. k \in Sides /\ k.reverse = i /\ k.state = "open" /\ k.sending = <<>>
    <3>1. i \in 0..MAX_CONN
      BY <2>1
    <3>. QED BY <1>9, <3>1 DEF Sides
  <2>3. s \in Slots /\ s.conn = c /\ s.tx = <<>> /\ s.sent = <<>> /\ s.ready = TRUE
    BY <1>10
  <2>4. sdk' = [sdk EXCEPT ![c] = k] /\ connData' = [connData EXCEPT ![i] = s]
    BY <1>1, <1>8
  <2>. HIDE DEF k
  <2>5. /\ sdk' \in [Conns -> Sides] /\ sdk'[c] = k /\ \A d \in Conns : d # c => sdk'[d] = sdk[d]
        /\ connData' \in [1..MAX_CONN -> Slots] /\ connData'[i] = s
        /\ \A j \in 1..MAX_CONN : j # i => connData'[j] = connData[j]
    BY <2>1, <2>2, <2>3, <2>4
  <2>6. Open' = Open \cup {i} /\ i \notin Open
    BY <2>1, <2>3, <2>5, SerBridgeAssumption DEF Open
  <2>7. \A j \in Open : j \in 1..MAX_CONN /\ connData[j].conn \in Conns /\ j # i
    BY <2>6, BundleGood
  <2>8. Linked'
    <3>1. \A d \in Conns : sdk[d].reverse # 0 => sdk[d].reverse \in Open
      BY SlotOfOpen DEF SlotOf
    <3>2. \A d \in Conns : /\ sdk'[d].reverse # 0 => connData'[sdk'[d].reverse].conn = d
                           /\ sdk'[d].state = "idle" => sdk'[d].reverse = 0
      <4>. SUFFICES ASSUME NEW d \in Conns
                    PROVE  /\ sdk'[d].reverse # 0 => connData'[sdk'[d].reverse].conn = d
                           /\ sdk'[d].state = "idle" => sdk'[d].reverse = 0
        OBVIOUS
      <4>1. CASE d = c
        BY <2>2, <2>3, <2>5, <4>1
      <4>2. CASE d # c
        <5>1. sdk'[d] = sdk[d]
          BY <2>5, <4>2
        <5>2. sdk[d].reverse # 0 => connData'[sdk[d].reverse] = connData[sdk[d].reverse]
          BY <2>5, <2>7, <3>1
        <5>. QED BY <5>1, <5>2 DEF Linked
      <4>. QED BY <4>1, <4>2
    <3>3. \A j \in Open' : sdk'[connData'[j].conn].reverse = j
      <4>. SUFFICES ASSUME NEW j \in Open \cup {i} PROVE sdk'[connData'[j].conn].reverse = j
        BY <2>6
      <4>1. CASE j = i
        BY <2>2, <2>3, <2>5, <4>1
      <4>2. CASE j \in Open
        <5>1. connData'[j] = connData[j] /\ connData[j].conn \in Conns /\ connData[j].conn # c
          BY <1>5, <2>5, <2>7, <4>2
        <5>2. sdk'[connData[j].conn] = sdk[connData[j].conn]
          BY <2>5, <5>1
        <5>. QED BY <4>2, <5>1, <5>2 DEF Linked
      <4>. QED BY <4>1, <4>2
    <3>4. \A j \in 1..MAX_CONN \ Open' : connData'[j].tx = <<>> /\ connData'[j].sent = <<>>
      BY <2>5, <2>6 DEF Linked
    <3>. QED BY <3>2, <3>3, <3>4 DEF Linked
  <2>9. Obeys'
    <3>. SUFFICES ASSUME NEW j \in Open \cup {i}
                  PROVE  Sends(Bundle(j)') /\ Owes(Bundle(j)', <<>>)
      BY <2>6 DEF Obeys
    <3>1. CASE j = i
      <4>1. Bundle(j)' = [s |-> s, k |-> k, h |-> Fresh(c)]
        <5>1. client'[c] = Fresh(c)
          BY <1>1, <1>3
        <5>2. connData'[i] = s /\ s.conn = c /\ sdk'[c] = k
          BY <2>3, <2>5
        <5>3. Bundle(j)' = [s |-> connData'[j], k |-> sdk'[connData'[j].conn], h |-> client'[connData'[j].conn]]
          BY DEF Bundle
        <5>. QED BY <3>1, <5>1, <5>2, <5>3
      <4>2. Bundle(j)'.s = s /\ Bundle(j)'.k = k /\ Bundle(j)'.h = Fresh(c)
        BY <4>1
      <4>3. (<<>> \o <<>>) \o <<>> = <<>>
        OBVIOUS
      <4>4. Sends(Bundle(j)')
        BY <2>2, <2>3, <4>2 DEF Sends
      <4>5. Owes(Bundle(j)', <<>>)
        BY <1>3, <2>3, <4>2, <4>3 DEF Owes
      <4>. QED BY <3>1, <4>4, <4>5
    <3>2. CASE j \in Open
      <4>1. Bundle(j)' = Bundle(j)
        <5>1. connData'[j] = connData[j] /\ connData[j].conn \in Conns /\ connData[j].conn # c
          BY <1>5, <2>5, <2>7, <3>2
        <5>. QED BY <1>6, <2>5, <5>1 DEF Bundle
      <4>. QED BY <3>2, <4>1 DEF Obeys
    <3>. QED BY <3>1, <3>2
  <2>. QED BY <1>1, <1>6, <2>5, <2>8, <2>9
<1>. QED
  BY <1>7, <1>8

\* A connection has ended.
LEMMA DisconStep ==
    ASSUME BridgeInv, NEW c \in Conns, serbridgeDisconCb(c)
    PROVE  BridgeInv'
<1>. USE DEF BridgeInv, BridgeType
<1>. DEFINE i == SlotOf(c)
            h == [Fresh(c) EXCEPT !.unread = <<>>]
            s == [connData[i] EXCEPT !.conn = NoConn, !.tx = <<>>, !.sent = <<>>]
<1>1. /\ UNCHANGED <<fifo, flashing, baud, load, next>>
      /\ sdk' = [sdk EXCEPT ![c] = Idle] /\ client' = [client EXCEPT ![c] = h]
      /\ pins' \in {[reset |-> 1, isp |-> 1], pins}
      /\ i = 0 => connData' = connData
      /\ i # 0 => connData' = [connData EXCEPT ![i].conn = NoConn, ![i].tx = <<>>, ![i].sent = <<>>]
  BY DEF serbridgeDisconCb, uartVars
<1>2. pins' \in [reset : 0..1, isp : 0..1]
  BY <1>1
<1>3. h \in Clients
  <2>1. Fresh(c) \in Clients /\ <<>> \in Seq(Bytes)
    BY SaysType DEF Fresh, Clients
  <2>. QED BY <2>1 DEF Clients
<1>4. Idle \in Sides /\ Idle.reverse = 0 /\ Idle.state = "idle"
  BY SerBridgeAssumption DEF Idle, Sides
<1>. HIDE DEF h
<1>5. /\ client' \in [Conns -> Clients] /\ \A d \in Conns : d # c => client'[d] = client[d]
      /\ sdk' \in [Conns -> Sides] /\ sdk'[c] = Idle /\ \A d \in Conns : d # c => sdk'[d] = sdk[d]
  BY <1>1, <1>3, <1>4
<1>6. i # 0 => i \in Open /\ connData[i].conn = c /\ i \in 1..MAX_CONN
  BY SlotOfOpen DEF Open
<1>7. \A j \in Open : /\ connData[j].conn = c => j = i
                      /\ j \in 1..MAX_CONN /\ connData[j].conn \in Conns /\ j # 0
                      /\ sdk[connData[j].conn].reverse = j
  <2>. SUFFICES ASSUME NEW j \in Open
                PROVE  /\ connData[j].conn = c => j = i
                       /\ j \in 1..MAX_CONN /\ connData[j].conn \in Conns /\ j # 0
                       /\ sdk[connData[j].conn].reverse = j
    OBVIOUS
  <2>1. j \in 1..MAX_CONN /\ connData[j].conn \in Conns
    BY BundleGood
  <2>. QED BY <2>1 DEF Linked, SlotOf
<1>8. /\ connData' \in [1..MAX_CONN -> Slots]
      /\ \A j \in 1..MAX_CONN : j # i => connData'[j] = connData[j]
      /\ i # 0 => connData'[i].conn = NoConn /\ connData'[i].tx = <<>> /\ connData'[i].sent = <<>>
  <2>1. CASE i = 0
    BY <1>1, <2>1
  <2>2. CASE i # 0
    <3>. HIDE DEF i
    <3>1. i \in 1..MAX_CONN /\ connData[i] \in Slots
      BY <1>6, <2>2
    <3>2. s \in Slots /\ s.conn = NoConn /\ s.tx = <<>> /\ s.sent = <<>>
      <4>1. <<>> \in Seq(Chars)
        OBVIOUS
      <4>. QED BY <3>1, <4>1 DEF Slots
    <3>3. connData' = [connData EXCEPT ![i] = s]
      BY <1>1, <2>2, <3>1 DEF Slots
    <3>. HIDE DEF s
    <3>. QED BY <3>1, <3>2, <3>3
  <2>. QED BY <2>1, <2>2
<1>9. Open' = Open \ {i} /\ \A j \in Open \ {i} : connData'[j] = connData[j] /\ connData[j].conn # c
  <2>1. \A j \in Open \ {i} : connData'[j] = connData[j] /\ connData[j].conn # c
    BY <1>7, <1>8
  <2>2. Open' = Open \ {i}
    <3>. HIDE DEF i
    <3>1. \A j \in 1..MAX_CONN : j # i => (connData'[j].conn # NoConn <=> connData[j].conn # NoConn)
      BY <1>8
    <3>2. \A j \in 1..MAX_CONN : j = i => ~(connData'[j].conn # NoConn)
      BY <1>8
    <3>. QED BY <3>1, <3>2 DEF Open
  <2>. QED BY <2>1, <2>2
<1>10. Linked'
  <2>1. \A d \in Conns : /\ sdk'[d].reverse # 0 => connData'[sdk'[d].reverse].conn = d
                         /\ sdk'[d].state = "idle" => sdk'[d].reverse = 0
    <3>. SUFFICES ASSUME NEW d \in Conns
                  PROVE  /\ sdk'[d].reverse # 0 => connData'[sdk'[d].reverse].conn = d
                         /\ sdk'[d].state = "idle" => sdk'[d].reverse = 0
      OBVIOUS
    <3>1. CASE d = c
      BY <1>4, <1>5, <3>1
    <3>2. CASE d # c
      <4>1. sdk'[d] = sdk[d]
        BY <1>5, <3>2
      <4>2. CASE sdk[d].reverse # 0
        <5>1. sdk[d].reverse \in Open /\ connData[sdk[d].reverse].conn = d
          BY <4>2, SlotOfOpen DEF SlotOf
        <5>2. sdk[d].reverse # i
          BY <1>6, <3>2, <4>2, <5>1
        <5>. HIDE DEF i
        <5>. QED BY <1>9, <4>1, <5>1, <5>2 DEF Linked
      <4>3. CASE sdk[d].reverse = 0
        BY <4>1, <4>3
      <4>. QED BY <4>2, <4>3
    <3>. QED BY <3>1, <3>2
  <2>2. \A j \in Open' : sdk'[connData'[j].conn].reverse = j
    BY <1>5, <1>7, <1>9
  <2>3. \A j \in 1..MAX_CONN \ Open' : connData'[j].tx = <<>> /\ connData'[j].sent = <<>>
    <3>. SUFFICES ASSUME NEW j \in 1..MAX_CONN, j \notin Open \ {i}
                  PROVE  connData'[j].tx = <<>> /\ connData'[j].sent = <<>>
      BY <1>9
    <3>1. CASE j = i
      BY <1>8, <3>1
    <3>2. CASE j # i
      BY <1>8, <3>2 DEF Linked
    <3>. QED BY <3>1, <3>2
  <2>. QED BY <2>1, <2>2, <2>3 DEF Linked
<1>11. Obeys'
  <2>. SUFFICES ASSUME NEW j \in Open \ {i}
                PROVE  Sends(Bundle(j)') /\ Owes(Bundle(j)', <<>>)
    BY <1>9 DEF Obeys
  <2>1. Bundle(j)' = Bundle(j)
    BY <1>5, <1>7, <1>9 DEF Bundle
  <2>. QED BY <2>1 DEF Obeys
<1>. QED
  BY <1>1, <1>2, <1>5, <1>8, <1>10, <1>11

-----------------------------------------------------------------------------
(* Theorems *)

LEMMA BridgeInit == Init => BridgeInv
<1>. SUFFICES ASSUME Init PROVE BridgeInv
  OBVIOUS
<1>1. Free \in Slots /\ Free.conn = NoConn /\ Free.tx = <<>> /\ Free.sent = <<>>
  BY DEF Free, Slots, Modes, TelnetStates
<1>2. Idle \in Sides /\ Idle.reverse = 0
  BY SerBridgeAssumption DEF Idle, Sides
<1>3. [unread |-> <<>>, done |-> <<>>, owed |-> <<>>, lossy |-> FALSE] \in Clients
  BY DEF Clients
<1>4. BridgeType
  BY <1>1, <1>2, <1>3 DEF Init, UartInit, BridgeType
<1>5. Open = {}
  BY <1>1 DEF Init, Open
<1>6. Linked /\ Obeys
  BY <1>1, <1>2, <1>5 DEF Init, Linked, Obeys
<1>. QED
  BY <1>4, <1>6 DEF BridgeInv

LEMMA BridgeStep == BridgeInv /\ [Next]_vars => BridgeInv'
<1>. SUFFICES ASSUME BridgeInv, [Next]_vars PROVE BridgeInv'
  OBVIOUS
<1>1. CASE Arrive \/ Interrupt \/ TaskBegins \/ TaskEnds \/ Disturbs
  BY <1>1, UartSteps
<1>2. CASE uart_recvTask
  BY <1>2, RecvTaskStep
<1>3. CASE TenSeconds
  BY <1>3, TenSecondsStep
<1>4. CASE Programmer
  <2>1. UNCHANGED <<fifo, connData, sdk, client, flashing, pins, baud, load, next>>
    BY <1>4 DEF Programmer, uartVars
  <2>. QED BY <2>1, Untouched DEF BridgeInv, BridgeType
<1>5. ASSUME NEW c \in Conns,
             serbridgeRecvCb(c) \/ serbridgeSentCb(c) \/ serbridgeConnectCb(c) \/ serbridgeDisconCb(c)
      PROVE  BridgeInv'
  BY <1>5, RecvStep, SentStep, ConnectStep, DisconStep
<1>6. CASE UNCHANGED vars
  <2>1. UNCHANGED <<fifo, connData, sdk, client, flashing, pins, baud, load, next>>
    BY <1>6 DEF vars
  <2>. QED BY <2>1, Untouched DEF BridgeInv, BridgeType
<1>. QED
  BY <1>1, <1>2, <1>3, <1>4, <1>5, <1>6 DEF Next

LEMMA BridgeAlways == Spec => []BridgeInv
BY BridgeInit, BridgeStep, PTL DEF Spec

(* However many slots and clients there are and however sends fail, the     *)
(* SDK is given nothing for a connection that is still sending, and what    *)
(* it was given stays in its buffer.                                        *)
THEOREM SendDisciplineHolds == Spec => []SendDiscipline
<1>1. BridgeInv => SendDiscipline
  <2>. SUFFICES ASSUME BridgeInv, NEW i \in 1..MAX_CONN
                PROVE  LET s == connData[i] IN
                       /\ s.conn = NoConn => s.tx = <<>> /\ s.sent = <<>>
                       /\ s.conn # NoConn =>
                             /\ sdk[s.conn].reverse = i
                             /\ sdk[s.conn].sending = s.sent
                             /\ s.ready => s.tx = <<>> /\ s.sent = <<>>
    BY DEF SendDiscipline
  <2>1. CASE connData[i].conn = NoConn
    <3>1. i \in 1..MAX_CONN \ Open
      BY <2>1 DEF Open
    <3>. QED BY <2>1, <3>1 DEF BridgeInv, Linked
  <2>2. CASE connData[i].conn # NoConn
    <3>1. i \in Open
      BY <2>2 DEF Open
    <3>2. Sends(Bundle(i))
      BY <3>1 DEF BridgeInv, Obeys
    <3>. QED BY <2>2, <3>1, <3>2, BundleGood DEF Sends
  <2>. QED BY <2>1, <2>2
<1>. QED
  BY <1>1, BridgeAlways, PTL

(* Whatever the UART receives and the telnet machine answers, in buffers of *)
(* every size and through every refusal to send: who is not known to have   *)
(* lost something gets all of it, once and in order.                        *)
THEOREM NoSilentLossHolds == Spec => []NoSilentLoss
<1>1. BridgeInv => NoSilentLoss
  <2>. SUFFICES ASSUME BridgeInv, NEW i \in Open, ~client[connData[i].conn].lossy
                PROVE  client[connData[i].conn].owed = connData[i].sent \o connData[i].tx
    BY DEF NoSilentLoss
  <2>. DEFINE s == connData[i]
              h == client[s.conn]
  <2>1. h.lossy = FALSE
    <3>1. h.lossy \in BOOLEAN
      BY BundleGood DEF BridgeInv, BridgeType, Clients
    <3>. QED BY <3>1
  <2>2. Owes(Bundle(i), <<>>) /\ Bundle(i).s = s /\ Bundle(i).h = h
    BY BundleGood DEF Good
  <2>3. h.owed = (s.sent \o s.tx) \o <<>>
    BY <2>1, <2>2 DEF Owes
  <2>4. s.sent \o s.tx \in Seq(Chars)
    BY BundleGood DEF BridgeInv, BridgeType, Slots
  <2>. QED BY <2>3, <2>4, ConcatEmptySeq
<1>. QED
  BY <1>1, BridgeAlways, PTL

-----------------------------------------------------------------------------
(* What the telnet machine makes of a client's items, byte by byte *)

\* The settings are those whose command is followed by one byte.
Proper(item) == item \in Items /\ (item.kind = "setting" => item.arg \in Settings)

\* The states of the machine before each byte of an item
Course(item) ==
    CASE item.kind = "char"    -> IF item.arg = "IAC" THEN <<"normal", "iac">> ELSE <<"normal">>
      [] item.kind = "will"    -> <<"normal", "iac", "will">>
      [] item.kind = "control" -> <<"normal", "iac", "start", "comPort", "setControl", "end", "iac">>
      [] item.kind = "baud"    -> <<"normal", "iac", "start", "comPort", "setBaud", "setBaud",
                                    "setBaud", "setBaud", "end", "iac">>
      [] item.kind = "setting" -> <<"normal", "iac", "start", "comPort", item.arg, "end", "iac">>
      [] item.kind = "option"  ->
            <<"normal", "iac", "start", IF item.arg = "ComPort" THEN "comPort" ELSE "end", "end", "iac">>

\* r bytes of an item have been heard: the machine is in state t and has b
\* of a rate.
Amid(item, r, t, b) ==
    /\ r \in 0 .. Len(Course(item)) - 1 /\ t = Course(item)[r + 1]
    /\ item.kind = "baud" /\ r \in 4..7 => b = SubSeq(Rate(item.arg), 1, r - 4)

\* What has been done of it: all, once the escape that ends it is due.
Due(item, r) ==
    IF item.kind \in {"control", "baud"} /\ r + 2 >= Len(Course(item)) THEN Meant(item) ELSE <<>>

\* What the first items come to
SentBy(items) == Parts([j \in DOMAIN items |-> Sent(items[j])])
MeantBy(items) == Parts([j \in DOMAIN items |-> Meant(items[j])])

\* k bytes of items have been heard: the machine is in state t, has b of a
\* rate, and has done what those bytes mean.
At(items, k, t, b, done) ==
    \/ k = Len(SentBy(items)[Len(items)]) /\ t = "normal" /\ done = MeantBy(items)[Len(items)]
    \/ \E j \in 1..Len(items) : \E r \in 0..k :
          /\ k = Len(SentBy(items)[j - 1]) + r
          /\ Amid(items[j], r, t, b) /\ done = MeantBy(items)[j - 1] \o Due(items[j], r)

\* What has been made of what the client h of slot s, with items to say, has
\* said, of which k bytes have been heard
Understood(items, k, s, h, b) ==
    LET says == SentBy(items)[Len(items)]
    IN  /\ k \in 0..Len(says) /\ h.unread = SubSeq(says, k + 1, Len(says))
        /\ s.mode \in {"init", "pgmInit"} => k = 0 /\ h.done = <<>> /\ s.telnet = "normal"
        /\ s.mode = "transparent" => h.done = [j \in 1..k |-> <<says[j]>>]
        /\ s.mode = "telnet" => At(items, k, s.telnet, b, h.done)

Understands ==
    \A i \in Open :
        /\ connData[i].conn \in load.clients
        /\ \E k \in 0..Len(Says(connData[i].conn)) :
              Understood(load.says[connData[i].conn], k, connData[i], client[connData[i].conn], baud)

\* Clients say what the protocol has, and one of them at most sets a rate:
\* the bytes of a rate are kept where all connections keep them.
SetsRate(l, c) == \E j \in DOMAIN l.says[c] : l.says[c][j].kind = "baud"
OneRate ==
    \A l \in Loads :
        /\ \A c \in l.clients : \A j \in DOMAIN l.says[c] : Proper(l.says[c][j])
        /\ \A c, d \in l.clients : SetsRate(l, c) /\ SetsRate(l, d) => c = d

-----------------------------------------------------------------------------
(* One byte *)

\* v is m in state t.
Moves(m, v, t) == v.state = t /\ v.out = m.out /\ v.baud = m.baud
\* ... and has done something.
Acts(m, v, t, what) == v.state = t /\ v.out = Append(m.out, what) /\ v.baud = m.baud

LEMMA EditParts ==
    ASSUME NEW m \in Machine, NEW t, NEW what, NEW bytes
    PROVE  /\ Moves(m, [m EXCEPT !.state = t], t)
           /\ Moves(m, Answers([m EXCEPT !.state = t], bytes), t)
           /\ Acts(m, Does([m EXCEPT !.state = t], what), t, what)
           /\ Acts(m, Does(m, what), m.state, what)
           /\ Moves(m, m, m.state)
BY DEF Machine, Moves, Acts, Does, Answers

\* Where nothing is collected or done
LEMMA PlainSteps ==
    ASSUME NEW m \in Machine, NEW c \in Bytes
    PROVE  LET v == telnetChar(m, c)
           IN  /\ m.state = "normal" => IF c = "IAC" THEN Moves(m, v, "iac") ELSE Acts(m, v, "normal", <<c>>)
               /\ m.state = "iac" =>
                     /\ c = "IAC"  => Acts(m, v, "normal", <<c>>)
                     /\ c = "WILL" => Moves(m, v, "will")
                     /\ c = "SB"   => Moves(m, v, "start")
                     /\ c = "SE"   => Moves(m, v, "normal")
               /\ m.state = "will" => Moves(m, v, "normal")
               /\ m.state = "start" => Moves(m, v, IF c = "ComPort" THEN "comPort" ELSE "end")
               /\ m.state = "end" => Moves(m, v, IF c = "IAC" THEN "iac" ELSE "end")
               /\ m.state \in Settings => Moves(m, v, "end")
<1>. DEFINE v == telnetChar(m, c)
<1>1. CASE m.state = "normal"
  <2>1. v = Normal(m, c)
    BY <1>1 DEF telnetChar, Settings
  <2>. HIDE DEF v
  <2>2. IF c = "IAC" THEN Moves(m, v, "iac") ELSE Acts(m, v, "normal", <<c>>)
    BY <1>1, <2>1, EditParts DEF Normal
  <2>. QED BY <1>1, <2>2 DEF Settings, v
<1>2. CASE m.state = "iac"
  <2>1. v = AfterIac(m, c)
    BY <1>2 DEF telnetChar, Settings
  <2>. HIDE DEF v
  <2>2. /\ c = "IAC"  => Acts(m, v, "normal", <<c>>)
        /\ c = "WILL" => Moves(m, v, "will")
        /\ c = "SB"   => Moves(m, v, "start")
        /\ c = "SE"   => Moves(m, v, "normal")
    BY <2>1, EditParts DEF AfterIac
  <2>. QED BY <1>2, <2>2 DEF Settings, v
<1>3. CASE m.state = "will"
  <2>1. v = AfterWill(m, c)
    BY <1>3 DEF telnetChar, Settings
  <2>. HIDE DEF v
  <2>2. Moves(m, v, "normal")
    BY <2>1, EditParts DEF AfterWill
  <2>. QED BY <1>3, <2>2 DEF Settings, v
<1>4. CASE m.state = "start"
  <2>1. v = [m EXCEPT !.state = IF c = "ComPort" THEN "comPort" ELSE "end"]
    BY <1>4 DEF telnetChar, Settings
  <2>. HIDE DEF v
  <2>2. Moves(m, v, IF c = "ComPort" THEN "comPort" ELSE "end")
    BY <2>1, EditParts
  <2>. QED BY <1>4, <2>2 DEF Settings, v
<1>5. CASE m.state = "end"
  <2>1. v = IF c = "IAC" THEN [m EXCEPT !.state = "iac"] ELSE m
    BY <1>5 DEF telnetChar, Settings
  <2>. HIDE DEF v
  <2>2. Moves(m, v, IF c = "IAC" THEN "iac" ELSE "end")
    BY <1>5, <2>1, EditParts
  <2>. QED BY <1>5, <2>2 DEF Settings, v
<1>6. CASE m.state \in Settings
  <2>1. v = Setting(m, c)
    BY <1>6 DEF telnetChar, Settings
  <2>. HIDE DEF v
  <2>2. Moves(m, v, "end")
    BY <2>1, EditParts DEF Setting
  <2>. QED BY <1>6, <2>2 DEF Settings, v
<1>. QED
  BY <1>1, <1>2, <1>3, <1>4, <1>5, <1>6

LEMMA ComPortStep ==
    ASSUME NEW m \in Machine, NEW c \in Bytes, m.state = "comPort"
    PROVE  LET v == telnetChar(m, c)
           IN  /\ c = "SetControl" => Moves(m, v, "setControl")
               /\ c = "SetBaud" => v.state = "setBaud" /\ v.out = m.out /\ v.baud = <<>>
               /\ c \in Settings => Moves(m, v, c)
               /\ c \notin Settings \cup {"SetControl", "SetBaud"} => Moves(m, v, "end")
<1>. DEFINE v == telnetChar(m, c)
<1>1. v = ComPort(m, c)
  BY DEF telnetChar, Settings
<1>. HIDE DEF v
<1>2. c = "SetControl" => Moves(m, v, "setControl")
  BY <1>1, EditParts DEF ComPort, Settings
<1>3. c = "SetBaud" => v.state = "setBaud" /\ v.out = m.out /\ v.baud = <<>>
  BY <1>1 DEF ComPort, Machine, Settings
<1>4. c \in Settings => Moves(m, v, c)
  BY <1>1, EditParts DEF ComPort, Settings
<1>5. c \notin Settings \cup {"SetControl", "SetBaud"} => Moves(m, v, "end")
  BY <1>1, EditParts DEF ComPort, Settings
<1>. QED
  BY <1>2, <1>3, <1>4, <1>5 DEF v

LEMMA ControlStep ==
    ASSUME NEW m \in Machine, NEW c \in Bytes, m.state = "setControl"
    PROVE  LET v == telnetChar(m, c)
           IN  IF c \in Commands THEN Acts(m, v, "end", <<c>>) ELSE Moves(m, v, "end")
<1>. DEFINE n == CASE c = "RTS_ON"  -> (m.flashing + 1) % (FlashingMax + 1)
                   [] c = "RTS_OFF" -> IF m.flashing > 0 THEN m.flashing - 1 ELSE 0
                   [] OTHER         -> m.flashing
            p == CASE c = "DTR_ON"  -> [m.pins EXCEPT !.reset = 0]
                   [] c = "DTR_OFF" -> [m.pins EXCEPT !.reset = 1]
                   [] c = "RTS_ON"  -> [m.pins EXCEPT !.isp = 0]
                   [] c = "RTS_OFF" -> [m.pins EXCEPT !.isp = 1]
                   [] OTHER         -> m.pins
            q == [m EXCEPT !.state = "end", !.flashing = n, !.pins = p]
            v == telnetChar(m, c)
<1>1. v = SetControl(m, c)
  BY DEF telnetChar, Settings
<1>2. SetControl(m, c) = CASE c \in Commands -> Does(q, <<c>>)
          [] c = "BRK_REQ"  -> Answers(q, <<"IAC", "SB", "ComPort", c, "value", "IAC", "SE">>)
          [] OTHER          -> q
  BY DEF SetControl
<1>. HIDE DEF n, p, v
<1>3. Moves(m, q, "end") /\ Acts(m, Does(q, <<c>>), "end", <<c>>)
      /\ \A w : Moves(m, Answers(q, w), "end")
  BY DEF Machine, Moves, Acts, Does, Answers
<1>. HIDE DEF q
<1>4. "BRK_REQ" \notin Commands
  BY DEF Commands
<1>5. CASE c \in Commands
  BY <1>1, <1>2, <1>3, <1>4, <1>5 DEF v
<1>6. CASE c \notin Commands
  BY <1>1, <1>2, <1>3, <1>6 DEF v
<1>. QED
  BY <1>5, <1>6

\* c is one more byte of a rate.
Collects(m, c, v) ==
    /\ v.baud = Append(m.baud, c)
    /\ Len(m.baud) < 3 => v.state = "setBaud" /\ v.out = m.out
    /\ Len(m.baud) = 3 =>
          /\ v.state = "end"
          /\ v.out = IF m.baud[1] \in {"bad", "zero"} THEN m.out ELSE Append(m.out, Append(m.baud, c))

LEMMA BaudStep ==
    ASSUME NEW m \in Machine, NEW c \in Bytes, m.state = "setBaud"
    PROVE  Collects(m, c, telnetChar(m, c))
<1>. DEFINE rate == Append(m.baud, c)
            q    == [m EXCEPT !.baud = rate]
            done == [q EXCEPT !.state = "end"]
            a    == <<"IAC", "SB", "ComPort", "SetDataSize">> \o rate \o <<"IAC", "SE">>
            v    == telnetChar(m, c)
<1>. SUFFICES Collects(m, c, v)
  OBVIOUS
<1>1. v = SetBaud(m, c)
  BY DEF telnetChar, Settings
<1>2. SetBaud(m, c) =
         CASE Len(rate) < 4                      -> q
           [] Len(rate) >= 4 /\ rate[1] = "bad"  -> done
           [] Len(rate) >= 4 /\ rate[1] = "zero" -> Answers(done, a)
           [] OTHER                              -> Does(done, rate)
  BY DEF SetBaud
<1>3. Len(rate) = Len(m.baud) + 1 /\ (Len(m.baud) = 3 => rate[1] = m.baud[1]) /\ Len(m.baud) \in Nat
  BY DEF Machine
<1>0. rate = Append(m.baud, c)
  OBVIOUS
<1>. HIDE DEF rate, a, v
<1>4. /\ q.baud = rate /\ q.state = m.state /\ q.out = m.out
      /\ done.baud = rate /\ done.state = "end" /\ done.out = m.out
      /\ Answers(done, a).baud = rate /\ Answers(done, a).state = "end" /\ Answers(done, a).out = m.out
      /\ Does(done, rate).baud = rate /\ Does(done, rate).state = "end"
      /\ Does(done, rate).out = Append(m.out, rate)
  BY DEF Machine, Answers, Does
<1>. HIDE DEF q, done
<1>5. CASE Len(m.baud) < 3
  <2>. DEFINE k == Len(m.baud)
              l == Len(rate)
  <2>1. l < 4 /\ ~(l >= 4) /\ ~(k = 3)
    <3>1. l = k + 1 /\ k \in Nat /\ k < 3
      BY <1>3, <1>5
    <3>. HIDE DEF k, l
    <3>. QED BY <3>1
  <2>2. v = q
    BY <1>1, <1>2, <2>1
  <2>. QED BY <1>0, <1>4, <2>1, <2>2 DEF Collects
<1>6. CASE Len(m.baud) >= 3
  <2>1. ~(Len(rate) < 4) /\ Len(rate) >= 4 /\ ~(Len(m.baud) < 3)
    BY <1>3, <1>6
  <2>2. /\ rate[1] = "bad" => v = done
        /\ rate[1] = "zero" => v = Answers(done, a)
        /\ rate[1] \notin {"bad", "zero"} => v = Does(done, rate)
    BY <1>1, <1>2, <2>1
  <2>3. v.baud = rate /\ v.state = "end"
        /\ v.out = IF rate[1] \in {"bad", "zero"} THEN m.out ELSE Append(m.out, rate)
    BY <1>4, <2>2
  <2>. QED BY <1>0, <1>3, <2>1, <2>3 DEF Collects
<1>. QED
  BY <1>3, <1>5, <1>6

-----------------------------------------------------------------------------
(* One byte of an item *)

\* u is s, of m elements, and then t, of n elements.
Joins(s, t, u, m, n) ==
    /\ Len(u) = m + n
    /\ \A k \in 1..m : u[k] = s[k]
    /\ \A k \in m + 1 .. m + n : u[k] = t[k - m]

LEMMA Joined ==
    \A T : \A s, t \in Seq(T) : s \o t \in Seq(T) /\ Joins(s, t, s \o t, Len(s), Len(t))
BY DEF Joins

\* u is w, of n elements, between the escapes of a command.
Wraps(w, u, n) ==
    /\ Len(u) = n + 4 /\ u[1] = "IAC" /\ u[2] = "SB"
    /\ \A k \in 3..n + 2 : u[k] = w[k - 2]
    /\ u[n + 3] = "IAC" /\ u[n + 4] = "SE"

LEMMA SubParts ==
    ASSUME NEW S, NEW w \in Seq(S)
    PROVE  Wraps(w, Sub(w), Len(w))
<1>. DEFINE T == S \cup {"IAC", "SB", "SE"}
            h == <<"IAC", "SB">>
            e == <<"IAC", "SE">>
            u == h \o w
            v == u \o e
            n == Len(w)
<1>. SUFFICES Wraps(w, Sub(w), n)
  OBVIOUS
<1>0. n \in Nat
  OBVIOUS
<1>1. h \in Seq(T) /\ e \in Seq(T)
  OBVIOUS
<1>2. Len(h) = 2 /\ Len(e) = 2 /\ h[1] = "IAC" /\ h[2] = "SB" /\ e[1] = "IAC" /\ e[2] = "SE"
  OBVIOUS
<1>3. w \in Seq(T)
  BY SeqMonotonic
<1>4. Sub(w) = v
  BY DEF Sub
<1>. HIDE DEF T, h, e
<1>5. u \in Seq(T) /\ Joins(h, w, u, Len(h), Len(w))
  BY <1>1, <1>3, Joined, Zenon
<1>6. Joins(h, w, u, 2, n)
  BY <1>2, <1>5
<1>. HIDE DEF n
<1>. HIDE DEF u
<1>7. Len(u) = 2 + n
  BY <1>0, <1>6 DEF Joins
<1>8. Joins(u, e, v, Len(u), Len(e))
  BY <1>1, <1>5, Joined, Zenon
<1>9. Joins(u, e, v, 2 + n, 2)
  BY <1>2, <1>7, <1>8
<1>. HIDE DEF v
<1>10. Len(v) = n + 4 /\ v[n + 3] = e[1] /\ v[n + 4] = e[2] /\ \A k \in 1..2 + n : v[k] = u[k]
  BY <1>0, <1>9 DEF Joins
<1>11. u[1] = h[1] /\ u[2] = h[2] /\ \A k \in 3..n + 2 : u[k] = w[k - 2]
  BY <1>0, <1>6 DEF Joins
<1>12. v[1] = h[1] /\ v[2] = h[2] /\ \A k \in 3..n + 2 : v[k] = w[k - 2]
  BY <1>0, <1>10, <1>11
<1>. QED
  BY <1>0, <1>2, <1>4, <1>10, <1>12 DEF Wraps

\* The bytes of each kind of item
LEMMA CharSpelled ==
    ASSUME NEW item, item.kind = "char"
    PROVE  Sent(item) = IF item.arg = "IAC" THEN <<"IAC", "IAC">> ELSE <<item.arg>>
BY DEF Sent

LEMMA WillSpelled ==
    ASSUME NEW item, item.kind = "will"
    PROVE  Sent(item) = <<"IAC", "WILL", item.arg>>
BY DEF Sent

LEMMA OptionSpelled ==
    ASSUME NEW item, item.kind = "option"
    PROVE  LET w == Sent(item)
           IN  /\ Len(w) = 6 /\ w[1] = "IAC" /\ w[2] = "SB" /\ w[3] = item.arg /\ w[4] = "x"
               /\ w[5] = "IAC" /\ w[6] = "SE"
<1>. DEFINE w == <<item.arg, "x">>
<1>1. w \in Seq({item.arg, "x"}) /\ Len(w) = 2 /\ w[1] = item.arg /\ w[2] = "x"
  OBVIOUS
<1>2. Sent(item) = Sub(w)
  BY DEF Sent
<1>. HIDE DEF w
<1>3. /\ Len(Sub(w)) = 6 /\ Sub(w)[1] = "IAC" /\ Sub(w)[2] = "SB" /\ Sub(w)[3] = w[1]
      /\ Sub(w)[4] = w[2] /\ Sub(w)[5] = "IAC" /\ Sub(w)[6] = "SE"
  <2>1. Wraps(w, Sub(w), Len(w))
    BY <1>1, SubParts, Zenon
  <2>2. Wraps(w, Sub(w), 2)
    BY <1>1, <2>1
  <2>. QED BY <2>2 DEF Wraps
<1>. QED
  BY <1>1, <1>2, <1>3

LEMMA SettingSpelled ==
    ASSUME NEW item, item.kind \in {"setting", "control"}
    PROVE  LET w == Sent(item)
           IN  /\ Len(w) = 7 /\ w[1] = "IAC" /\ w[2] = "SB" /\ w[3] = "ComPort"
               /\ item.kind = "setting" => w[4] = item.arg /\ w[5] = "zero"
               /\ item.kind = "control" => w[4] = "SetControl" /\ w[5] = item.arg
               /\ w[6] = "IAC" /\ w[7] = "SE"
<1>. DEFINE w == IF item.kind = "setting" THEN <<"ComPort", item.arg, "zero">>
                 ELSE <<"ComPort", "SetControl", item.arg>>
<1>1. /\ w \in Seq({item.arg, "ComPort", "zero", "SetControl"}) /\ Len(w) = 3 /\ w[1] = "ComPort"
      /\ item.kind = "setting" => w[2] = item.arg /\ w[3] = "zero"
      /\ item.kind = "control" => w[2] = "SetControl" /\ w[3] = item.arg
  <2>. DEFINE S == {item.arg, "ComPort", "zero", "SetControl"}
              a == item.arg
  <2>1. /\ <<"ComPort", a, "zero">> \in Seq(S) /\ <<"ComPort", "SetControl", a>> \in Seq(S)
        /\ Len(<<"ComPort", a, "zero">>) = 3 /\ Len(<<"ComPort", "SetControl", a>>) = 3
    OBVIOUS
  <2>2. CASE item.kind = "setting"
    <3>1. w = <<"ComPort", a, "zero">>
      BY <2>2
    <3>. QED BY <2>1, <2>2, <3>1
  <2>3. CASE item.kind = "control"
    <3>1. w = <<"ComPort", "SetControl", a>>
      BY <2>3
    <3>. QED BY <2>1, <2>3, <3>1
  <2>. QED BY <2>2, <2>3
<1>2. Sent(item) = Sub(w)
  BY DEF Sent
<1>. HIDE DEF w
<1>3. /\ Len(Sub(w)) = 7 /\ Sub(w)[1] = "IAC" /\ Sub(w)[2] = "SB" /\ Sub(w)[3] = w[1]
      /\ Sub(w)[4] = w[2] /\ Sub(w)[5] = w[3]
      /\ Sub(w)[6] = "IAC" /\ Sub(w)[7] = "SE"
  <2>1. Wraps(w, Sub(w), Len(w))
    BY <1>1, SubParts, Zenon
  <2>2. Wraps(w, Sub(w), 3)
    BY <1>1, <2>1
  <2>. QED BY <2>2 DEF Wraps
<1>. QED
  BY <1>1, <1>2, <1>3

LEMMA BaudSpelled ==
    ASSUME NEW item, item.kind = "baud"
    PROVE  LET w == Sent(item)
           IN  /\ Len(w) = 10 /\ w[1] = "IAC" /\ w[2] = "SB" /\ w[3] = "ComPort" /\ w[4] = "SetBaud"
               /\ w[5] = item.arg /\ w[6] = "hi" /\ w[7] = "mid" /\ w[8] = "lo"
               /\ w[9] = "IAC" /\ w[10] = "SE"
<1>. DEFINE S == {item.arg, "ComPort", "SetBaud", "hi", "mid", "lo"}
            w == <<"ComPort", "SetBaud">> \o Rate(item.arg)
<1>1. /\ w \in Seq(S) /\ Len(w) = 6 /\ w[1] = "ComPort" /\ w[2] = "SetBaud"
      /\ w[3] = item.arg /\ w[4] = "hi" /\ w[5] = "mid" /\ w[6] = "lo"
  <2>. DEFINE u == <<"ComPort", "SetBaud">>
              v == Rate(item.arg)
  <2>1. u \in Seq(S) /\ Len(u) = 2 /\ u[1] = "ComPort" /\ u[2] = "SetBaud"
    OBVIOUS
  <2>2. /\ v \in Seq(S) /\ Len(v) = 4 /\ v[1] = item.arg /\ v[2] = "hi" /\ v[3] = "mid" /\ v[4] = "lo"
    BY DEF Rate
  <2>. HIDE DEF u, v, S
  <2>3. /\ u \o v \in Seq(S) /\ Len(u \o v) = 6 /\ (u \o v)[1] = u[1] /\ (u \o v)[2] = u[2]
        /\ (u \o v)[3] = v[1] /\ (u \o v)[4] = v[2] /\ (u \o v)[5] = v[3] /\ (u \o v)[6] = v[4]
    <3>1. u \o v \in Seq(S) /\ Joins(u, v, u \o v, Len(u), Len(v))
      BY <2>1, <2>2, Joined, Zenon
    <3>2. Joins(u, v, u \o v, 2, 4)
      BY <2>1, <2>2, <3>1
    <3>. QED BY <3>1, <3>2 DEF Joins
  <2>. QED BY <2>1, <2>2, <2>3 DEF u, v
<1>2. Sent(item) = Sub(w)
  BY DEF Sent
<1>. HIDE DEF w, S
<1>3. /\ Len(Sub(w)) = 10 /\ Sub(w)[1] = "IAC" /\ Sub(w)[2] = "SB" /\ Sub(w)[3] = w[1]
      /\ Sub(w)[4] = w[2] /\ Sub(w)[5] = w[3] /\ Sub(w)[6] = w[4]
      /\ Sub(w)[7] = w[5] /\ Sub(w)[8] = w[6]
      /\ Sub(w)[9] = "IAC" /\ Sub(w)[10] = "SE"
  <2>1. Wraps(w, Sub(w), Len(w))
    BY <1>1, SubParts, Zenon
  <2>2. Wraps(w, Sub(w), 6)
    BY <1>1, <2>1
  <2>. QED BY <2>2 DEF Wraps
<1>. QED
  BY <1>1, <1>2, <1>3

\* What the item means has been done of it by the machine m, after d.
Does1(item, r, m, d) == Amid(item, r, m.state, m.baud) /\ m.out = d \o Due(item, r)
\* v is m one byte later.
Proceeds(item, r, m, v, d) ==
    LET n == Len(Course(item)) IN
    /\ r + 1 < n => Does1(item, r + 1, v, d)
    /\ r + 1 = n => v.state = "normal" /\ v.out = d \o Meant(item)
    /\ item.kind # "baud" => v.baud = m.baud

LEMMA DonePlus ==
    ASSUME NEW d \in Seq(Seq(Deeds)), NEW what
    PROVE  Append(d, what) = d \o <<what>> /\ d \o <<>> = d
OBVIOUS

LEMMA CharProceeds ==
    ASSUME NEW item, Proper(item), item.kind = "char", NEW r, NEW m \in Machine,
           NEW d \in Seq(Seq(Deeds)), Does1(item, r, m, d)
    PROVE  Proceeds(item, r, m, telnetChar(m, Sent(item)[r + 1]), d)
<1>. DEFINE a == item.arg
            c == Sent(item)[r + 1]
            v == telnetChar(m, c)
<1>. SUFFICES Proceeds(item, r, m, v, d)
  OBVIOUS
<1>1. Due(item, r) = <<>> /\ Due(item, r + 1) = <<>> /\ Meant(item) = <<<<a>>>>
  BY DEF Due, Meant
<1>2. a \in Bytes /\ "IAC" \in Bytes
  BY MacroBytes DEF Proper, Items, Macros
<1>3. m.out = d
  BY <1>1, DonePlus DEF Does1
<1>4. CASE a # "IAC"
  <2>1. Course(item) = <<"normal">> /\ Sent(item) = <<a>>
    BY <1>4, CharSpelled DEF Course
  <2>2. Len(Course(item)) = 1 /\ r = 0 /\ m.state = "normal"
    BY <2>1 DEF Does1, Amid
  <2>3. c = a
    BY <2>1, <2>2
  <2>4. Acts(m, v, "normal", <<a>>)
    BY <1>2, <1>4, <2>2, <2>3, PlainSteps
  <2>. HIDE DEF v
  <2>. QED BY <1>1, <1>3, <2>2, <2>4, DonePlus DEF Proceeds, Acts
<1>5. CASE a = "IAC"
  <2>1. Course(item) = <<"normal", "iac">> /\ Sent(item) = <<"IAC", "IAC">>
    BY <1>5, CharSpelled DEF Course
  <2>2. Len(Course(item)) = 2 /\ r \in 0..1
    BY <2>1 DEF Does1, Amid
  <2>3. CASE r = 0
    <3>1. c = "IAC" /\ m.state = "normal" /\ Course(item)[2] = "iac"
      BY <2>1, <2>3 DEF Does1, Amid
    <3>2. Moves(m, v, "iac")
      BY <1>2, <3>1, PlainSteps
    <3>. HIDE DEF v
    <3>3. Amid(item, 1, v.state, v.baud)
      BY <2>2, <3>1, <3>2 DEF Amid, Moves
    <3>. QED BY <1>1, <1>3, <2>2, <2>3, <3>2, <3>3, DonePlus DEF Proceeds, Moves, Does1
  <2>4. CASE r = 1
    <3>1. c = "IAC" /\ m.state = "iac"
      BY <2>1, <2>4 DEF Does1, Amid
    <3>2. Acts(m, v, "normal", <<a>>)
      BY <1>2, <1>5, <3>1, PlainSteps
    <3>. HIDE DEF v
    <3>. QED BY <1>1, <1>3, <2>2, <2>4, <3>2, DonePlus DEF Proceeds, Acts
  <2>. QED BY <2>2, <2>3, <2>4
<1>. QED
  BY <1>4, <1>5

\* The machine's states along each kind of item
LEMMA ShortCourses ==
    ASSUME NEW item
    PROVE  LET w == Course(item)
           IN  /\ item.kind = "will" => Len(w) = 3 /\ w[1] = "normal" /\ w[2] = "iac" /\ w[3] = "will"
               /\ item.kind = "option" =>
                     /\ Len(w) = 6 /\ w[1] = "normal" /\ w[2] = "iac" /\ w[3] = "start"
                     /\ w[4] = IF item.arg = "ComPort" THEN "comPort" ELSE "end"
                     /\ w[5] = "end" /\ w[6] = "iac"
               /\ item.kind \in {"setting", "control"} =>
                     /\ Len(w) = 7 /\ w[1] = "normal" /\ w[2] = "iac" /\ w[3] = "start"
                     /\ w[4] = "comPort"
                     /\ w[5] = IF item.kind = "setting" THEN item.arg ELSE "setControl"
                     /\ w[6] = "end" /\ w[7] = "iac"
<1>1. CASE item.kind = "will"
  <2>1. Course(item) = <<"normal", "iac", "will">>
    BY <1>1 DEF Course
  <2>. QED BY <1>1, <2>1
<1>2. CASE item.kind = "option"
  <2>. DEFINE t == IF item.arg = "ComPort" THEN "comPort" ELSE "end"
  <2>1. Course(item) = <<"normal", "iac", "start", t, "end", "iac">>
    BY <1>2 DEF Course
  <2>. HIDE DEF t
  <2>2. Len(Course(item)) = 6 /\ Course(item)[1] = "normal" /\ Course(item)[2] = "iac"
        /\ Course(item)[3] = "start" /\ Course(item)[4] = t /\ Course(item)[5] = "end"
        /\ Course(item)[6] = "iac"
    BY <2>1
  <2>. QED BY <1>2, <2>2 DEF t
<1>3. CASE item.kind \in {"setting", "control"}
  <2>. DEFINE t == IF item.kind = "setting" THEN item.arg ELSE "setControl"
  <2>1. Course(item) = <<"normal", "iac", "start", "comPort", t, "end", "iac">>
    BY <1>3 DEF Course
  <2>. HIDE DEF t
  <2>2. Len(Course(item)) = 7 /\ Course(item)[1] = "normal" /\ Course(item)[2] = "iac"
        /\ Course(item)[3] = "start" /\ Course(item)[4] = "comPort" /\ Course(item)[5] = t
        /\ Course(item)[6] = "end" /\ Course(item)[7] = "iac"
    BY <2>1
  <2>. QED BY <1>3, <2>2 DEF t
<1>4. CASE item.kind \notin {"will", "option", "setting", "control"}
  BY <1>4
<1>. QED
  BY <1>1, <1>2, <1>3, <1>4

LEMMA BaudCourse ==
    ASSUME NEW item, item.kind = "baud"
    PROVE  LET w == Course(item)
           IN  /\ Len(w) = 10 /\ w[1] = "normal" /\ w[2] = "iac" /\ w[3] = "start" /\ w[4] = "comPort"
               /\ w[5] = "setBaud" /\ w[6] = "setBaud" /\ w[7] = "setBaud" /\ w[8] = "setBaud"
               /\ w[9] = "end" /\ w[10] = "iac"
<1>1. Course(item) = <<"normal", "iac", "start", "comPort", "setBaud", "setBaud",
                       "setBaud", "setBaud", "end", "iac">>
  BY DEF Course
<1>. QED
  BY <1>1

\* A byte that brings an item further and does nothing
Quiet(item, r, m, v) ==
    /\ item.kind # "baud" /\ r \in Nat /\ r + 1 < Len(Course(item))
    /\ Moves(m, v, Course(item)[r + 2]) /\ Due(item, r + 1) = Due(item, r)

\* The last byte of an item
Completes(item, r, m, v) ==
    /\ Len(Course(item)) = r + 1 /\ r \in Nat
    /\ Moves(m, v, "normal") /\ Due(item, r) = Meant(item)

LEMMA QuietStep ==
    \A item, r, m, v, d :
        Does1(item, r, m, d) /\ (Quiet(item, r, m, v) \/ Completes(item, r, m, v))
           => Proceeds(item, r, m, v, d)
<1>. SUFFICES ASSUME NEW item, NEW r, NEW m, NEW v, NEW d, Does1(item, r, m, d),
                     Quiet(item, r, m, v) \/ Completes(item, r, m, v)
              PROVE  Proceeds(item, r, m, v, d)
  OBVIOUS
<1>1. CASE Quiet(item, r, m, v)
  <2>. DEFINE n == Len(Course(item))
  <2>1. r + 1 \in 0..n - 1 /\ ~(r + 1 = n) /\ (r + 1) + 1 = r + 2
    BY <1>1 DEF Quiet, Does1, Amid
  <2>2. Amid(item, r + 1, v.state, v.baud)
    BY <1>1, <2>1 DEF Quiet, Amid, Moves
  <2>. QED BY <1>1, <2>1, <2>2 DEF Proceeds, Moves, Does1, Quiet
<1>2. CASE Completes(item, r, m, v)
  BY <1>2 DEF Proceeds, Moves, Does1, Completes
<1>. QED
  BY <1>1, <1>2

LEMMA WillProceeds ==
    ASSUME NEW item, Proper(item), item.kind = "will", NEW r, NEW m \in Machine,
           NEW d \in Seq(Seq(Deeds)), Does1(item, r, m, d)
    PROVE  Proceeds(item, r, m, telnetChar(m, Sent(item)[r + 1]), d)
<1>. DEFINE a == item.arg
            c == Sent(item)[r + 1]
            v == telnetChar(m, c)
            w == Course(item)
<1>. SUFFICES Proceeds(item, r, m, v, d)
  OBVIOUS
<1>1. Due(item, r) = <<>> /\ Due(item, r + 1) = <<>> /\ Meant(item) = <<>>
  BY DEF Due, Meant
<1>2. a \in Bytes /\ "IAC" \in Bytes /\ "WILL" \in Bytes
  BY MacroBytes DEF Proper, Items, Macros
<1>3. Sent(item) = <<"IAC", "WILL", a>>
  BY WillSpelled
<1>4. Len(w) = 3 /\ w[1] = "normal" /\ w[2] = "iac" /\ w[3] = "will"
  BY ShortCourses
<1>5. r \in 0..2 /\ m.state = w[r + 1]
  BY <1>4 DEF Does1, Amid
<1>6. CASE r = 0
  <2>1. c = "IAC" /\ m.state = "normal"
    BY <1>3, <1>4, <1>5, <1>6
  <2>2. Moves(m, v, "iac")
    BY <1>2, <2>1, PlainSteps
  <2>. HIDE DEF v
  <2>3. Quiet(item, r, m, v)
    BY <1>1, <1>4, <1>6, <2>2 DEF Quiet
  <2>. QED BY <2>3, QuietStep, Zenon
<1>7. CASE r = 1
  <2>1. c = "WILL" /\ m.state = "iac"
    BY <1>3, <1>4, <1>5, <1>7
  <2>2. Moves(m, v, "will")
    BY <1>2, <2>1, PlainSteps
  <2>. HIDE DEF v
  <2>3. Quiet(item, r, m, v)
    BY <1>1, <1>4, <1>7, <2>2 DEF Quiet
  <2>. QED BY <2>3, QuietStep, Zenon
<1>8. CASE r = 2
  <2>1. c = a /\ m.state = "will"
    BY <1>3, <1>4, <1>5, <1>8
  <2>2. Moves(m, v, "normal")
    BY <1>2, <2>1, PlainSteps
  <2>. HIDE DEF v
  <2>3. Completes(item, r, m, v)
    BY <1>1, <1>4, <1>8, <2>2 DEF Completes
  <2>. QED BY <2>3, QuietStep, Zenon
<1>. QED
  BY <1>5, <1>6, <1>7, <1>8

LEMMA OptionProceeds ==
    ASSUME NEW item, Proper(item), item.kind = "option", NEW r, NEW m \in Machine,
           NEW d \in Seq(Seq(Deeds)), Does1(item, r, m, d)
    PROVE  Proceeds(item, r, m, telnetChar(m, Sent(item)[r + 1]), d)
<1>. DEFINE a == item.arg
            u == Sent(item)
            c == u[r + 1]
            v == telnetChar(m, c)
            w == Course(item)
<1>. SUFFICES Proceeds(item, r, m, v, d)
  OBVIOUS
<1>1. Due(item, r) = <<>> /\ Due(item, r + 1) = <<>> /\ Meant(item) = <<>>
  BY DEF Due, Meant
<1>2. /\ a \in Bytes /\ "IAC" \in Bytes /\ "SB" \in Bytes /\ "SE" \in Bytes /\ "x" \in Bytes
      /\ "x" \notin Settings \cup {"SetControl", "SetBaud"}
  BY MacroBytes DEF Proper, Items, Macros, Settings
<1>3. Len(u) = 6 /\ u[1] = "IAC" /\ u[2] = "SB" /\ u[3] = a /\ u[4] = "x" /\ u[5] = "IAC" /\ u[6] = "SE"
  BY OptionSpelled
<1>4. /\ Len(w) = 6 /\ w[1] = "normal" /\ w[2] = "iac" /\ w[3] = "start"
      /\ w[4] = IF a = "ComPort" THEN "comPort" ELSE "end"
      /\ w[5] = "end" /\ w[6] = "iac"
  BY ShortCourses
<1>5. r \in 0..5 /\ m.state = w[r + 1]
  BY <1>4 DEF Does1, Amid
<1>6. CASE r = 0
  <2>1. c = "IAC" /\ m.state = "normal"
    BY <1>3, <1>4, <1>5, <1>6
  <2>2. Moves(m, v, "iac")
    BY <1>2, <2>1, PlainSteps
  <2>. HIDE DEF v
  <2>3. Quiet(item, r, m, v)
    BY <1>1, <1>4, <1>6, <2>2 DEF Quiet
  <2>. QED BY <2>3, QuietStep, Zenon
<1>7. CASE r = 1
  <2>1. c = "SB" /\ m.state = "iac"
    BY <1>3, <1>4, <1>5, <1>7
  <2>2. Moves(m, v, "start")
    BY <1>2, <2>1, PlainSteps
  <2>. HIDE DEF v
  <2>3. Quiet(item, r, m, v)
    BY <1>1, <1>4, <1>7, <2>2 DEF Quiet
  <2>. QED BY <2>3, QuietStep, Zenon
<1>8. CASE r = 2
  <2>1. c = a /\ m.state = "start"
    BY <1>3, <1>4, <1>5, <1>8
  <2>2. Moves(m, v, IF a = "ComPort" THEN "comPort" ELSE "end")
    BY <1>2, <2>1, PlainSteps
  <2>. HIDE DEF v
  <2>3. Quiet(item, r, m, v)
    BY <1>1, <1>4, <1>8, <2>2 DEF Quiet
  <2>. QED BY <2>3, QuietStep, Zenon
<1>9. CASE r = 3
  <2>1. c = "x" /\ m.state = (IF a = "ComPort" THEN "comPort" ELSE "end")
    BY <1>3, <1>4, <1>5, <1>9
  <2>2. Moves(m, v, "end")
    BY <1>2, <2>1, PlainSteps, ComPortStep
  <2>. HIDE DEF v
  <2>3. Quiet(item, r, m, v)
    BY <1>1, <1>4, <1>9, <2>2 DEF Quiet
  <2>. QED BY <2>3, QuietStep, Zenon
<1>10. CASE r = 4
  <2>1. c = "IAC" /\ m.state = "end"
    BY <1>3, <1>4, <1>5, <1>10
  <2>2. Moves(m, v, "iac")
    BY <1>2, <2>1, PlainSteps
  <2>. HIDE DEF v
  <2>3. Quiet(item, r, m, v)
    BY <1>1, <1>4, <1>10, <2>2 DEF Quiet
  <2>. QED BY <2>3, QuietStep, Zenon
<1>11. CASE r = 5
  <2>1. c = "SE" /\ m.state = "iac"
    BY <1>3, <1>4, <1>5, <1>11
  <2>2. Moves(m, v, "normal")
    BY <1>2, <2>1, PlainSteps
  <2>. HIDE DEF v
  <2>3. Completes(item, r, m, v)
    BY <1>1, <1>4, <1>11, <2>2 DEF Completes
  <2>. QED BY <2>3, QuietStep, Zenon
<1>. QED
  BY <1>5, <1>6, <1>7, <1>8, <1>9, <1>10, <1>11

LEMMA SettingProceeds ==
    ASSUME NEW item, Proper(item), item.kind = "setting", NEW r, NEW m \in Machine,
           NEW d \in Seq(Seq(Deeds)), Does1(item, r, m, d)
    PROVE  Proceeds(item, r, m, telnetChar(m, Sent(item)[r + 1]), d)
<1>. DEFINE a == item.arg
            u == Sent(item)
            c == u[r + 1]
            v == telnetChar(m, c)
            w == Course(item)
<1>. SUFFICES Proceeds(item, r, m, v, d)
  OBVIOUS
<1>1. Due(item, r) = <<>> /\ Due(item, r + 1) = <<>> /\ Meant(item) = <<>>
  BY DEF Due, Meant
<1>2. /\ a \in Settings /\ a \in Bytes /\ "IAC" \in Bytes /\ "SB" \in Bytes /\ "SE" \in Bytes
      /\ "ComPort" \in Bytes /\ "zero" \in Bytes
  BY MacroBytes DEF Proper, Items, Macros
<1>3. /\ Len(u) = 7 /\ u[1] = "IAC" /\ u[2] = "SB" /\ u[3] = "ComPort" /\ u[4] = a /\ u[5] = "zero"
      /\ u[6] = "IAC" /\ u[7] = "SE"
  BY SettingSpelled
<1>4. /\ Len(w) = 7 /\ w[1] = "normal" /\ w[2] = "iac" /\ w[3] = "start" /\ w[4] = "comPort"
      /\ w[5] = a /\ w[6] = "end" /\ w[7] = "iac"
  BY ShortCourses
<1>5. r \in 0..6 /\ m.state = w[r + 1]
  BY <1>4 DEF Does1, Amid
<1>6. CASE r = 0
  <2>1. c = "IAC" /\ m.state = "normal"
    BY <1>3, <1>4, <1>5, <1>6
  <2>2. Moves(m, v, "iac")
    BY <1>2, <2>1, PlainSteps
  <2>. HIDE DEF v
  <2>3. Quiet(item, r, m, v)
    BY <1>1, <1>4, <1>6, <2>2 DEF Quiet
  <2>. QED BY <2>3, QuietStep, Zenon
<1>7. CASE r = 1
  <2>1. c = "SB" /\ m.state = "iac"
    BY <1>3, <1>4, <1>5, <1>7
  <2>2. Moves(m, v, "start")
    BY <1>2, <2>1, PlainSteps
  <2>. HIDE DEF v
  <2>3. Quiet(item, r, m, v)
    BY <1>1, <1>4, <1>7, <2>2 DEF Quiet
  <2>. QED BY <2>3, QuietStep, Zenon
<1>8. CASE r = 2
  <2>1. c = "ComPort" /\ m.state = "start"
    BY <1>3, <1>4, <1>5, <1>8
  <2>2. Moves(m, v, "comPort")
    BY <1>2, <2>1, PlainSteps
  <2>. HIDE DEF v
  <2>3. Quiet(item, r, m, v)
    BY <1>1, <1>4, <1>8, <2>2 DEF Quiet
  <2>. QED BY <2>3, QuietStep, Zenon
<1>9. CASE r = 3
  <2>1. c = a /\ m.state = "comPort"
    BY <1>3, <1>4, <1>5, <1>9
  <2>2. Moves(m, v, a)
    BY <1>2, <2>1, ComPortStep
  <2>. HIDE DEF v
  <2>3. Quiet(item, r, m, v)
    BY <1>1, <1>4, <1>9, <2>2 DEF Quiet
  <2>. QED BY <2>3, QuietStep, Zenon
<1>10. CASE r = 4
  <2>1. c = "zero" /\ m.state = a
    BY <1>3, <1>4, <1>5, <1>10
  <2>2. Moves(m, v, "end")
    BY <1>2, <2>1, PlainSteps
  <2>. HIDE DEF v
  <2>3. Quiet(item, r, m, v)
    BY <1>1, <1>4, <1>10, <2>2 DEF Quiet
  <2>. QED BY <2>3, QuietStep, Zenon
<1>11. CASE r = 5
  <2>1. c = "IAC" /\ m.state = "end"
    BY <1>3, <1>4, <1>5, <1>11
  <2>2. Moves(m, v, "iac")
    BY <1>2, <2>1, PlainSteps
  <2>. HIDE DEF v
  <2>3. Quiet(item, r, m, v)
    BY <1>1, <1>4, <1>11, <2>2 DEF Quiet
  <2>. QED BY <2>3, QuietStep, Zenon
<1>12. CASE r = 6
  <2>1. c = "SE" /\ m.state = "iac"
    BY <1>3, <1>4, <1>5, <1>12
  <2>2. Moves(m, v, "normal")
    BY <1>2, <2>1, PlainSteps
  <2>. HIDE DEF v
  <2>3. Completes(item, r, m, v)
    BY <1>1, <1>4, <1>12, <2>2 DEF Completes
  <2>. QED BY <2>3, QuietStep, Zenon
<1>. QED
  BY <1>5, <1>6, <1>7, <1>8, <1>9, <1>10, <1>11, <1>12

LEMMA ControlProceeds ==
    ASSUME NEW item, Proper(item), item.kind = "control", NEW r, NEW m \in Machine,
           NEW d \in Seq(Seq(Deeds)), Does1(item, r, m, d)
    PROVE  Proceeds(item, r, m, telnetChar(m, Sent(item)[r + 1]), d)
<1>. DEFINE a == item.arg
            u == Sent(item)
            c == u[r + 1]
            v == telnetChar(m, c)
            w == Course(item)
<1>. SUFFICES Proceeds(item, r, m, v, d)
  OBVIOUS
<1>0. Len(w) = 7 /\ r \in 0..6
  <2>1. Len(w) = 7
    BY ShortCourses
  <2>. QED BY <2>1 DEF Does1, Amid
<1>1. /\ Due(item, r) = IF r >= 5 THEN Meant(item) ELSE <<>>
      /\ Due(item, r + 1) = IF r >= 4 THEN Meant(item) ELSE <<>>
      /\ Meant(item) = IF a \in Commands THEN <<<<a>>>> ELSE <<>>
  BY <1>0 DEF Due, Meant
<1>2. /\ a \in Bytes /\ "IAC" \in Bytes /\ "SB" \in Bytes /\ "SE" \in Bytes
      /\ "ComPort" \in Bytes /\ "SetControl" \in Bytes
  BY MacroBytes DEF Proper, Items, Macros
<1>3. /\ Len(u) = 7 /\ u[1] = "IAC" /\ u[2] = "SB" /\ u[3] = "ComPort" /\ u[4] = "SetControl"
      /\ u[5] = a /\ u[6] = "IAC" /\ u[7] = "SE"
  BY SettingSpelled
<1>4. /\ Len(w) = 7 /\ w[1] = "normal" /\ w[2] = "iac" /\ w[3] = "start" /\ w[4] = "comPort"
      /\ w[5] = "setControl" /\ w[6] = "end" /\ w[7] = "iac"
  BY ShortCourses
<1>5. r \in 0..6 /\ m.state = w[r + 1]
  BY <1>4 DEF Does1, Amid
<1>6. CASE r = 0
  <2>1. c = "IAC" /\ m.state = "normal"
    BY <1>3, <1>4, <1>5, <1>6
  <2>2. Moves(m, v, "iac")
    BY <1>2, <2>1, PlainSteps
  <2>. HIDE DEF v
  <2>3. Quiet(item, r, m, v)
    BY <1>1, <1>4, <1>6, <2>2 DEF Quiet
  <2>. QED BY <2>3, QuietStep, Zenon
<1>7. CASE r = 1
  <2>1. c = "SB" /\ m.state = "iac"
    BY <1>3, <1>4, <1>5, <1>7
  <2>2. Moves(m, v, "start")
    BY <1>2, <2>1, PlainSteps
  <2>. HIDE DEF v
  <2>3. Quiet(item, r, m, v)
    BY <1>1, <1>4, <1>7, <2>2 DEF Quiet
  <2>. QED BY <2>3, QuietStep, Zenon
<1>8. CASE r = 2
  <2>1. c = "ComPort" /\ m.state = "start"
    BY <1>3, <1>4, <1>5, <1>8
  <2>2. Moves(m, v, "comPort")
    BY <1>2, <2>1, PlainSteps
  <2>. HIDE DEF v
  <2>3. Quiet(item, r, m, v)
    BY <1>1, <1>4, <1>8, <2>2 DEF Quiet
  <2>. QED BY <2>3, QuietStep, Zenon
<1>9. CASE r = 3
  <2>1. c = "SetControl" /\ m.state = "comPort"
    BY <1>3, <1>4, <1>5, <1>9
  <2>2. Moves(m, v, "setControl")
    BY <1>2, <2>1, ComPortStep
  <2>. HIDE DEF v
  <2>3. Quiet(item, r, m, v)
    BY <1>1, <1>4, <1>9, <2>2 DEF Quiet
  <2>. QED BY <2>3, QuietStep, Zenon
<1>10. CASE r = 4
  <2>1. c = a /\ m.state = "setControl" /\ w[(r + 1) + 1] = "end"
    BY <1>3, <1>4, <1>5, <1>10
  <2>2. IF a \in Commands THEN Acts(m, v, "end", <<a>>) ELSE Moves(m, v, "end")
    BY <1>2, <2>1, ControlStep
  <2>. HIDE DEF v
  <2>3. v.state = "end" /\ v.baud = m.baud
    BY <2>2 DEF Acts, Moves
  <2>4. r + 1 \in 0..6 /\ r + 1 < 7 /\ ~(r + 1 = 7) /\ ~(r >= 5) /\ r >= 4
    BY <1>10
  <2>5. m.out = d
    BY <1>1, <2>4, DonePlus DEF Does1
  <2>6. v.out = d \o Due(item, r + 1)
    <3>1. Append(d, <<a>>) = d \o <<<<a>>>> /\ d \o <<>> = d
      BY DonePlus
    <3>2. CASE a \in Commands
      <4>1. v.out = Append(d, <<a>>) /\ Due(item, r + 1) = <<<<a>>>>
        BY <1>1, <2>2, <2>4, <2>5, <3>2 DEF Acts
      <4>. QED BY <3>1, <4>1
    <3>3. CASE a \notin Commands
      <4>1. v.out = d /\ Due(item, r + 1) = <<>>
        BY <1>1, <2>2, <2>4, <2>5, <3>3 DEF Moves
      <4>. QED BY <3>1, <4>1
    <3>. QED BY <3>2, <3>3
  <2>7. Amid(item, r + 1, v.state, v.baud)
    BY <1>4, <2>1, <2>3, <2>4 DEF Amid
  <2>. QED BY <1>4, <2>3, <2>4, <2>6, <2>7 DEF Proceeds, Does1
<1>11. CASE r = 5
  <2>1. c = "IAC" /\ m.state = "end"
    BY <1>3, <1>4, <1>5, <1>11
  <2>2. Moves(m, v, "iac")
    BY <1>2, <2>1, PlainSteps
  <2>. HIDE DEF v
  <2>3. Quiet(item, r, m, v)
    BY <1>1, <1>4, <1>11, <2>2 DEF Quiet
  <2>. QED BY <2>3, QuietStep, Zenon
<1>12. CASE r = 6
  <2>1. c = "SE" /\ m.state = "iac"
    BY <1>3, <1>4, <1>5, <1>12
  <2>2. Moves(m, v, "normal")
    BY <1>2, <2>1, PlainSteps
  <2>. HIDE DEF v
  <2>3. Completes(item, r, m, v)
    BY <1>1, <1>4, <1>12, <2>2 DEF Completes
  <2>. QED BY <2>3, QuietStep, Zenon
<1>. QED
  BY <1>5, <1>6, <1>7, <1>8, <1>9, <1>10, <1>11, <1>12

\* q is the first n elements of s.
PrefixOf(q, s, n) == Len(q) = n /\ \A k \in 1..n : q[k] = s[k]

LEMMA PrefixParts ==
    ASSUME NEW S, NEW s \in Seq(S)
    PROVE  \A n \in 0..Len(s) : SubSeq(s, 1, n) \in Seq(S) /\ PrefixOf(SubSeq(s, 1, n), s, n)
<1>. TAKE n \in 0..Len(s)
<1>. DEFINE q == SubSeq(s, 1, n)
<1>1. n \in Int /\ \A i \in 1..n : s[i] \in S /\ (1 + i) - 1 = i
  OBVIOUS
<1>2. /\ q \in Seq(S) /\ Len(q) = IF 1 <= n THEN n - 1 + 1 ELSE 0
      /\ \A i \in 1..n - 1 + 1 : q[i] = s[1 + i - 1]
  BY <1>1, SubSeqProperties
<1>. HIDE DEF q
<1>3. Len(q) = n /\ n - 1 + 1 = n
  BY <1>2
<1>4. \A i \in 1..n : q[i] = s[i]
  BY <1>1, <1>2, <1>3
<1>5. q \in Seq(S) /\ PrefixOf(q, s, n)
  BY <1>2, <1>3, <1>4 DEF PrefixOf
<1>. QED
  BY <1>5 DEF q

LEMMA RateParts ==
    ASSUME NEW a
    PROVE  LET q(n) == SubSeq(Rate(a), 1, n)
           IN  /\ q(0) = <<>> /\ Len(q(0)) = 0 /\ Len(q(1)) = 1 /\ Len(q(2)) = 2 /\ Len(q(3)) = 3
               /\ q(1) = Append(q(0), a) /\ q(2) = Append(q(1), "hi") /\ q(3) = Append(q(2), "mid")
               /\ Rate(a) = Append(q(3), "lo") /\ q(3)[1] = a
<1>. DEFINE S == {a, "hi", "mid", "lo"}
            w == Rate(a)
            q(n) == SubSeq(w, 1, n)
<1>1. w \in Seq(S) /\ Len(w) = 4 /\ w[1] = a /\ w[2] = "hi" /\ w[3] = "mid" /\ w[4] = "lo"
  BY DEF Rate
<1>2. a \in S /\ "hi" \in S /\ "mid" \in S /\ "lo" \in S
  OBVIOUS
<1>. HIDE DEF w, S
<1>3. \A n \in 0..4 : q(n) \in Seq(S) /\ Len(q(n)) = n /\ \A k \in 1..n : q(n)[k] = w[k]
  <2>. SUFFICES ASSUME NEW n \in 0..4
                PROVE  q(n) \in Seq(S) /\ Len(q(n)) = n /\ \A k \in 1..n : q(n)[k] = w[k]
    OBVIOUS
  <2>1. n \in Nat /\ 1 \in Int /\ n \in 0..Len(w)
    BY <1>1
  <2>2. q(n) \in Seq(S) /\ PrefixOf(q(n), w, n)
    BY <1>1, <2>1, PrefixParts
  <2>. HIDE DEF q
  <2>. QED BY <2>2 DEF PrefixOf
<1>4. q(0) = <<>>
  BY <1>3
<1>5. \A n \in 0..3 : \A x \in S : w[n + 1] = x => q(n + 1) = Append(q(n), x)
  <2>. SUFFICES ASSUME NEW n \in 0..3, NEW x \in S, w[n + 1] = x PROVE q(n + 1) = Append(q(n), x)
    OBVIOUS
  <2>. DEFINE s == q(n + 1)
              t == Append(q(n), x)
  <2>1. s \in Seq(S) /\ Len(s) = n + 1 /\ \A k \in 1..n + 1 : s[k] = w[k]
    BY <1>3
  <2>2. t \in Seq(S) /\ Len(t) = n + 1 /\ (\A k \in 1..n : t[k] = w[k]) /\ t[n + 1] = x
    BY <1>3
  <2>. HIDE DEF s, t
  <2>3. \A k \in 1..n + 1 : s[k] = t[k]
    BY <2>1, <2>2
  <2>4. s = t
    BY <2>1, <2>2, <2>3, SeqEqual
  <2>. QED BY <2>4 DEF s, t
<1>6. q(4) = w
  <2>1. q(4) \in Seq(S) /\ Len(q(4)) = Len(w) /\ \A k \in 1..Len(w) : q(4)[k] = w[k]
    BY <1>1, <1>3
  <2>. HIDE DEF q
  <2>. QED BY <1>1, <2>1, SeqEqual
<1>7. q(1) = Append(q(0), a) /\ q(2) = Append(q(1), "hi") /\ q(3) = Append(q(2), "mid")
      /\ q(4) = Append(q(3), "lo")
  <2>. HIDE DEF q
  <2>. QED BY <1>1, <1>2, <1>5
<1>. QED
  BY <1>1, <1>3, <1>4, <1>6, <1>7 DEF w

LEMMA BaudProceeds ==
    ASSUME NEW item, Proper(item), item.kind = "baud", NEW r, NEW m \in Machine,
           NEW d \in Seq(Seq(Deeds)), Does1(item, r, m, d)
    PROVE  Proceeds(item, r, m, telnetChar(m, Sent(item)[r + 1]), d)
<1>. DEFINE a == item.arg
            u == Sent(item)
            c == u[r + 1]
            v == telnetChar(m, c)
            w == Course(item)
            q(n) == SubSeq(Rate(a), 1, n)
<1>. SUFFICES Proceeds(item, r, m, v, d)
  OBVIOUS
<1>0. Len(w) = 10 /\ r \in 0..9
  <2>1. Len(w) = 10
    BY BaudCourse
  <2>. QED BY <2>1 DEF Does1, Amid
<1>1. /\ Due(item, r) = IF r >= 8 THEN Meant(item) ELSE <<>>
      /\ Due(item, r + 1) = IF r >= 7 THEN Meant(item) ELSE <<>>
      /\ Meant(item) = IF a \notin {"bad", "zero"} THEN <<Rate(a)>> ELSE <<>>
  BY <1>0 DEF Due, Meant
<1>2. /\ a \in Bytes /\ "IAC" \in Bytes /\ "SB" \in Bytes /\ "SE" \in Bytes
      /\ "ComPort" \in Bytes /\ "SetBaud" \in Bytes /\ "hi" \in Bytes /\ "mid" \in Bytes
      /\ "lo" \in Bytes
  BY MacroBytes DEF Proper, Items, Macros
<1>3. /\ Len(u) = 10 /\ u[1] = "IAC" /\ u[2] = "SB" /\ u[3] = "ComPort" /\ u[4] = "SetBaud"
      /\ u[5] = a /\ u[6] = "hi" /\ u[7] = "mid" /\ u[8] = "lo" /\ u[9] = "IAC" /\ u[10] = "SE"
  BY BaudSpelled
<1>4. /\ Len(w) = 10 /\ w[1] = "normal" /\ w[2] = "iac" /\ w[3] = "start" /\ w[4] = "comPort"
      /\ w[5] = "setBaud" /\ w[6] = "setBaud" /\ w[7] = "setBaud" /\ w[8] = "setBaud"
      /\ w[9] = "end" /\ w[10] = "iac"
  BY BaudCourse
<1>5. m.state = w[r + 1] /\ (r \in 4..7 => m.baud = q(r - 4)) /\ m.out = d \o Due(item, r)
  BY DEF Does1, Amid
<1>6. /\ q(0) = <<>> /\ Len(q(0)) = 0 /\ Len(q(1)) = 1 /\ Len(q(2)) = 2 /\ Len(q(3)) = 3
      /\ q(1) = Append(q(0), a) /\ q(2) = Append(q(1), "hi") /\ q(3) = Append(q(2), "mid")
      /\ Rate(a) = Append(q(3), "lo") /\ q(3)[1] = a
  BY RateParts
<1>7. d \o <<>> = d /\ Append(d, Rate(a)) = d \o <<Rate(a)>>
  BY DonePlus
<1>. HIDE DEF q, w, u
<1>10. CASE r = 0
  <2>1. c = "IAC" /\ m.state = "normal"
    BY <1>3, <1>4, <1>5, <1>10
  <2>0. Moves(m, v, "iac")
    BY <1>2, <2>1, PlainSteps
  <2>. HIDE DEF v
  <2>2. v.state = "iac" /\ v.out = d \o Due(item, r + 1)
    <3>1. Due(item, r) = <<>> /\ Due(item, r + 1) = <<>>
      BY <1>1, <1>10
    <3>. QED BY <1>5, <2>0, <3>1 DEF Moves
  <2>8. r + 1 < 10 /\ ~(r + 1 = 10) /\ r + 1 \in 0..9 /\ (r + 1) + 1 = 2 /\ (r + 1) - 4 = -3
    BY <1>10
  <2>9. Amid(item, r + 1, v.state, v.baud)
    BY <1>4, <2>2, <2>8 DEF Amid, w, q
  <2>. QED BY <1>4, <2>2, <2>8, <2>9 DEF Proceeds, Does1, w
<1>11. CASE r = 1
  <2>1. c = "SB" /\ m.state = "iac"
    BY <1>3, <1>4, <1>5, <1>11
  <2>0. Moves(m, v, "start")
    BY <1>2, <2>1, PlainSteps
  <2>. HIDE DEF v
  <2>2. v.state = "start" /\ v.out = d \o Due(item, r + 1)
    <3>1. Due(item, r) = <<>> /\ Due(item, r + 1) = <<>>
      BY <1>1, <1>11
    <3>. QED BY <1>5, <2>0, <3>1 DEF Moves
  <2>8. r + 1 < 10 /\ ~(r + 1 = 10) /\ r + 1 \in 0..9 /\ (r + 1) + 1 = 3 /\ (r + 1) - 4 = -2
    BY <1>11
  <2>9. Amid(item, r + 1, v.state, v.baud)
    BY <1>4, <2>2, <2>8 DEF Amid, w, q
  <2>. QED BY <1>4, <2>2, <2>8, <2>9 DEF Proceeds, Does1, w
<1>12. CASE r = 2
  <2>1. c = "ComPort" /\ m.state = "start"
    BY <1>3, <1>4, <1>5, <1>12
  <2>0. Moves(m, v, "comPort")
    BY <1>2, <2>1, PlainSteps
  <2>. HIDE DEF v
  <2>2. v.state = "comPort" /\ v.out = d \o Due(item, r + 1)
    <3>1. Due(item, r) = <<>> /\ Due(item, r + 1) = <<>>
      BY <1>1, <1>12
    <3>. QED BY <1>5, <2>0, <3>1 DEF Moves
  <2>8. r + 1 < 10 /\ ~(r + 1 = 10) /\ r + 1 \in 0..9 /\ (r + 1) + 1 = 4 /\ (r + 1) - 4 = -1
    BY <1>12
  <2>9. Amid(item, r + 1, v.state, v.baud)
    BY <1>4, <2>2, <2>8 DEF Amid, w, q
  <2>. QED BY <1>4, <2>2, <2>8, <2>9 DEF Proceeds, Does1, w
<1>13. CASE r = 3
  <2>1. c = "SetBaud" /\ m.state = "comPort"
    BY <1>3, <1>4, <1>5, <1>13
  <2>0. v.state = "setBaud" /\ v.out = m.out /\ v.baud = <<>>
    BY <1>2, <2>1, ComPortStep
  <2>. HIDE DEF v
  <2>2. v.state = "setBaud" /\ v.out = d \o Due(item, r + 1) /\ v.baud = q(0)
    <3>1. Due(item, r) = <<>> /\ Due(item, r + 1) = <<>>
      BY <1>1, <1>13
    <3>. QED BY <1>5, <1>6, <2>0, <3>1
  <2>8. r + 1 < 10 /\ ~(r + 1 = 10) /\ r + 1 \in 0..9 /\ (r + 1) + 1 = 5 /\ (r + 1) - 4 = 0
    BY <1>13
  <2>9. Amid(item, r + 1, v.state, v.baud)
    BY <1>4, <2>2, <2>8 DEF Amid, w, q
  <2>. QED BY <1>4, <2>2, <2>8, <2>9 DEF Proceeds, Does1, w
<1>14. CASE r = 4
  <2>1. c = a /\ m.state = "setBaud"
    BY <1>3, <1>4, <1>5, <1>14
  <2>0. Collects(m, c, v)
    BY <1>2, <2>1, BaudStep, Zenon
  <2>. HIDE DEF v, c
  <2>3. m.baud = q(0) /\ Len(m.baud) = 0 /\ Append(m.baud, c) = q(1)
    <3>1. r - 4 = 0 /\ r \in 4..7
      BY <1>14
    <3>. QED BY <1>5, <1>6, <2>1, <3>1
  <2>4. v.baud = Append(m.baud, c) /\ v.state = "setBaud" /\ v.out = m.out
    <3>. DEFINE l == Len(m.baud)
    <3>0. l = 0
      BY <2>3
    <3>. HIDE DEF l
    <3>2. l < 3
      BY <3>0
    <3>1. Len(m.baud) < 3
      BY <3>2 DEF l
    <3>. QED BY <2>0, <3>1 DEF Collects
  <2>2. v.state = "setBaud" /\ v.out = d \o Due(item, r + 1) /\ v.baud = q(1)
    <3>1. Due(item, r) = <<>> /\ Due(item, r + 1) = <<>>
      BY <1>1, <1>14
    <3>. QED BY <1>5, <2>3, <2>4, <3>1
  <2>8. r + 1 < 10 /\ ~(r + 1 = 10) /\ r + 1 \in 0..9 /\ (r + 1) + 1 = 6 /\ (r + 1) - 4 = 1
    BY <1>14
  <2>9. Amid(item, r + 1, v.state, v.baud)
    BY <1>4, <2>2, <2>8 DEF Amid, w, q
  <2>. QED BY <1>4, <2>2, <2>8, <2>9 DEF Proceeds, Does1, w
<1>15. CASE r = 5
  <2>1. c = "hi" /\ m.state = "setBaud"
    BY <1>3, <1>4, <1>5, <1>15
  <2>0. Collects(m, c, v)
    BY <1>2, <2>1, BaudStep, Zenon
  <2>. HIDE DEF v, c
  <2>3. m.baud = q(1) /\ Len(m.baud) = 1 /\ Append(m.baud, c) = q(2)
    <3>1. r - 4 = 1 /\ r \in 4..7
      BY <1>15
    <3>. QED BY <1>5, <1>6, <2>1, <3>1
  <2>4. v.baud = Append(m.baud, c) /\ v.state = "setBaud" /\ v.out = m.out
    <3>. DEFINE l == Len(m.baud)
    <3>0. l = 1
      BY <2>3
    <3>. HIDE DEF l
    <3>2. l < 3
      BY <3>0
    <3>1. Len(m.baud) < 3
      BY <3>2 DEF l
    <3>. QED BY <2>0, <3>1 DEF Collects
  <2>2. v.state = "setBaud" /\ v.out = d \o Due(item, r + 1) /\ v.baud = q(2)
    <3>1. Due(item, r) = <<>> /\ Due(item, r + 1) = <<>>
      BY <1>1, <1>15
    <3>. QED BY <1>5, <2>3, <2>4, <3>1
  <2>8. r + 1 < 10 /\ ~(r + 1 = 10) /\ r + 1 \in 0..9 /\ (r + 1) + 1 = 7 /\ (r + 1) - 4 = 2
    BY <1>15
  <2>9. Amid(item, r + 1, v.state, v.baud)
    BY <1>4, <2>2, <2>8 DEF Amid, w, q
  <2>. QED BY <1>4, <2>2, <2>8, <2>9 DEF Proceeds, Does1, w
<1>16. CASE r = 6
  <2>1. c = "mid" /\ m.state = "setBaud"
    BY <1>3, <1>4, <1>5, <1>16
  <2>0. Collects(m, c, v)
    BY <1>2, <2>1, BaudStep, Zenon
  <2>. HIDE DEF v, c
  <2>3. m.baud = q(2) /\ Len(m.baud) = 2 /\ Append(m.baud, c) = q(3)
    <3>1. r - 4 = 2 /\ r \in 4..7
      BY <1>16
    <3>. QED BY <1>5, <1>6, <2>1, <3>1
  <2>4. v.baud = Append(m.baud, c) /\ v.state = "setBaud" /\ v.out = m.out
    <3>. DEFINE l == Len(m.baud)
    <3>0. l = 2
      BY <2>3
    <3>. HIDE DEF l
    <3>2. l < 3
      BY <3>0
    <3>1. Len(m.baud) < 3
      BY <3>2 DEF l
    <3>. QED BY <2>0, <3>1 DEF Collects
  <2>2. v.state = "setBaud" /\ v.out = d \o Due(item, r + 1) /\ v.baud = q(3)
    <3>1. Due(item, r) = <<>> /\ Due(item, r + 1) = <<>>
      BY <1>1, <1>16
    <3>. QED BY <1>5, <2>3, <2>4, <3>1
  <2>8. r + 1 < 10 /\ ~(r + 1 = 10) /\ r + 1 \in 0..9 /\ (r + 1) + 1 = 8 /\ (r + 1) - 4 = 3
    BY <1>16
  <2>9. Amid(item, r + 1, v.state, v.baud)
    BY <1>4, <2>2, <2>8 DEF Amid, w, q
  <2>. QED BY <1>4, <2>2, <2>8, <2>9 DEF Proceeds, Does1, w
<1>17. CASE r = 7
  <2>1. c = "lo" /\ m.state = "setBaud"
    BY <1>3, <1>4, <1>5, <1>17
  <2>0. Collects(m, c, v)
    BY <1>2, <2>1, BaudStep, Zenon
  <2>. HIDE DEF v, c
  <2>3. m.baud = q(3) /\ Len(m.baud) = 3 /\ Append(m.baud, c) = Rate(a) /\ m.baud[1] = a
    <3>1. r - 4 = 3 /\ r \in 4..7
      BY <1>17
    <3>. QED BY <1>5, <1>6, <2>1, <3>1
  <2>4. v.state = "end" /\ v.out = IF a \in {"bad", "zero"} THEN m.out ELSE Append(m.out, Rate(a))
    BY <2>0, <2>3 DEF Collects
  <2>2. v.state = "end" /\ v.out = d \o Due(item, r + 1)
    <3>1. Due(item, r) = <<>> /\ Due(item, r + 1) = Meant(item)
      BY <1>1, <1>17
    <3>2. m.out = d
      BY <1>5, <1>7, <3>1
    <3>. QED BY <1>1, <1>7, <2>4, <3>1, <3>2
  <2>8. r + 1 < 10 /\ ~(r + 1 = 10) /\ r + 1 \in 0..9 /\ (r + 1) + 1 = 9 /\ (r + 1) - 4 = 4
    BY <1>17
  <2>9. Amid(item, r + 1, v.state, v.baud)
    BY <1>4, <2>2, <2>8 DEF Amid, w, q
  <2>. QED BY <1>4, <2>2, <2>8, <2>9 DEF Proceeds, Does1, w
<1>18. CASE r = 8
  <2>1. c = "IAC" /\ m.state = "end"
    BY <1>3, <1>4, <1>5, <1>18
  <2>0. Moves(m, v, "iac")
    BY <1>2, <2>1, PlainSteps
  <2>. HIDE DEF v
  <2>2. v.state = "iac" /\ v.out = d \o Due(item, r + 1)
    <3>1. Due(item, r) = Meant(item) /\ Due(item, r + 1) = Meant(item)
      BY <1>1, <1>18
    <3>. QED BY <1>5, <2>0, <3>1 DEF Moves
  <2>8. r + 1 < 10 /\ ~(r + 1 = 10) /\ r + 1 \in 0..9 /\ (r + 1) + 1 = 10 /\ (r + 1) - 4 = 5
    BY <1>18
  <2>9. Amid(item, r + 1, v.state, v.baud)
    BY <1>4, <2>2, <2>8 DEF Amid, w, q
  <2>. QED BY <1>4, <2>2, <2>8, <2>9 DEF Proceeds, Does1, w
<1>19. CASE r = 9
  <2>1. c = "SE" /\ m.state = "iac"
    BY <1>3, <1>4, <1>5, <1>19
  <2>0. Moves(m, v, "normal")
    BY <1>2, <2>1, PlainSteps
  <2>. HIDE DEF v
  <2>2. v.state = "normal" /\ v.out = d \o Meant(item)
    <3>1. Due(item, r) = Meant(item) /\ Due(item, r + 1) = Meant(item)
      BY <1>1, <1>19
    <3>. QED BY <1>5, <2>0, <3>1 DEF Moves
  <2>8. r + 1 = 10 /\ ~(r + 1 < 10)
    BY <1>19
  <2>. QED BY <1>4, <2>2, <2>8 DEF Proceeds, w
<1>. QED
  BY <1>0, <1>10, <1>11, <1>12, <1>13, <1>14, <1>15, <1>16, <1>17, <1>18, <1>19

\* Whatever the item
LEMMA ItemProceeds ==
    \A item, r, d : \A m \in Machine :
        Proper(item) /\ d \in Seq(Seq(Deeds)) /\ Does1(item, r, m, d)
           => Proceeds(item, r, m, telnetChar(m, Sent(item)[r + 1]), d)
<1>. SUFFICES ASSUME NEW item, NEW r, NEW d, NEW m \in Machine,
                     Proper(item), d \in Seq(Seq(Deeds)), Does1(item, r, m, d)
              PROVE  Proceeds(item, r, m, telnetChar(m, Sent(item)[r + 1]), d)
  OBVIOUS
<1>1. item.kind \in {"char", "will", "control", "baud", "setting", "option"}
  BY DEF Proper, Items
<1>2. CASE item.kind = "char"
  BY <1>2, CharProceeds
<1>3. CASE item.kind = "will"
  BY <1>3, WillProceeds
<1>4. CASE item.kind = "control"
  BY <1>4, ControlProceeds
<1>5. CASE item.kind = "baud"
  BY <1>5, BaudProceeds
<1>6. CASE item.kind = "setting"
  BY <1>6, SettingProceeds
<1>7. CASE item.kind = "option"
  BY <1>7, OptionProceeds
<1>. QED
  BY <1>1, <1>2, <1>3, <1>4, <1>5, <1>6, <1>7

\* There is a state for each byte of an item, and something is done of it
\* at its end or not at all.
LEMMA ItemParts ==
    ASSUME NEW item, Proper(item)
    PROVE  /\ Sent(item) \in Seq(Bytes) /\ Meant(item) \in Seq(Seq(Deeds))
           /\ Len(Course(item)) = Len(Sent(item)) /\ Len(Sent(item)) >= 1
           /\ Course(item)[1] = "normal" /\ Due(item, 0) = <<>>
           /\ \A r : Due(item, r) = <<>> \/ Due(item, r) = Meant(item)
<1>1. item \in Items /\ item.kind \in {"char", "will", "control", "baud", "setting", "option"}
      /\ item.arg \in Bytes
  BY DEF Proper, Items
<1>2. Sent(item) \in Seq(Bytes)
  BY <1>1, SentType
<1>3. Meant(item) \in Seq(Seq(Deeds))
  <2>. DEFINE a == item.arg
  <2>1. a \in Deeds /\ "hi" \in Deeds /\ "mid" \in Deeds /\ "lo" \in Deeds
    BY <1>1, MacroBytes DEF Deeds, Macros
  <2>. HIDE DEF a
  <2>2. <<a>> \in Seq(Deeds) /\ Rate(a) \in Seq(Deeds)
    BY <2>1, Tuples DEF Rate
  <2>3. \A w \in Seq(Deeds) : <<w>> \in Seq(Seq(Deeds))
    OBVIOUS
  <2>4. <<>> \in Seq(Seq(Deeds))
    OBVIOUS
  <2>5. <<<<a>>>> \in Seq(Seq(Deeds)) /\ <<Rate(a)>> \in Seq(Seq(Deeds))
    BY <2>2, <2>3
  <2>6. Meant(item) \in {<<<<a>>>>, <<Rate(a)>>, <<>>}
    BY <1>1 DEF Meant, a
  <2>. QED BY <2>4, <2>5, <2>6
<1>4. /\ Len(Course(item)) = Len(Sent(item)) /\ Len(Sent(item)) >= 1 /\ Course(item)[1] = "normal"
      /\ item.kind \in {"control", "baud"} => Len(Course(item)) > 2
  <2>1. CASE item.kind = "char"
    <3>1. CASE item.arg = "IAC"
      <4>1. Course(item) = <<"normal", "iac">> /\ Sent(item) = <<"IAC", "IAC">>
        BY <2>1, <3>1, CharSpelled DEF Course
      <4>. QED BY <2>1, <4>1
    <3>2. CASE item.arg # "IAC"
      <4>1. Course(item) = <<"normal">> /\ Sent(item) = <<item.arg>>
        BY <2>1, <3>2, CharSpelled DEF Course
      <4>. QED BY <2>1, <4>1
    <3>. QED BY <3>1, <3>2
  <2>2. CASE item.kind = "will"
    <3>1. Sent(item) = <<"IAC", "WILL", item.arg>> /\ Len(Course(item)) = 3 /\ Course(item)[1] = "normal"
      BY <2>2, WillSpelled, ShortCourses
    <3>. QED BY <2>2, <3>1
  <2>3. CASE item.kind = "option"
    <3>1. Len(Sent(item)) = 6 /\ Len(Course(item)) = 6 /\ Course(item)[1] = "normal"
      BY <2>3, OptionSpelled, ShortCourses
    <3>. QED BY <2>3, <3>1
  <2>4. CASE item.kind \in {"setting", "control"}
    <3>1. Len(Sent(item)) = 7 /\ Len(Course(item)) = 7 /\ Course(item)[1] = "normal"
      BY <2>4, SettingSpelled, ShortCourses
    <3>. QED BY <2>4, <3>1
  <2>5. CASE item.kind = "baud"
    <3>1. Len(Sent(item)) = 10 /\ Len(Course(item)) = 10 /\ Course(item)[1] = "normal"
      BY <2>5, BaudSpelled, BaudCourse
    <3>. QED BY <2>5, <3>1
  <2>. QED BY <1>1, <2>1, <2>2, <2>3, <2>4, <2>5
<1>5. Due(item, 0) = <<>>
  BY <1>4 DEF Due
<1>6. \A r : Due(item, r) = <<>> \/ Due(item, r) = Meant(item)
  BY DEF Due
<1>. QED
  BY <1>2, <1>3, <1>4, <1>5, <1>6

-----------------------------------------------------------------------------
(* All items *)

\* What the protocol has
Speech(items) == items \in Seq(Items) /\ \A j \in DOMAIN items : Proper(items[j])

\* What is said and what is meant, item by item
Adds(items, S, M) ==
    /\ S[0] = <<>> /\ M[0] = <<>>
    /\ \A j \in 0..Len(items) : S[j] \in Seq(Bytes) /\ M[j] \in Seq(Seq(Deeds))
    /\ \A j \in 1..Len(items) : S[j] = S[j - 1] \o Sent(items[j]) /\ M[j] = M[j - 1] \o Meant(items[j])

\* f only grows.
Grows(f, n) ==
    \A i, j \in 0..n : i <= j =>
        Len(f[i]) <= Len(f[j]) /\ \A k \in 1..Len(f[i]) : f[j][k] = f[i][k]

LEMMA PartsGrows ==
    ASSUME NEW S, NEW s \in Seq(Seq(S))
    PROVE  Grows(Parts(s), Len(s))
BY PartsGrow DEF Grows

LEMMA SpeechParts ==
    ASSUME NEW items, Speech(items)
    PROVE  /\ Adds(items, SentBy(items), MeantBy(items))
           /\ Grows(SentBy(items), Len(items)) /\ Grows(MeantBy(items), Len(items))
           /\ SentBy(items)[Len(items)] = FlattenSeq([j \in DOMAIN items |-> Sent(items[j])])
           /\ MeantBy(items)[Len(items)] = FlattenSeq([j \in DOMAIN items |-> Meant(items[j])])
<1>. DEFINE s == [j \in DOMAIN items |-> Sent(items[j])]
            m == [j \in DOMAIN items |-> Meant(items[j])]
            n == Len(items)
<1>1. n \in Nat /\ DOMAIN items = 1..n
  BY DEF Speech
<1>2. \A j \in 1..n : Sent(items[j]) \in Seq(Bytes) /\ Meant(items[j]) \in Seq(Seq(Deeds))
  BY <1>1, ItemParts DEF Speech
<1>3. /\ s \in Seq(Seq(Bytes)) /\ Len(s) = n /\ \A j \in 1..n : s[j] = Sent(items[j])
      /\ m \in Seq(Seq(Seq(Deeds))) /\ Len(m) = n /\ \A j \in 1..n : m[j] = Meant(items[j])
  BY <1>1, <1>2
<1>4. SentBy(items) = Parts(s) /\ MeantBy(items) = Parts(m)
  BY DEF SentBy, MeantBy
<1>5. Parts(s)[n] = FlattenSeq(s) /\ Parts(m)[n] = FlattenSeq(m)
  <2>. HIDE DEF s, m, n
  <2>. QED BY <1>3, PartsWhole
<1>6. Grows(Parts(s), n) /\ Grows(Parts(m), n)
  <2>. HIDE DEF s, m, n
  <2>. QED BY <1>3, PartsGrows
<1>7. Adds(items, Parts(s), Parts(m))
  <2>1. n = Len(items)
    OBVIOUS
  <2>. HIDE DEF s, m, n
  <2>2. Parts(s)[0] = <<>> /\ \A j \in 1..n : Parts(s)[j] = Parts(s)[j - 1] \o s[j]
    BY <1>3, PartsExist
  <2>3. Parts(m)[0] = <<>> /\ \A j \in 1..n : Parts(m)[j] = Parts(m)[j - 1] \o m[j]
    BY <1>3, PartsExist
  <2>4. \A j \in 0..n : Parts(s)[j] \in Seq(Bytes)
    BY <1>3, PartsType
  <2>5. \A j \in 0..n : Parts(m)[j] \in Seq(Seq(Deeds))
    BY <1>3, PartsType
  <2>. QED BY <1>3, <2>1, <2>2, <2>3, <2>4, <2>5 DEF Adds
<1>. QED
  BY <1>4, <1>5, <1>6, <1>7

\* At with the sums named
Reached(items, S, M, k, t, b, done) ==
    \/ k = Len(S[Len(items)]) /\ t = "normal" /\ done = M[Len(items)]
    \/ \E j \in 1..Len(items) : \E r \in 0..k :
          /\ k = Len(S[j - 1]) + r
          /\ Amid(items[j], r, t, b) /\ done = M[j - 1] \o Due(items[j], r)

LEMMA AtReached ==
    ASSUME NEW items, NEW k, NEW t, NEW b, NEW done
    PROVE  At(items, k, t, b, done) <=> Reached(items, SentBy(items), MeantBy(items), k, t, b, done)
BY DEF At, Reached

\* Before each item the machine is in its normal state.
LEMMA ItemBegins ==
    ASSUME NEW items, Speech(items), NEW S, NEW M, Adds(items, S, M), NEW j \in 0..Len(items), NEW b
    PROVE  Reached(items, S, M, Len(S[j]), "normal", b, M[j])
<1>. DEFINE n == Len(items)
<1>0. n \in Nat /\ DOMAIN items = 1..n
  BY DEF Speech
<1>1. CASE j = n
  BY <1>1 DEF Reached
<1>2. CASE j # n
  <2>. DEFINE i == j + 1
              item == items[i]
  <2>1. i \in 1..n /\ i - 1 = j
    <3>1. j \in 0..n
      OBVIOUS
    <3>. HIDE DEF n
    <3>. QED BY <1>0, <1>2, <3>1
  <2>2. Proper(item)
    BY <1>0, <2>1 DEF Speech
  <2>. HIDE DEF item
  <2>3. /\ Len(Course(item)) = Len(Sent(item)) /\ Len(Sent(item)) >= 1 /\ Sent(item) \in Seq(Bytes)
        /\ Course(item)[1] = "normal" /\ Due(item, 0) = <<>>
    BY <2>2, ItemParts
  <2>4. Amid(item, 0, "normal", b)
    BY <2>3 DEF Amid
  <2>5. M[j] = M[j] \o Due(item, 0)
    <3>1. M[j] \in Seq(Seq(Deeds))
      BY DEF Adds
    <3>. QED BY <2>3, <3>1
  <2>6. Len(S[j]) \in Nat
    BY DEF Adds
  <2>7. Len(S[j]) = Len(S[j]) + 0 /\ 0 \in 0..Len(S[j])
    BY <2>6
  <2>. QED BY <2>1, <2>4, <2>5, <2>7 DEF Reached, item
<1>. QED
  BY <1>1, <1>2

\* After k bytes the machine, which was m, is v.
Gets(items, S, M, k, m, v) ==
    /\ Reached(items, S, M, k, v.state, v.baud, v.out)
    /\ (\A j \in DOMAIN items : items[j].kind # "baud") => v.baud = m.baud

\* The next byte
LEMMA ReachedStep ==
    ASSUME NEW items, Speech(items), NEW S, NEW M, Adds(items, S, M), Grows(S, Len(items)),
           NEW m \in Machine, NEW k \in Nat, k < Len(S[Len(items)]),
           Reached(items, S, M, k, m.state, m.baud, m.out)
    PROVE  Gets(items, S, M, k + 1, m, telnetChar(m, S[Len(items)][k + 1]))
<1>. DEFINE n == Len(items)
            c == S[n][k + 1]
            v == telnetChar(m, c)
<1>0. n \in Nat /\ DOMAIN items = 1..n
  BY DEF Speech
<1>1. PICK j \in 1..n, r \in 0..k :
          /\ k = Len(S[j - 1]) + r
          /\ Amid(items[j], r, m.state, m.baud) /\ m.out = M[j - 1] \o Due(items[j], r)
  <2>1. ~(k = Len(S[n]))
    <3>. DEFINE l == Len(S[n])
    <3>1. k < l
      OBVIOUS
    <3>. HIDE DEF l
    <3>2. l \in Nat => ~(k = l)
      BY <3>1
    <3>3. l \in Nat
      BY <1>0 DEF Adds, l
    <3>. QED BY <3>2, <3>3 DEF l
  <2>2. Reached(items, S, M, k, m.state, m.baud, m.out)
    OBVIOUS
  <2>. QED BY <2>1, <2>2 DEF Reached
<1>. DEFINE item == items[j]
            d == M[j - 1]
            u == Sent(item)
<1>2. Proper(item) /\ d \in Seq(Seq(Deeds)) /\ j - 1 \in 0..n /\ j \in 0..n
  <2>1. j - 1 \in 0..n /\ j \in 0..n
    <3>1. j \in 1..n
      OBVIOUS
    <3>. HIDE DEF n
    <3>. QED BY <1>0, <3>1
  <2>2. Proper(item)
    BY <1>0 DEF Speech
  <2>3. d \in Seq(Seq(Deeds))
    <3>1. \A i \in 0..n : M[i] \in Seq(Seq(Deeds))
      BY DEF Adds
    <3>. HIDE DEF n
    <3>. QED BY <2>1, <3>1
  <2>. QED BY <2>1, <2>2, <2>3
<1>3. S[j - 1] \in Seq(Bytes) /\ S[j] \in Seq(Bytes) /\ S[n] \in Seq(Bytes)
      /\ S[j] = S[j - 1] \o u /\ M[j] = d \o Meant(item)
  <2>1. (\A i \in 0..n : S[i] \in Seq(Bytes)) /\ n \in 0..n
    BY <1>0 DEF Adds
  <2>2. \A i \in 1..n : S[i] = S[i - 1] \o Sent(items[i]) /\ M[i] = M[i - 1] \o Meant(items[i])
    BY DEF Adds
  <2>. HIDE DEF n
  <2>. QED BY <1>2, <2>1, <2>2
<1>4. u \in Seq(Bytes) /\ Len(Course(item)) = Len(u)
  BY <1>2, ItemParts
<1>5. r \in 0..Len(u) - 1
  BY <1>1, <1>4 DEF Amid
<1>6. c = u[r + 1] /\ Len(S[j]) = Len(S[j - 1]) + Len(u)
  <2>. DEFINE p == S[j - 1]
  <2>1. Joins(p, u, S[j], Len(p), Len(u))
    BY <1>3, <1>4, Joined
  <2>2. Len(S[j]) <= Len(S[n]) /\ \A i \in 1..Len(S[j]) : S[n][i] = S[j][i]
    BY <1>0, <1>2 DEF Grows
  <2>. DEFINE lp == Len(p)
              lu == Len(u)
  <2>3. lp \in Nat /\ lu \in Nat /\ k = lp + r /\ r \in 0..lu - 1 /\ Len(S[j]) = lp + lu
    BY <1>1, <1>3, <1>4, <1>5, <2>1 DEF Joins
  <2>4. S[j][k + 1] = u[(k + 1) - lp] /\ k + 1 \in 1..Len(S[j])
    <3>. DEFINE z == k + 1
    <3>. HIDE DEF p, u, lp, lu
    <3>1. z \in lp + 1..lp + lu /\ z \in 1..Len(S[j])
      BY <2>3
    <3>. HIDE DEF z
    <3>2. \A i \in lp + 1 .. lp + lu : S[j][i] = u[i - lp]
      BY <2>1 DEF Joins, lp, lu
    <3>3. S[j][z] = u[z - lp]
      BY <3>1, <3>2
    <3>. QED BY <3>1, <3>3 DEF z
  <2>5. (k + 1) - lp = r + 1
    <3>. HIDE DEF p, u, lp, lu
    <3>. QED BY <2>3
  <2>. QED BY <2>2, <2>3, <2>4, <2>5
<1>7. Does1(item, r, m, d)
  BY <1>1 DEF Does1
<1>8. Proceeds(item, r, m, v, d)
  <2>1. Proceeds(item, r, m, telnetChar(m, Sent(item)[r + 1]), d)
    BY <1>2, <1>7, ItemProceeds, Zenon
  <2>. QED BY <1>6, <2>1
<1>. HIDE DEF v, c, d, item
<1>9. Reached(items, S, M, k + 1, v.state, v.baud, v.out)
  <2>1. CASE r + 1 < Len(u)
    <3>1. Does1(item, r + 1, v, d)
      BY <1>4, <1>8, <2>1 DEF Proceeds
    <3>2. r + 1 \in 0..k + 1 /\ k + 1 = Len(S[j - 1]) + (r + 1)
      <4>. DEFINE l == Len(S[j - 1])
      <4>1. l \in Nat /\ k = l + r
        BY <1>1, <1>3
      <4>. HIDE DEF l
      <4>2. r + 1 \in 0..k + 1 /\ k + 1 = l + (r + 1)
        BY <4>1
      <4>. QED BY <4>2 DEF l
    <3>. QED BY <3>1, <3>2 DEF Reached, Does1, item, d
  <2>2. CASE r + 1 = Len(u)
    <3>1. v.state = "normal" /\ v.out = M[j]
      BY <1>3, <1>4, <1>8, <2>2 DEF Proceeds
    <3>2. k + 1 = Len(S[j])
      <4>. DEFINE l == Len(S[j - 1])
                  lu == Len(u)
                  lj == Len(S[j])
      <4>1. l \in Nat /\ k = l + r /\ lu = r + 1 /\ lj = l + lu
        BY <1>1, <1>3, <1>6, <2>2
      <4>. HIDE DEF l, lu, lj
      <4>2. k + 1 = lj
        BY <4>1
      <4>. QED BY <4>2 DEF lj
    <3>3. Reached(items, S, M, Len(S[j]), "normal", v.baud, M[j])
      BY <1>2, ItemBegins
    <3>. QED BY <3>1, <3>2, <3>3
  <2>. QED BY <1>4, <1>5, <2>1, <2>2
<1>10. (\A i \in DOMAIN items : items[i].kind # "baud") => v.baud = m.baud
  BY <1>0, <1>8 DEF Proceeds, item
<1>. QED
  BY <1>9, <1>10 DEF Gets, v, c

\* What has been done begins what is meant, and at the end is all of it.
LEMMA ReachedEnd ==
    ASSUME NEW items, Speech(items), NEW S, NEW M, Adds(items, S, M), Grows(S, Len(items)),
           Grows(M, Len(items)), NEW k \in Nat, NEW t, NEW b, NEW done,
           Reached(items, S, M, k, t, b, done)
    PROVE  /\ IsPrefix(done, M[Len(items)])
           /\ k = Len(S[Len(items)]) => done = M[Len(items)]
<1>. DEFINE n == Len(items)
<1>0. n \in Nat /\ DOMAIN items = 1..n
  BY DEF Speech
<1>1. /\ \A j \in 0..n : S[j] \in Seq(Bytes) /\ M[j] \in Seq(Seq(Deeds))
      /\ \A j \in 1..n : S[j] = S[j - 1] \o Sent(items[j]) /\ M[j] = M[j - 1] \o Meant(items[j])
  BY DEF Adds
<1>2. \A j \in 0..n : IsPrefix(M[j], M[n])
  <2>. SUFFICES ASSUME NEW j \in 0..n PROVE IsPrefix(M[j], M[n])
    OBVIOUS
  <2>1. n \in 0..n /\ j <= n
    BY <1>0
  <2>2. Len(M[j]) <= Len(M[n]) /\ \A i \in 1..Len(M[j]) : M[n][i] = M[j][i]
    BY <2>1 DEF Grows
  <2>. DEFINE p == M[j]
              q == M[n]
              l == Len(p)
  <2>3. p \in Seq(Seq(Deeds)) /\ q \in Seq(Seq(Deeds)) /\ l \in 0..Len(p) /\ l \in 0..Len(q)
    BY <1>1, <2>1, <2>2
  <2>. DEFINE x == SubSeq(p, 1, l)
              y == SubSeq(q, 1, l)
  <2>4. x \in Seq(Seq(Deeds)) /\ PrefixOf(x, p, l)
    BY <2>3, PrefixParts
  <2>5. y \in Seq(Seq(Deeds)) /\ PrefixOf(y, q, l)
    BY <2>3, PrefixParts
  <2>6. \A i \in 1..l : q[i] = p[i]
    BY <2>2
  <2>7. Len(p) <= Len(q)
    BY <2>2
  <2>8. IsPrefix(p, q) <=> Len(p) <= Len(q) /\ x = y
    BY DEF IsPrefix
  <2>. HIDE DEF x, y, p, q, l
  <2>9. Len(x) = Len(y) /\ \A i \in 1..Len(x) : x[i] = y[i]
    BY <2>4, <2>5, <2>6 DEF PrefixOf
  <2>10. x = y
    BY <2>4, <2>5, <2>9, SeqEqual
  <2>. QED BY <2>7, <2>8, <2>10 DEF p, q
<1>3. CASE k = Len(S[n]) /\ t = "normal" /\ done = M[n]
  <2>1. n \in 0..n
    BY <1>0
  <2>. QED BY <1>2, <1>3, <2>1
<1>4. ASSUME NEW j \in 1..n, NEW r \in 0..k, k = Len(S[j - 1]) + r, Amid(items[j], r, t, b),
             done = M[j - 1] \o Due(items[j], r)
      PROVE  IsPrefix(done, M[n]) /\ ~(k = Len(S[n]))
  <2>. DEFINE item == items[j]
              d == M[j - 1]
              e == Due(item, r)
              u == Sent(item)
  <2>1. Proper(item)
    BY <1>0 DEF Speech
  <2>2. j - 1 \in 0..n /\ j \in 0..n /\ j <= n /\ n \in 0..n
    <3>1. j \in 1..n
      OBVIOUS
    <3>. HIDE DEF n
    <3>. QED BY <1>0, <3>1
  <2>3. d \in Seq(Seq(Deeds)) /\ M[j] = d \o Meant(item) /\ S[j] = S[j - 1] \o u
        /\ S[j - 1] \in Seq(Bytes)
    <3>. HIDE DEF n
    <3>. QED BY <1>1, <2>2
  <2>4. u \in Seq(Bytes) /\ Len(Course(item)) = Len(u) /\ (e = <<>> \/ e = Meant(item))
    BY <2>1, ItemParts
  <2>5. done = M[j - 1] \/ done = M[j]
    <3>1. d \o <<>> = d
      BY <2>3
    <3>. HIDE DEF d, e
    <3>2. done = d \o e
      BY <1>4 DEF d, e
    <3>3. done = d \/ done = M[j]
      BY <2>3, <2>4, <3>1, <3>2
    <3>. QED BY <3>3 DEF d
  <2>6. IsPrefix(done, M[n])
    BY <1>2, <2>2, <2>5
  <2>7. ~(k = Len(S[n]))
    <3>. DEFINE p == S[j - 1]
                lp == Len(p)
                lu == Len(u)
                lj == Len(S[j])
                ln == Len(S[n])
    <3>1. lj <= ln
      BY <2>2 DEF Grows
    <3>2. lj = lp + lu /\ lp \in Nat /\ lu \in Nat
      BY <2>3, <2>4
    <3>3. r \in 0..lu - 1
      BY <1>4, <2>4 DEF Amid
    <3>4. k = lp + r
      BY <1>4
    <3>5. ln \in Nat /\ lj \in Nat
      BY <1>1, <2>2
    <3>. HIDE DEF lp, lu, lj, ln
    <3>6. ~(k = ln)
      BY <3>1, <3>2, <3>3, <3>4, <3>5
    <3>. QED BY <3>6 DEF ln
  <2>. QED BY <2>6, <2>7
<1>. QED
  BY <1>3, <1>4 DEF Reached

-----------------------------------------------------------------------------
(* A packet *)

\* The machine along data
Passes(after, m, data) ==
    /\ after[0] = m
    /\ \A k \in 1..Len(data) : after[k] = telnetChar(after[k - 1], data[k])
    /\ \A k \in 0..Len(data) : after[k] \in Machine

LEMMA UnwrapSteps ==
    ASSUME NEW m \in Machine, NEW data \in Seq(Bytes)
    PROVE  \E after : Passes(after, m, data) /\ telnetUnwrap(m, data) = after[Len(data)]
<1>. DEFINE Is(g, k) ==
              g = [n \in 0..k |-> IF n = 0 THEN m ELSE telnetChar(g[n - 1], data[n])]
            T == {k \in Nat : \E g : Is(g, k)}
            after == CHOOSE g : Is(g, Len(data))
            U == {k \in Nat : k <= Len(data) => after[k] \in Machine}
<1>1. 0 \in T
  <2>1. Is([n \in 0..0 |-> m], 0)
    OBVIOUS
  <2>. QED BY <2>1
<1>2. \A k \in T : k + 1 \in T
  <2>. SUFFICES ASSUME NEW k \in T PROVE k + 1 \in T
    OBVIOUS
  <2>. PICK g : Is(g, k)
    OBVIOUS
  <2>. DEFINE h == [n \in 0..k + 1 |-> IF n = 0 THEN m ELSE telnetChar(g[n - 1], data[n])]
  <2>1. \A n \in 0..k : h[n] = g[n]
    OBVIOUS
  <2>2. \A n \in 0..k + 1 : n # 0 => n - 1 \in 0..k
    OBVIOUS
  <2>3. Is(h, k + 1)
    BY <2>1, <2>2
  <2>4. k + 1 \in Nat
    OBVIOUS
  <2>5. \E f : Is(f, k + 1)
    <3>. HIDE DEF h
    <3>. QED BY <2>3
  <2>. QED BY <2>4, <2>5
<1>3. T = Nat
  <2>1. T \subseteq Nat
    OBVIOUS
  <2>. HIDE DEF T
  <2>. QED BY <1>1, <1>2, <2>1, Induction
<1>4. Is(after, Len(data))
  <2>1. Len(data) \in T
    BY <1>3
  <2>2. \E g : Is(g, Len(data))
    BY <2>1
  <2>. QED BY <2>2
<1>5. telnetUnwrap(m, data) = after[Len(data)]
  BY DEF telnetUnwrap
<1>. HIDE DEF after
<1>6. 0 \in U
  BY <1>4
<1>7. \A k \in U : k + 1 \in U
  <2>. SUFFICES ASSUME NEW k \in Nat, k + 1 <= Len(data), after[k] \in Machine
                PROVE  after[k + 1] \in Machine
    OBVIOUS
  <2>1. after[k + 1] = telnetChar(after[k], data[k + 1])
    BY <1>4
  <2>2. data[k + 1] \in Bytes
    OBVIOUS
  <2>. QED BY <2>1, <2>2, CharType
<1>8. U = Nat
  <2>1. U \subseteq Nat
    OBVIOUS
  <2>. HIDE DEF U
  <2>. QED BY <1>6, <1>7, <2>1, Induction
<1>9. \A k \in 0..Len(data) : after[k] \in Machine
  <2>1. \A k \in 0..Len(data) : k \in U /\ k <= Len(data)
    BY <1>8
  <2>. QED BY <2>1
<1>10. after[0] = m /\ \A k \in 1..Len(data) : after[k] = telnetChar(after[k - 1], data[k])
  BY <1>4
<1>. QED
  BY <1>5, <1>9, <1>10 DEF Passes

\* data is what comes after k bytes, the machine being m.
Comes(items, S, M, k, m, data) ==
    /\ Speech(items) /\ Adds(items, S, M) /\ Grows(S, Len(items))
    /\ m \in Machine /\ k \in Nat /\ data \in Seq(Bytes)
    /\ k + Len(data) <= Len(S[Len(items)])
    /\ \A i \in 1..Len(data) : data[i] = S[Len(items)][(k + i - 1) + 1]
    /\ Reached(items, S, M, k, m.state, m.baud, m.out)

LEMMA PacketHeard ==
    ASSUME NEW items, NEW S, NEW M, NEW k, NEW m, NEW data, Comes(items, S, M, k, m, data)
    PROVE  Gets(items, S, M, k + Len(data), m, telnetUnwrap(m, data))
<1>0. /\ Speech(items) /\ Adds(items, S, M) /\ Grows(S, Len(items))
      /\ m \in Machine /\ k \in Nat /\ data \in Seq(Bytes)
      /\ k + Len(data) <= Len(S[Len(items)])
      /\ \A i \in 1..Len(data) : data[i] = S[Len(items)][(k + i - 1) + 1]
      /\ Reached(items, S, M, k, m.state, m.baud, m.out)
  BY DEF Comes
<1>. USE <1>0
<1>. DEFINE w == S[Len(items)]
            l == Len(data)
            lw == Len(w)
            quiet == \A j \in DOMAIN items : items[j].kind # "baud"
            Has(v, i) == Reached(items, S, M, k + i, v.state, v.baud, v.out)
                         /\ (quiet => v.baud = m.baud)
<1>1. PICK after : Passes(after, m, data) /\ telnetUnwrap(m, data) = after[Len(data)]
  BY UnwrapSteps
<1>. DEFINE T == {i \in Nat : i <= l => Has(after[i], i)}
<1>2. 0 \in T
  <2>1. after[0] = m /\ k + 0 = k
    BY <1>1 DEF Passes
  <2>. QED BY <2>1
<1>3. \A i \in T : i + 1 \in T
  <2>. SUFFICES ASSUME NEW i \in Nat, i + 1 <= l, Has(after[i], i) PROVE Has(after[i + 1], i + 1)
    OBVIOUS
  <2>. DEFINE x == after[i]
              y == after[i + 1]
              kk == k + i
  <2>0. l \in Nat /\ k + l <= lw
    OBVIOUS
  <2>1. kk \in Nat /\ kk + 1 = k + (i + 1) /\ i + 1 \in 1..l /\ (i + 1) - 1 = i /\ i \in 0..l
        /\ k + (i + 1) - 1 = kk
    <3>. HIDE DEF l, lw
    <3>. QED BY <2>0
  <2>2. kk < lw
    <3>1. lw \in Nat
      <4>1. Len(items) \in 0..Len(items)
        BY DEF Speech
      <4>. QED BY <4>1 DEF Adds
    <3>. HIDE DEF l, lw
    <3>. QED BY <2>0, <3>1
  <2>3. data[i + 1] = w[kk + 1]
    BY <2>1
  <2>4. x \in Machine /\ y = telnetChar(x, data[i + 1])
    BY <1>1, <2>1 DEF Passes
  <2>5. Reached(items, S, M, kk, x.state, x.baud, x.out) /\ (quiet => x.baud = m.baud)
    OBVIOUS
  <2>. HIDE DEF x, y, kk
  <2>6. /\ Reached(items, S, M, kk + 1, y.state, y.baud, y.out)
        /\ (quiet => y.baud = x.baud)
    <3>1. Gets(items, S, M, kk + 1, x, telnetChar(x, S[Len(items)][kk + 1]))
      BY <2>1, <2>2, <2>4, <2>5, ReachedStep
    <3>2. Gets(items, S, M, kk + 1, x, y)
      BY <2>3, <2>4, <3>1
    <3>. QED BY <3>2 DEF Gets
  <2>7. Has(y, i + 1)
    BY <2>1, <2>5, <2>6
  <2>. QED BY <2>7 DEF y
<1>4. T = Nat
  <2>1. T \subseteq Nat
    OBVIOUS
  <2>. HIDE DEF T
  <2>. QED BY <1>2, <1>3, <2>1, Induction
<1>5. Has(after[l], l)
  <2>1. l \in T /\ l <= l
    BY <1>4
  <2>. HIDE DEF l, Has
  <2>. QED BY <2>1
<1>. QED
  BY <1>1, <1>5 DEF Gets

-----------------------------------------------------------------------------
(* Sending does not touch what a client has to say and what is made of it. *)

\* b is a bundle, whatever is in it.
Shape(b) ==
    /\ b = [f \in {"s", "k", "h"} |-> b[f]]
    /\ b.s = [f \in {"conn", "mode", "telnet", "tx", "sent", "overflow", "ready"} |-> b.s[f]]
    /\ b.k = [f \in {"state", "reverse", "sending"} |-> b.k[f]]
    /\ b.h = [f \in {"unread", "done", "owed", "lossy"} |-> b.h[f]]
    /\ b.s.overflow \in {"no", "since", "stuck"}

Still(a, b) ==
    /\ a.s.conn = b.s.conn /\ a.s.mode = b.s.mode /\ a.s.telnet = b.s.telnet
    /\ a.h.unread = b.h.unread /\ a.h.done = b.h.done

Holds(a, b) == Shape(a) /\ Still(a, b)

LEMMA HoldsOn ==
    \A a, b, c : Holds(a, b) /\ Holds(b, c) => Holds(a, c)
BY DEF Holds, Still

LEMMA LostHolds ==
    ASSUME NEW b, Shape(b)
    PROVE  Holds(Lost(b), b) /\ Holds(b, b)
BY DEF Holds, Still, Shape, Lost

LEMMA OverflowHolds ==
    ASSUME NEW b, Shape(b)
    PROVE  Holds(Overflow(b), b)
<1>. DEFINE x == CASE b.s.overflow = "no"    -> [b EXCEPT !.s.overflow = "since"]
                   [] b.s.overflow = "since" -> b
                   [] b.s.overflow = "stuck" -> [b EXCEPT !.k.state = "closing"]
<1>1. Overflow(b) = Lost(x)
  BY DEF Overflow
<1>2. Holds(b, b) /\ Holds([b EXCEPT !.s.overflow = "since"], b) /\ Holds([b EXCEPT !.k.state = "closing"], b)
  BY DEF Holds, Still, Shape
<1>3. Holds(x, b)
  BY <1>2 DEF Shape
<1>. HIDE DEF x
<1>4. Holds(Lost(x), x)
  BY <1>3, LostHolds DEF Holds
<1>. QED
  BY <1>1, <1>3, <1>4, HoldsOn

LEMMA SendHolds ==
    ASSUME NEW b, Shape(b), NEW ok \in BOOLEAN
    PROVE  Holds(sendtxbuffer(b, ok), b)
<1>. DEFINE o == IF b.s.overflow = "no" THEN "since" ELSE b.s.overflow
            x == [b EXCEPT !.s.ready = FALSE, !.s.sent = b.s.tx, !.s.tx = <<>>, !.k.sending = b.s.tx]
            y == [b EXCEPT !.s.ready = FALSE, !.s.tx = <<>>, !.s.overflow = o]
            z == [b EXCEPT !.s.ready = FALSE, !.s.tx = <<>>,
                           !.s.overflow = IF @ = "no" THEN "since" ELSE @]
<1>1. Holds(x, b)
  BY DEF Holds, Still, Shape
<1>2. z = y
  BY DEF Shape
<1>3. Holds(y, b)
  <2>1. o \in {"no", "since", "stuck"}
    BY DEF Shape
  <2>. HIDE DEF o
  <2>. QED BY <2>1 DEF Holds, Still, Shape
<1>4. sendtxbuffer(b, ok) \in {b, x, Lost(z)}
  <2>1. b.s.tx = <<>> => sendtxbuffer(b, ok) = b
    BY DEF sendtxbuffer
  <2>2. b.s.tx # <<>> /\ ok => sendtxbuffer(b, ok) = x
    BY DEF sendtxbuffer
  <2>3. b.s.tx # <<>> /\ ~ok => sendtxbuffer(b, ok) = Lost(z)
    BY DEF sendtxbuffer
  <2>. QED BY <2>1, <2>2, <2>3
<1>. HIDE DEF x, y, z
<1>5. Holds(Lost(z), b)
  <2>1. Holds(Lost(z), z)
    BY <1>2, <1>3, LostHolds DEF Holds
  <2>. QED BY <1>2, <1>3, <2>1, HoldsOn
<1>6. Holds(b, b)
  BY LostHolds
<1>. QED
  BY <1>1, <1>4, <1>5, <1>6

LEMMA BufferedHolds ==
    ASSUME NEW b, Shape(b), NEW data, NEW outcome
    PROVE  Holds(Buffered(b, data, outcome), b)
<1>. DEFINE u == Fits(b, data)
            r == Rest(b, data)
            f == [b EXCEPT !.s.tx = @ \o u]
            ok == outcome # "send"
            g == IF b.s.ready THEN sendtxbuffer(f, ok) ELSE f
            w == Fits(g, r)
            again == [g EXCEPT !.s.tx = w]
            e == IF Rest(g, r) = <<>> THEN again ELSE Overflow(again)
<1>1. Holds(f, b)
  <2>. HIDE DEF u
  <2>1. f = [b EXCEPT !.s.tx = b.s.tx \o u]
    BY DEF Shape
  <2>. DEFINE t == b.s.tx \o u
  <2>. HIDE DEF t
  <2>2. Holds([b EXCEPT !.s.tx = t], b)
    BY DEF Holds, Still, Shape
  <2>. QED BY <2>1, <2>2 DEF t
<1>2. Holds(g, b)
  <2>1. ok \in BOOLEAN
    OBVIOUS
  <2>. HIDE DEF f, ok
  <2>2. Holds(sendtxbuffer(f, ok), f)
    BY <1>1, <2>1, SendHolds DEF Holds
  <2>3. Holds(sendtxbuffer(f, ok), b)
    BY <1>1, <2>2, HoldsOn
  <2>. QED BY <1>1, <2>3
<1>3. Buffered(b, data, outcome) =
        CASE r = <<>>                   -> g
          [] r # <<>> /\ g.s.tx # <<>>  -> Overflow(g)
          [] r # <<>> /\ g.s.tx = <<>> /\ outcome = "realloc" -> Lost(g)
          [] r # <<>> /\ g.s.tx = <<>> /\ outcome # "realloc" -> e
  BY DEF Buffered
<1>. HIDE DEF g, r
<1>4. Holds(again, b)
  <2>. HIDE DEF w
  <2>1. Holds(again, g)
    BY <1>2 DEF Holds, Still, Shape
  <2>. QED BY <1>2, <2>1, HoldsOn
<1>. HIDE DEF again
<1>5. Holds(Overflow(g), b) /\ Holds(Lost(g), b)
  <2>1. Holds(Overflow(g), g) /\ Holds(Lost(g), g)
    BY <1>2, OverflowHolds, LostHolds DEF Holds
  <2>. QED BY <1>2, <2>1, HoldsOn
<1>6. Holds(e, b)
  <2>1. Holds(Overflow(again), again)
    BY <1>4, OverflowHolds DEF Holds
  <2>2. Holds(Overflow(again), b)
    BY <1>4, <2>1, HoldsOn
  <2>. QED BY <1>4, <2>2
<1>. HIDE DEF e
<1>7. Buffered(b, data, outcome) \in {g, Overflow(g), Lost(g), e}
  BY <1>3
<1>. QED
  BY <1>2, <1>5, <1>6, <1>7

LEMMA espbuffsendHolds ==
    ASSUME NEW b, Shape(b), NEW data, NEW outcome
    PROVE  Holds(espbuffsend(b, data, outcome), b)
<1>. DEFINE q == IF b.h.lossy THEN b ELSE [b EXCEPT !.h.owed = @ \o data]
<1>1. Holds(q, b)
  <2>1. Holds([b EXCEPT !.h.owed = @ \o data], b)
    <3>1. [b EXCEPT !.h.owed = @ \o data] = [b EXCEPT !.h.owed = b.h.owed \o data]
      BY DEF Shape
    <3>. DEFINE t == b.h.owed \o data
    <3>. HIDE DEF t
    <3>2. Holds([b EXCEPT !.h.owed = t], b)
      BY DEF Holds, Still, Shape
    <3>. QED BY <3>1, <3>2 DEF t
  <2>2. Holds(b, b)
    BY LostHolds
  <2>. QED BY <2>1, <2>2
<1>2. espbuffsend(b, data, outcome) \in {Overflow(b), Lost(b), Buffered(q, data, outcome)}
  <2>1. Len(b.s.tx) >= MAX_TXBUFFER => espbuffsend(b, data, outcome) = Overflow(b)
    BY SerBridgeAssumption DEF espbuffsend
  <2>. HIDE DEF q
  <2>. QED BY DEF espbuffsend, q
<1>. HIDE DEF q
<1>3. Holds(Buffered(q, data, outcome), b)
  <2>1. Holds(Buffered(q, data, outcome), q)
    BY <1>1, BufferedHolds DEF Holds
  <2>. QED BY <1>1, <2>1, HoldsOn
<1>4. Holds(Overflow(b), b) /\ Holds(Lost(b), b)
  BY OverflowHolds, LostHolds
<1>. QED
  BY <1>2, <1>3, <1>4

-----------------------------------------------------------------------------
(* Steps *)

LEMMA UnderstoodStill ==
    ASSUME NEW items, NEW k, NEW s, NEW h, NEW b, Understood(items, k, s, h, b), NEW t, NEW g,
           t.mode = s.mode, t.telnet = s.telnet, g.unread = h.unread, g.done = h.done
    PROVE  Understood(items, k, t, g, b)
BY DEF Understood

\* Where no rate is set the bytes of a rate do not matter.
LEMMA UnderstoodAnyRate ==
    ASSUME NEW items, NEW k, NEW s, NEW h, NEW b, NEW e, Understood(items, k, s, h, b),
           \A j \in DOMAIN items : items[j].kind # "baud", items \in Seq(Items)
    PROVE  Understood(items, k, s, h, e)
<1>1. DOMAIN items = 1..Len(items)
  OBVIOUS
<1>2. \A j \in 1..Len(items) : \A r, t : Amid(items[j], r, t, b) => Amid(items[j], r, t, e)
  BY <1>1 DEF Amid
<1>3. At(items, k, s.telnet, b, h.done) => At(items, k, s.telnet, e, h.done)
  BY <1>2 DEF At
<1>. QED
  BY <1>3 DEF Understood

\* The client of slot i
Follows(i) ==
    /\ connData[i].conn \in load.clients
    /\ \E k \in 0..Len(Says(connData[i].conn)) :
          Understood(load.says[connData[i].conn], k, connData[i], client[connData[i].conn], baud)

\* The slot i stays as far as hearing goes.
Stays(i) ==
    /\ connData'[i].conn = connData[i].conn
    /\ connData'[i].mode = connData[i].mode /\ connData'[i].telnet = connData[i].telnet
    /\ client'[connData[i].conn].unread = client[connData[i].conn].unread
    /\ client'[connData[i].conn].done = client[connData[i].conn].done

LEMMA FollowsStill ==
    ASSUME NEW i, Follows(i), Stays(i), load' = load,
           \/ baud' = baud
           \/ /\ \A j \in DOMAIN load.says[connData[i].conn] : load.says[connData[i].conn][j].kind # "baud"
              /\ load.says[connData[i].conn] \in Seq(Items)
    PROVE  Follows(i)'
<1>. DEFINE c == connData[i].conn
            items == load.says[c]
<1>1. PICK k \in 0..Len(Says(c)) : Understood(items, k, connData[i], client[c], baud)
  BY DEF Follows
<1>2. Understood(items, k, connData'[i], client'[c], baud)
  BY <1>1, UnderstoodStill DEF Stays
<1>3. Understood(items, k, connData'[i], client'[c], baud')
  <2>1. CASE baud' = baud
    BY <1>2, <2>1
  <2>2. CASE /\ \A j \in DOMAIN items : items[j].kind # "baud"
             /\ items \in Seq(Items)
    BY <1>2, <2>2, UnderstoodAnyRate
  <2>. QED BY <2>1, <2>2
<1>4. connData'[i].conn = c /\ Says(connData[i].conn)' = Says(connData[i].conn)
  BY DEF Stays, Says
<1>5. c \in load.clients
  BY DEF Follows
<1>6. Follows(i)' <=> /\ connData'[i].conn \in load'.clients
                      /\ \E n \in 0..Len(Says(connData[i].conn)') :
                            Understood(load'.says[connData'[i].conn], n, connData'[i],
                                       client'[connData'[i].conn], baud')
  BY DEF Follows
<1>. QED
  BY <1>3, <1>4, <1>5, <1>6

\* Nobody is heard.
LEMMA Unheard ==
    ASSUME Understands, load' = load, baud' = baud, Open' \subseteq Open, \A i \in Open' : Stays(i)
    PROVE  Understands'
<1>1. \A i \in Open' : Follows(i)'
  BY FollowsStill DEF Understands, Follows
<1>. QED
  BY <1>1 DEF Understands, Follows

LEMMA BundleShape ==
    ASSUME BridgeInv, NEW i \in Open
    PROVE  Shape(Bundle(i))
<1>1. /\ Bundle(i) \in Bundles
  BY BundleGood DEF Good
<1>. DEFINE b == Bundle(i)
<1>. HIDE DEF b
<1>2. b \in Bundles
  BY <1>1 DEF b
<1>3. b.s \in Slots /\ b.k \in Sides /\ b.h \in Clients /\ b = [f \in {"s", "k", "h"} |-> b[f]]
  BY <1>2 DEF Bundles
<1>4. Shape(b)
  BY <1>3 DEF Shape, Slots, Sides, Clients
<1>. QED
  BY <1>4 DEF b

\* Slots whose bundles stay as far as hearing goes stay.
LEMMA BecomeStays ==
    ASSUME BridgeInv, NEW b, DOMAIN b \subseteq Open, Become(b),
           \A i \in DOMAIN b : Holds(b[i], Bundle(i))
    PROVE  Open' \subseteq Open /\ \A i \in Open' : Stays(i)
<1>1. \A i \in DOMAIN b : /\ i \in 1..MAX_CONN
                          /\ b[i].s.conn = connData[i].conn /\ b[i].s.mode = connData[i].mode
                          /\ b[i].s.telnet = connData[i].telnet
                          /\ b[i].h.unread = client[connData[i].conn].unread
                          /\ b[i].h.done = client[connData[i].conn].done
  <2>. SUFFICES ASSUME NEW i \in DOMAIN b
                PROVE  /\ i \in 1..MAX_CONN
                       /\ b[i].s.conn = connData[i].conn /\ b[i].s.mode = connData[i].mode
                       /\ b[i].s.telnet = connData[i].telnet
                       /\ b[i].h.unread = client[connData[i].conn].unread
                       /\ b[i].h.done = client[connData[i].conn].done
    OBVIOUS
  <2>1. i \in Open
    OBVIOUS
  <2>2. i \in 1..MAX_CONN /\ Bundle(i).s = connData[i] /\ Bundle(i).h = client[connData[i].conn]
    BY <2>1, BundleGood
  <2>. QED BY <2>2 DEF Holds, Still
<1>2. \A i \in 1..MAX_CONN : connData'[i] = IF i \in DOMAIN b THEN b[i].s ELSE connData[i]
  BY DEF Become
<1>3. \A c \in Conns : client'[c] = IF SlotOf(c) \in DOMAIN b THEN b[SlotOf(c)].h ELSE client[c]
  BY DEF Become
<1>4. Open' \subseteq Open
  BY <1>1, <1>2 DEF Open
<1>5. ASSUME NEW i \in Open PROVE Stays(i)
  <2>1. i \in 1..MAX_CONN /\ connData[i].conn \in Conns /\ SlotOf(connData[i].conn) = i
    BY BundleGood DEF SlotOf
  <2>. QED BY <1>1, <1>2, <1>3, <2>1 DEF Stays
<1>. QED
  BY <1>4, <1>5

LEMMA OneStays ==
    ASSUME BridgeInv, NEW i \in Open, NEW x, Holds(x, Bundle(i)), Becomes(i, x)
    PROVE  Open' \subseteq Open /\ \A j \in Open' : Stays(j)
<1>. DEFINE b == [j \in {i} |-> x]
<1>1. DOMAIN b = {i} /\ b[i] = x
  OBVIOUS
<1>. HIDE DEF b
<1>2. Become(b) /\ DOMAIN b \subseteq Open /\ \A j \in DOMAIN b : Holds(b[j], Bundle(j))
  BY <1>1 DEF b, Becomes
<1>. QED
  BY <1>2, BecomeStays

\* Who leaves the connections alone
LEMMA UntouchedStays ==
    ASSUME connData' = connData, client' = client
    PROVE  Open' \subseteq Open /\ \A i \in Open' : Stays(i)
BY DEF Open, Stays

LEMMA RecvTaskUnheard ==
    ASSUME BridgeInv, uart_recvTask
    PROVE  Open' \subseteq Open /\ \A i \in Open' : Stays(i)
<1>1. CASE UNCHANGED <<connData, sdk, client>>
  BY <1>1, UntouchedStays
<1>2. CASE console_process(Buffer)
  <2>1. PICK outcome \in [Open -> Outcomes] :
           Become([i \in Open |-> espbuffsend(Bundle(i), Buffer, outcome[i])])
    BY <1>2 DEF console_process
  <2>. DEFINE b == [i \in Open |-> espbuffsend(Bundle(i), Buffer, outcome[i])]
  <2>2. \A i \in Open : Holds(b[i], Bundle(i))
    BY BundleShape, espbuffsendHolds
  <2>3. DOMAIN b \subseteq Open /\ Become(b)
    BY <2>1
  <2>. HIDE DEF b
  <2>. QED BY <2>2, <2>3, BecomeStays
<1>. QED
  BY <1>1, <1>2 DEF serbridgeUartCb, uart_recvTask

LEMMA SentUnheard ==
    ASSUME BridgeInv, NEW c \in Conns, serbridgeSentCb(c)
    PROVE  Open' \subseteq Open /\ \A i \in Open' : Stays(i)
<1>. DEFINE i == SlotOf(c)
            b == Bundle(i)
            l == Len(sdk[c].sending)
            y == [b EXCEPT !.h.owed = SubSeq(@, l + 1, Len(@)), !.k.sending = <<>>,
                           !.s.sent = <<>>, !.s.ready = TRUE, !.s.overflow = "no"]
<1>1. SlotOf(c) # 0
  BY DEF serbridgeSentCb
<1>2. PICK outcome \in Outcomes \ {"alloc", "realloc"} :
         Becomes(i, sendtxbuffer(y, outcome # "send"))
  BY DEF serbridgeSentCb
<1>3. i \in Open
  BY <1>1, SlotOfOpen
<1>4. Shape(b)
  BY <1>3, BundleShape
<1>5. Holds(y, b)
  <2>. DEFINE u == SubSeq(b.h.owed, l + 1, Len(b.h.owed))
              z == [b EXCEPT !.h.owed = u, !.k.sending = <<>>,
                             !.s.sent = <<>>, !.s.ready = TRUE, !.s.overflow = "no"]
  <2>. HIDE DEF i, b, l
  <2>1. y = z
    BY <1>4 DEF Shape
  <2>. HIDE DEF u, y
  <2>2. Holds(z, b)
    BY <1>4 DEF Holds, Still, Shape
  <2>. QED BY <2>1, <2>2
<1>. HIDE DEF y
<1>. DEFINE ok == outcome # "send"
            x == sendtxbuffer(y, ok)
<1>6. ok \in BOOLEAN /\ Becomes(i, x)
  BY <1>2
<1>. HIDE DEF ok, i
<1>7. Holds(x, b)
  <2>1. Holds(x, y)
    BY <1>5, <1>6, SendHolds DEF Holds
  <2>. HIDE DEF x, b
  <2>. QED BY <1>5, <2>1, HoldsOn
<1>. HIDE DEF x
<1>. QED
  BY <1>3, <1>6, <1>7, OneStays

LEMMA TenSecondsUnheard ==
    ASSUME BridgeInv, TenSeconds
    PROVE  Open' \subseteq Open /\ \A i \in Open' : Stays(i)
<1>1. client' = client
  BY DEF TenSeconds
<1>2. PICK i \in Open : connData' = [connData EXCEPT ![i].overflow = "stuck"]
  BY DEF TenSeconds
<1>3. i \in 1..MAX_CONN /\ connData \in [1..MAX_CONN -> Slots]
  BY DEF Open, BridgeInv, BridgeType
<1>4. \A j \in 1..MAX_CONN : /\ connData'[j].conn = connData[j].conn /\ connData'[j].mode = connData[j].mode
                             /\ connData'[j].telnet = connData[j].telnet
  BY <1>2, <1>3 DEF Slots
<1>. QED
  BY <1>1, <1>4 DEF Open, Stays

LEMMA DisconUnheard ==
    ASSUME BridgeInv, NEW c \in Conns, serbridgeDisconCb(c)
    PROVE  Open' \subseteq Open /\ \A i \in Open' : Stays(i)
<1>. DEFINE i == SlotOf(c)
<1>1. /\ client' = [client EXCEPT ![c] = [Fresh(c) EXCEPT !.unread = <<>>]]
      /\ IF i = 0 THEN connData' = connData
         ELSE connData' = [connData EXCEPT ![i].conn = NoConn, ![i].tx = <<>>, ![i].sent = <<>>]
  BY DEF serbridgeDisconCb
<1>2. \A d \in Conns : d # c => client'[d] = client[d]
  BY <1>1 DEF BridgeInv, BridgeType
<1>3. \A j \in Open : j \in 1..MAX_CONN /\ connData[j].conn \in Conns /\ SlotOf(connData[j].conn) = j
  BY BundleGood DEF SlotOf
<1>4. connData \in [1..MAX_CONN -> Slots]
  BY DEF BridgeInv, BridgeType
<1>5. CASE i = 0
  <2>1. connData' = connData
    BY <1>1, <1>5
  <2>2. \A j \in Open : connData[j].conn # c
    BY <1>3, <1>5
  <2>3. Open' = Open
    BY <2>1 DEF Open
  <2>. QED BY <1>2, <1>3, <2>1, <2>2, <2>3 DEF Stays
<1>6. CASE i # 0
  <2>1. i \in Open /\ connData[i].conn = c
    BY <1>6, SlotOfOpen
  <2>. HIDE DEF i
  <2>2. i \in 1..MAX_CONN
    BY <2>1, <1>3
  <2>3. connData' = [connData EXCEPT ![i].conn = NoConn, ![i].tx = <<>>, ![i].sent = <<>>]
    BY <1>1, <1>6
  <2>4. connData'[i].conn = NoConn /\ \A j \in 1..MAX_CONN : j # i => connData'[j] = connData[j]
    BY <1>4, <2>2, <2>3 DEF Slots
  <2>5. Open' \subseteq Open \ {i}
    BY <2>4 DEF Open
  <2>6. \A j \in Open \ {i} : connData[j].conn # c
    BY <1>3, <2>1
  <2>. QED BY <1>2, <1>3, <2>4, <2>5, <2>6 DEF Stays
<1>. QED
  BY <1>5, <1>6

\* What a client of the load says
LEMMA ClientSpeech ==
    ASSUME OneRate, load \in Loads, NEW c \in Conns, c \in load.clients
    PROVE  /\ Speech(load.says[c])
           /\ Says(c) = SentBy(load.says[c])[Len(load.says[c])]
<1>. DEFINE items == load.says[c]
<1>1. items \in Seq(Items)
  BY SerBridgeAssumption
<1>2. \A j \in DOMAIN items : Proper(items[j])
  BY DEF OneRate
<1>3. Speech(items)
  BY <1>1, <1>2 DEF Speech
<1>4. SentBy(items)[Len(items)] = FlattenSeq([j \in DOMAIN items |-> Sent(items[j])])
  BY <1>3, SpeechParts
<1>. QED
  BY <1>3, <1>4 DEF Says

\* Nothing has been heard of a client that has just come.
LEMMA NothingHeard ==
    ASSUME NEW items, Speech(items), NEW s, NEW h, NEW b, s.mode \in {"init", "pgmInit"},
           s.telnet = "normal", h.done = <<>>, h.unread = SentBy(items)[Len(items)]
    PROVE  Understood(items, 0, s, h, b)
<1>. DEFINE w == SentBy(items)[Len(items)]
<1>1. w \in Seq(Bytes)
  <2>1. Adds(items, SentBy(items), MeantBy(items))
    BY SpeechParts
  <2>2. Len(items) \in 0..Len(items)
    BY DEF Speech
  <2>. QED BY <2>1, <2>2 DEF Adds
<1>2. 0 \in 0..Len(w) /\ SubSeq(w, 0 + 1, Len(w)) = w
  <2>. HIDE DEF w
  <2>. QED BY <1>1, SubSeqFull
<1>. QED
  BY <1>2 DEF Understood

LEMMA ConnectHears ==
    ASSUME BridgeInv, OneRate, Understands, NEW c \in Conns, serbridgeConnectCb(c)
    PROVE  Understands'
<1>. DEFINE free == {j \in 1..MAX_CONN : connData[j].conn = NoConn}
            i == CHOOSE j \in free : \A k \in free : j <= k
            m == IF load.port[c] = 2 THEN "pgmInit" ELSE "init"
            s == [Free EXCEPT !.conn = c, !.ready = TRUE, !.mode = m]
<1>1. /\ load' = load /\ baud' = baud /\ c \in load.clients /\ sdk[c].state = "idle"
      /\ client' = [client EXCEPT ![c] = Fresh(c)]
      /\ free = {} => connData' = connData
      /\ free # {} => connData' = [connData EXCEPT ![i] = s]
  BY DEF serbridgeConnectCb
<1>2. free # {} => i \in free
  BY FirstFree
<1>. HIDE DEF i
<1>3. /\ connData \in [1..MAX_CONN -> Slots] /\ client \in [Conns -> Clients] /\ load \in Loads
      /\ SlotOf(c) = 0
  BY <1>1 DEF BridgeInv, BridgeType, Linked, SlotOf
<1>4. s.conn = c /\ s.mode \in {"init", "pgmInit"} /\ s.telnet = "normal"
  BY DEF Free
<1>. HIDE DEF s
<1>5. \A j \in Open : j \in 1..MAX_CONN /\ connData[j].conn \in Conns /\ connData[j].conn # c
  <2>. SUFFICES ASSUME NEW j \in Open
                PROVE  j \in 1..MAX_CONN /\ connData[j].conn \in Conns /\ connData[j].conn # c
    OBVIOUS
  <2>1. j \in 1..MAX_CONN /\ connData[j].conn \in Conns /\ SlotOf(connData[j].conn) = j
    BY BundleGood DEF SlotOf
  <2>. QED BY <1>3, <2>1
<1>6. client'[c] = Fresh(c) /\ \A d \in Conns : d # c => client'[d] = client[d]
  BY <1>1, <1>3
<1>7. CASE free = {}
  <2>1. Open' = Open
    BY <1>1, <1>7 DEF Open
  <2>2. \A j \in Open : Stays(j)
    BY <1>1, <1>5, <1>6, <1>7 DEF Stays
  <2>. QED BY <1>1, <2>1, <2>2, Unheard
<1>8. CASE free # {}
  <2>0. i \in 1..MAX_CONN /\ connData[i].conn = NoConn
    BY <1>2, <1>8
  <2>. PICK z : z = i
    OBVIOUS
  <2>1. z \in 1..MAX_CONN /\ connData[z].conn = NoConn
    BY <2>0
  <2>2. connData'[z] = s /\ \A j \in 1..MAX_CONN : j # z => connData'[j] = connData[j]
    BY <1>1, <1>3, <1>8, <2>1
  <2>3. Open' \subseteq Open \cup {z} /\ z \notin Open
    BY <2>1, <2>2 DEF Open
  <2>4. \A j \in Open : Follows(j)'
    <3>. SUFFICES ASSUME NEW j \in Open PROVE Follows(j)'
      OBVIOUS
    <3>1. Stays(j)
      BY <1>5, <1>6, <2>2, <2>3 DEF Stays
    <3>2. Follows(j)
      BY DEF Understands, Follows
    <3>. QED BY <1>1, <3>1, <3>2, FollowsStill
  <2>5. Follows(z)'
    <3>. DEFINE items == load.says[c]
    <3>1. Speech(items) /\ Says(c) = SentBy(items)[Len(items)]
      BY <1>1, <1>3, ClientSpeech
    <3>2. Fresh(c).unread = Says(c) /\ Fresh(c).done = <<>>
      BY DEF Fresh
    <3>3. Understood(items, 0, s, Fresh(c), baud)
      BY <1>4, <3>1, <3>2, NothingHeard
    <3>4. 0 \in 0..Len(Says(c))
      BY <1>3, SaysType
    <3>5. connData'[z].conn = c /\ Says(connData[z].conn)' = Says(c)
      BY <1>1, <1>4, <2>2 DEF Says
    <3>6. Follows(z)' <=> /\ connData'[z].conn \in load'.clients
                          /\ \E n \in 0..Len(Says(connData[z].conn)') :
                                Understood(load'.says[connData'[z].conn], n, connData'[z],
                                           client'[connData'[z].conn], baud')
      BY DEF Follows
    <3>. QED BY <1>1, <1>6, <2>2, <3>3, <3>4, <3>5, <3>6
  <2>. QED BY <2>3, <2>4, <2>5 DEF Understands, Follows
<1>. QED
  BY <1>7, <1>8

\* What is made of one client's words does not disturb the others.
LEMMA OneHears ==
    ASSUME BridgeInv, OneRate, Understands, load' = load, NEW i \in Open, NEW x, Becomes(i, x),
           NEW c, c = connData[i].conn, x.s.conn = c, baud' = baud \/ SetsRate(load, c),
           \E k \in 0..Len(Says(c)) : Understood(load.says[c], k, x.s, x.h, baud')
    PROVE  Understands'
<1>1. \A j \in Open : j \in 1..MAX_CONN /\ connData[j].conn \in Conns /\ SlotOf(connData[j].conn) = j
                      /\ connData[j].conn \in load.clients
  <2>. SUFFICES ASSUME NEW j \in Open
                PROVE  j \in 1..MAX_CONN /\ connData[j].conn \in Conns /\ SlotOf(connData[j].conn) = j
                       /\ connData[j].conn \in load.clients
    OBVIOUS
  <2>. QED BY BundleGood DEF SlotOf, Understands
<1>2. \A j \in 1..MAX_CONN : connData'[j] = IF j = i THEN x.s ELSE connData[j]
  BY DEF Becomes, Become
<1>3. \A d \in Conns : client'[d] = IF SlotOf(d) = i THEN x.h ELSE client[d]
  BY DEF Becomes, Become
<1>4. Open' \subseteq Open
  BY <1>1, <1>2 DEF Open
<1>5. Follows(i)'
  <2>1. connData'[i] = x.s /\ client'[c] = x.h /\ c \in load.clients
    BY <1>1, <1>2, <1>3
  <2>2. connData'[i].conn = c /\ Says(connData[i].conn)' = Says(c)
    BY <2>1 DEF Says
  <2>3. Follows(i)' <=> /\ connData'[i].conn \in load'.clients
                        /\ \E n \in 0..Len(Says(connData[i].conn)') :
                              Understood(load'.says[connData'[i].conn], n, connData'[i],
                                         client'[connData'[i].conn], baud')
    BY DEF Follows
  <2>. QED BY <2>1, <2>2, <2>3
<1>6. ASSUME NEW j \in Open, j # i PROVE Follows(j)'
  <2>. DEFINE d == connData[j].conn
  <2>1. d # c /\ d \in Conns /\ d \in load.clients /\ c \in load.clients /\ load \in Loads
    BY <1>1, <1>6 DEF BridgeInv, BridgeType
  <2>2. Stays(j)
    BY <1>1, <1>2, <1>3, <1>6 DEF Stays
  <2>3. Follows(j)
    BY DEF Understands, Follows
  <2>4. CASE baud' = baud
    BY <2>2, <2>3, <2>4, FollowsStill
  <2>5. CASE SetsRate(load, c)
    <3>1. ~SetsRate(load, d)
      BY <2>1, <2>5 DEF OneRate
    <3>2. \A n \in DOMAIN load.says[d] : load.says[d][n].kind # "baud"
      BY <3>1 DEF SetsRate
    <3>3. load.says[d] \in Seq(Items)
      BY <2>1, SerBridgeAssumption
    <3>. QED BY <2>2, <2>3, <3>2, <3>3, FollowsStill
  <2>. QED BY <2>4, <2>5
<1>. QED
  BY <1>4, <1>5, <1>6 DEF Understands, Follows

\* What is still to be said after a packet
LEMMA PacketParts ==
    ASSUME NEW w \in Seq(Bytes), NEW k \in 0..Len(w), NEW u, u = SubSeq(w, k + 1, Len(w)),
           NEW n \in 1..Len(u)
    PROVE  /\ SubSeq(u, 1, n) \in Seq(Bytes) /\ Len(SubSeq(u, 1, n)) = n
           /\ k + n \in 0..Len(w)
           /\ \A j \in 1..n : SubSeq(u, 1, n)[j] = w[(k + j - 1) + 1] /\ SubSeq(u, 1, n)[j] = w[k + j]
           /\ SubSeq(u, n + 1, Len(u)) = SubSeq(w, (k + n) + 1, Len(w))
<1>. DEFINE lw == Len(w)
            lu == Len(u)
            p == SubSeq(u, 1, n)
            q == SubSeq(u, n + 1, lu)
            r == SubSeq(w, (k + n) + 1, lw)
<1>0. lw \in Nat /\ k \in 0..lw
  OBVIOUS
<1>1. u \in Seq(Bytes) /\ lu = lw - k /\ \A j \in 1..lw - k : u[j] = w[k + j]
  OBVIOUS
<1>2. lu \in Nat /\ n \in 1..lu /\ k + n \in 0..lw /\ n \in 0..lu /\ n \in Nat
  <2>1. n \in 1..lu
    OBVIOUS
  <2>. HIDE DEF lw, lu
  <2>. QED BY <1>0, <1>1, <2>1
<1>3. p \in Seq(Bytes) /\ PrefixOf(p, u, n)
  BY <1>1, <1>2, PrefixParts
<1>4. q \in Seq(Bytes) /\ Len(q) = lu - n /\ \A j \in 1..lu - n : q[j] = u[n + j]
  BY <1>1, <1>2
<1>5. r \in Seq(Bytes) /\ Len(r) = lw - (k + n) /\ \A j \in 1..lw - (k + n) : r[j] = w[(k + n) + j]
  <2>. DEFINE kn == k + n
  <2>1. kn \in 0..lw
    BY <1>2
  <2>. HIDE DEF kn
  <2>2. r = SubSeq(w, kn + 1, lw)
    BY DEF kn
  <2>. HIDE DEF r
  <2>3. r \in Seq(Bytes) /\ Len(r) = lw - kn /\ \A j \in 1..lw - kn : r[j] = w[kn + j]
    BY <2>1, <2>2
  <2>. QED BY <2>3 DEF kn
<1>. HIDE DEF p, q, r, lu, lw
<1>6. \A j \in 1..n : p[j] = w[(k + j - 1) + 1] /\ p[j] = w[k + j]
  <2>. SUFFICES ASSUME NEW j \in 1..n PROVE p[j] = w[(k + j - 1) + 1] /\ p[j] = w[k + j]
    OBVIOUS
  <2>1. j \in 1..lw - k /\ (k + j - 1) + 1 = k + j
    BY <1>0, <1>1, <1>2
  <2>. QED BY <1>1, <1>3, <2>1 DEF PrefixOf
<1>7. q = r
  <2>1. Len(q) = Len(r)
    BY <1>0, <1>1, <1>2, <1>4, <1>5
  <2>2. ASSUME NEW j \in 1..Len(q) PROVE q[j] = r[j]
    <3>1. j \in 1..lu - n /\ j \in 1..lw - (k + n) /\ n + j \in 1..lw - k /\ k + (n + j) = (k + n) + j
      BY <1>0, <1>1, <1>2, <1>4
    <3>. QED BY <1>1, <1>4, <1>5, <3>1
  <2>. QED BY <1>4, <1>5, <2>1, <2>2, SeqEqual
<1>. QED
  BY <1>2, <1>3, <1>6, <1>7 DEF PrefixOf, p, q, r, lu, lw

\* w is what items come to, of which a client has said k bytes, and n more.
Hearing(items, w, k, h, n) ==
    /\ Speech(items) /\ w = SentBy(items)[Len(items)] /\ w \in Seq(Bytes)
    /\ k \in 0..Len(w) /\ h.unread = SubSeq(w, k + 1, Len(w)) /\ n \in 1..Len(h.unread)

LEMMA HeardPgm ==
    ASSUME NEW items, NEW w, NEW k, NEW h, NEW n, Hearing(items, w, k, h, n), NEW t, NEW g, NEW b,
           t.mode = "pgm", g.unread = SubSeq(h.unread, n + 1, Len(h.unread))
    PROVE  k + n \in 0..Len(w) /\ Understood(items, k + n, t, g, b)
<1>1. k + n \in 0..Len(w) /\ g.unread = SubSeq(w, (k + n) + 1, Len(w))
  BY PacketParts DEF Hearing
<1>. QED
  BY <1>1 DEF Understood, Hearing

LEMMA SeqOfFunction ==
    ASSUME NEW T, NEW l \in Nat, NEW f \in [1..l -> T]
    PROVE  f \in Seq(T) /\ Len(f) = l
OBVIOUS

\* Slot s and its client h become t and g: the bytes are written as they are.
Copied(s, h, n, t, g) ==
    /\ s.mode \in {"init", "transparent"} /\ t.mode = "transparent"
    /\ g.unread = SubSeq(h.unread, n + 1, Len(h.unread))
    /\ \E data : /\ data = SubSeq(h.unread, 1, n)
                 /\ g.done = h.done \o [j \in DOMAIN data |-> <<data[j]>>]

\* ... or the machine m hears them and becomes v.
Unwraps(s, h, n, t, g, m, v) ==
    /\ m \in Machine /\ m.state = s.telnet /\ m.out = h.done
    /\ s.mode \in {"init", "telnet"} /\ t.mode = "telnet"
    /\ g.unread = SubSeq(h.unread, n + 1, Len(h.unread))
    /\ v = telnetUnwrap(m, SubSeq(h.unread, 1, n)) /\ g.done = v.out /\ t.telnet = v.state

\* k bytes of w have been understood.
Knows(items, w, k, t, g, b) == k \in 0..Len(w) /\ Understood(items, k, t, g, b)

\* A rate is only collected from a client that sets one.
KeepsRate(items, m, v) == (\A j \in DOMAIN items : items[j].kind # "baud") => v.baud = m.baud

LEMMA HeardVerbatim ==
    ASSUME NEW items, NEW w, NEW k, NEW h, NEW n, Hearing(items, w, k, h, n), NEW s, NEW b,
           Understood(items, k, s, h, b), NEW t, NEW g, Copied(s, h, n, t, g)
    PROVE  Knows(items, w, k + n, t, g, b)
<1>. DEFINE data == SubSeq(h.unread, 1, n)
            old == [j \in 1..k |-> <<w[j]>>]
            new == [j \in DOMAIN data |-> <<data[j]>>]
            both == [j \in 1..k + n |-> <<w[j]>>]
<1>0. /\ s.mode \in {"init", "transparent"} /\ t.mode = "transparent"
      /\ g.unread = SubSeq(h.unread, n + 1, Len(h.unread))
      /\ data = SubSeq(h.unread, 1, n) /\ g.done = h.done \o new
  BY DEF Copied
<1>. HIDE DEF data
<1>1. /\ k + n \in 0..Len(w) /\ g.unread = SubSeq(w, (k + n) + 1, Len(w))
      /\ data \in Seq(Bytes) /\ Len(data) = n /\ \A j \in 1..n : data[j] = w[k + j]
  <2>1. /\ k + n \in 0..Len(w) /\ g.unread = SubSeq(w, (k + n) + 1, Len(w))
        /\ data \in Seq(Bytes) /\ Len(data) = n /\ \A j \in 1..n : data[j] = w[(k + j - 1) + 1]
    BY <1>0, PacketParts DEF Hearing
  <2>2. k \in Nat
    BY DEF Hearing
  <2>3. \A j \in 1..n : (k + j - 1) + 1 = k + j
    BY <2>2
  <2>. QED BY <2>1, <2>3
<1>2. k \in Nat /\ n \in Nat /\ w \in Seq(Bytes) /\ Len(w) \in Nat
  <2>1. w \in Seq(Bytes) /\ Len(w) \in Nat /\ k \in 0..Len(w)
    BY DEF Hearing
  <2>2. n \in Nat
    <3>1. Len(data) \in Nat
      BY <1>1
    <3>. QED BY <1>1, <3>1
  <2>. QED BY <2>1, <2>2
<1>3. h.done = old
  <2>1. CASE s.mode = "init"
    <3>1. k = 0 /\ h.done = <<>>
      BY <2>1 DEF Understood
    <3>. QED BY <3>1
  <2>2. CASE s.mode = "transparent"
    BY <2>2 DEF Understood, Hearing
  <2>. QED BY <1>0, <2>1, <2>2
<1>4. old \o new = both
  <2>. DEFINE T == {<<w[j]>> : j \in 1..Len(w)}
  <2>1. DOMAIN data = 1..n
    BY <1>1
  <2>2. \A j \in 1..k + n : <<w[j]>> \in T
    BY <1>1, <1>2
  <2>. HIDE DEF T
  <2>3. old \in Seq(T) /\ Len(old) = k /\ \A j \in 1..k : old[j] = <<w[j]>>
    <3>1. \A j \in 1..k : j \in 1..k + n
      BY <1>2
    <3>2. old \in [1..k -> T] /\ \A j \in 1..k : old[j] = <<w[j]>>
      BY <2>2, <3>1
    <3>. HIDE DEF old
    <3>. QED BY <1>2, <3>2, SeqOfFunction
  <2>4. \A j \in 1..n : k + j \in 1..k + n
    BY <1>2
  <2>5. new \in Seq(T) /\ Len(new) = n /\ \A j \in 1..n : new[j] = <<w[k + j]>>
    <3>1. new = [j \in 1..n |-> <<w[k + j]>>]
      BY <1>1, <2>1
    <3>2. new \in [1..n -> T] /\ \A j \in 1..n : new[j] = <<w[k + j]>>
      BY <2>2, <2>4, <3>1
    <3>. HIDE DEF new
    <3>. QED BY <1>2, <3>2, SeqOfFunction
  <2>6. both \in Seq(T) /\ Len(both) = k + n /\ \A j \in 1..k + n : both[j] = <<w[j]>>
    <3>1. both \in [1..k + n -> T] /\ \A j \in 1..k + n : both[j] = <<w[j]>>
      BY <2>2
    <3>2. k + n \in Nat
      BY <1>2
    <3>. HIDE DEF both
    <3>. QED BY <3>1, <3>2, SeqOfFunction
  <2>. HIDE DEF old, new, both, T
  <2>7. old \o new \in Seq(T) /\ Joins(old, new, old \o new, Len(old), Len(new))
    BY <2>3, <2>5, Joined
  <2>8. Joins(old, new, old \o new, k, n)
    BY <2>3, <2>5, <2>7
  <2>. DEFINE x == old \o new
  <2>. HIDE DEF x
  <2>9. Len(x) = k + n /\ (\A j \in 1..k : x[j] = old[j]) /\ \A j \in k + 1..k + n : x[j] = new[j - k]
    BY <2>8 DEF Joins, x
  <2>10. ASSUME NEW j \in 1..k + n PROVE x[j] = both[j]
    <3>1. CASE j <= k
      <4>1. j \in 1..k
        BY <1>2, <3>1
      <4>. QED BY <2>3, <2>6, <2>9, <4>1
    <3>2. CASE ~(j <= k)
      <4>1. j \in k + 1..k + n /\ j - k \in 1..n /\ k + (j - k) = j
        BY <1>2, <3>2
      <4>2. x[j] = new[j - k] /\ new[j - k] = <<w[k + (j - k)]>>
        BY <2>5, <2>9, <4>1
      <4>. QED BY <2>6, <4>1, <4>2
    <3>. QED BY <3>1, <3>2
  <2>11. x \in Seq(T)
    BY <2>7 DEF x
  <2>12. x = both
    BY <1>2, <2>6, <2>9, <2>10, <2>11, SeqEqual
  <2>. QED BY <2>12 DEF x
<1>5. g.done = both
  BY <1>0, <1>3, <1>4
<1>6. w = SentBy(items)[Len(items)]
  BY DEF Hearing
<1>. QED
  BY <1>0, <1>1, <1>5, <1>6 DEF Understood, Knows

LEMMA HeardTelnet ==
    ASSUME NEW items, NEW w, NEW k, NEW h, NEW n, Hearing(items, w, k, h, n), NEW s, NEW t, NEW g,
           NEW m, NEW v, Unwraps(s, h, n, t, g, m, v), Understood(items, k, s, h, m.baud)
    PROVE  Knows(items, w, k + n, t, g, v.baud) /\ KeepsRate(items, m, v)
<1>. DEFINE data == SubSeq(h.unread, 1, n)
<1>0. /\ m \in Machine /\ m.state = s.telnet /\ m.out = h.done
      /\ s.mode \in {"init", "telnet"} /\ t.mode = "telnet"
      /\ g.unread = SubSeq(h.unread, n + 1, Len(h.unread))
      /\ v = telnetUnwrap(m, data) /\ g.done = v.out /\ t.telnet = v.state
      /\ data = SubSeq(h.unread, 1, n)
  BY DEF Unwraps
<1>. HIDE DEF data
<1>. USE <1>0
<1>. DEFINE S == SentBy(items)
            M == MeantBy(items)
<1>1. /\ k + n \in 0..Len(w) /\ g.unread = SubSeq(w, (k + n) + 1, Len(w))
      /\ data \in Seq(Bytes) /\ Len(data) = n /\ \A j \in 1..n : data[j] = w[(k + j - 1) + 1]
  BY PacketParts DEF Hearing
<1>2. Adds(items, S, M) /\ Grows(S, Len(items)) /\ Speech(items) /\ w = S[Len(items)]
  BY SpeechParts DEF Hearing
<1>3. Reached(items, S, M, k, m.state, m.baud, m.out)
  <2>1. CASE s.mode = "init"
    <3>1. k = 0 /\ m.out = <<>> /\ m.state = "normal"
      BY <2>1 DEF Understood
    <3>2. 0 \in 0..Len(items) /\ S[0] = <<>> /\ M[0] = <<>>
      BY <1>2 DEF Adds, Speech
    <3>. HIDE DEF S, M
    <3>3. Reached(items, S, M, Len(S[0]), "normal", m.baud, M[0])
      BY <1>2, <3>2, ItemBegins
    <3>4. Len(S[0]) = 0
      BY <3>2
    <3>. QED BY <3>1, <3>2, <3>3, <3>4
  <2>2. CASE s.mode = "telnet"
    <3>1. At(items, k, m.state, m.baud, m.out)
      BY <2>2 DEF Understood
    <3>. QED BY <3>1, AtReached
  <2>. QED BY <2>1, <2>2
<1>4. k \in Nat /\ k + Len(data) <= Len(w)
  <2>1. k \in Nat
    BY DEF Hearing
  <2>2. Len(w) \in Nat
    BY DEF Hearing
  <2>. QED BY <1>1, <2>1, <2>2
<1>. HIDE DEF S, M
<1>5. /\ Reached(items, S, M, k + Len(data), v.state, v.baud, v.out)
      /\ (\A j \in DOMAIN items : items[j].kind # "baud") => v.baud = m.baud
  <2>1. k + Len(data) <= Len(S[Len(items)])
    BY <1>2, <1>4
  <2>2. \A i \in 1..Len(data) : data[i] = S[Len(items)][(k + i - 1) + 1]
    BY <1>1, <1>2
  <2>3. Comes(items, S, M, k, m, data)
    BY <1>1, <1>2, <1>3, <1>4, <2>1, <2>2 DEF Comes
  <2>4. Gets(items, S, M, k + Len(data), m, telnetUnwrap(m, data))
    BY <2>3, PacketHeard, Zenon
  <2>5. Gets(items, S, M, k + Len(data), m, v)
    BY <2>4
  <2>. QED BY <2>5 DEF Gets
<1>6. At(items, k + n, v.state, v.baud, v.out)
  <2>1. Reached(items, S, M, k + n, v.state, v.baud, v.out)
    BY <1>1, <1>5
  <2>. QED BY <2>1, AtReached DEF S, M
<1>7. w = SentBy(items)[Len(items)]
  BY DEF Hearing
<1>. QED
  BY <1>1, <1>5, <1>6, <1>7 DEF Understood, Knows, KeepsRate

\* The fields of a slot and its client after a packet
After(x, b, mode, t, d, n) ==
    /\ x.s.conn = b.s.conn /\ x.s.mode = mode /\ x.s.telnet = t
    /\ x.h.unread = SubSeq(b.h.unread, n + 1, Len(b.h.unread)) /\ x.h.done = d
    /\ Shape(x)

LEMMA AfterPacket ==
    ASSUME NEW b, Shape(b), NEW mode, NEW d, NEW n
    PROVE  After(StillToSay(InMode(b, mode, d), n), b, mode, b.s.telnet, d, n)
<1>. DEFINE y == [b EXCEPT !.s.mode = mode, !.h.done = d]
            u == SubSeq(b.h.unread, n + 1, Len(b.h.unread))
            x == [y EXCEPT !.h.unread = u]
<1>1. /\ Shape(y) /\ y.s.conn = b.s.conn /\ y.s.mode = mode /\ y.s.telnet = b.s.telnet
      /\ y.h.unread = b.h.unread /\ y.h.done = d
  BY DEF Shape
<1>2. StillToSay(InMode(b, mode, d), n) = x
  <2>1. InMode(b, mode, d) = y
    BY DEF InMode
  <2>. HIDE DEF y
  <2>2. StillToSay(y, n) = [y EXCEPT !.h.unread = SubSeq(y.h.unread, n + 1, Len(y.h.unread))]
    BY <1>1 DEF StillToSay, Shape
  <2>. QED BY <1>1, <2>1, <2>2
<1>. HIDE DEF y, u
<1>3. /\ Shape(x) /\ x.s = y.s /\ x.h.unread = u /\ x.h.done = y.h.done
  BY <1>1 DEF Shape
<1>. HIDE DEF x
<1>. QED
  BY <1>1, <1>2, <1>3 DEF u, After

InTelnet(b, t, d) == [b EXCEPT !.s.mode = "telnet", !.s.telnet = t, !.h.done = d]

LEMMA AfterTelnet ==
    ASSUME NEW b, Shape(b), NEW t, NEW d, NEW n
    PROVE  After(StillToSay(InTelnet(b, t, d), n), b, "telnet", t, d, n)
<1>. DEFINE y == [b EXCEPT !.s.mode = "telnet", !.s.telnet = t, !.h.done = d]
            u == SubSeq(b.h.unread, n + 1, Len(b.h.unread))
            x == [y EXCEPT !.h.unread = u]
<1>1. /\ Shape(y) /\ y.s.conn = b.s.conn /\ y.s.mode = "telnet" /\ y.s.telnet = t
      /\ y.h.unread = b.h.unread /\ y.h.done = d
  BY DEF Shape
<1>. HIDE DEF y
<1>2. StillToSay(y, n) = x
  <2>1. StillToSay(y, n) = [y EXCEPT !.h.unread = SubSeq(y.h.unread, n + 1, Len(y.h.unread))]
    BY <1>1 DEF StillToSay, Shape
  <2>. QED BY <1>1, <2>1
<1>. HIDE DEF u, After
<1>3. /\ Shape(x) /\ x.s = y.s /\ x.h.unread = u /\ x.h.done = y.h.done
  BY <1>1 DEF Shape
<1>. HIDE DEF x
<1>. QED
  BY <1>1, <1>2, <1>3 DEF u, y, After, InTelnet

LEMMA RecvHears ==
    ASSUME BridgeInv, OneRate, Understands, NEW c \in Conns, serbridgeRecvCb(c)
    PROVE  Understands'
<1>. PICK i : i = SlotOf(c)
  OBVIOUS
<1>1. i # 0 /\ load' = load
  BY DEF serbridgeRecvCb
<1>2. i \in Open /\ connData[i].conn = c
  BY <1>1, SlotOfOpen
<1>. DEFINE b == Bundle(i)
            s == connData[i]
            h == client[c]
            items == load.says[c]
            w == Says(c)
<1>3. /\ Good(b) /\ b.s = s /\ b.h = h /\ Shape(b) /\ i \in 1..MAX_CONN
  BY <1>2, BundleGood, BundleShape
<1>4. /\ c \in load.clients /\ load \in Loads
      /\ \E k \in 0..Len(w) : Understood(items, k, s, h, baud)
  BY <1>2 DEF Understands, BridgeInv, BridgeType
<1>5. PICK k \in 0..Len(w) : Understood(items, k, s, h, baud)
  BY <1>4
<1>6. Speech(items) /\ w = SentBy(items)[Len(items)] /\ w \in Seq(Bytes)
  BY <1>4, ClientSpeech, SaysType
<1>7. PICK n \in 1..Len(h.unread) : StartPGM(i, n) \/ Verbatim(i, n) \/ Telneting(i, n)
  BY DEF serbridgeRecvCb
<1>. DEFINE data == SubSeq(h.unread, 1, n)
<1>8. Hearing(items, w, k, h, n) /\ Heard(c, n) = data
  <2>1. h.unread = SubSeq(w, k + 1, Len(w))
    BY <1>5, <1>6 DEF Understood
  <2>. QED BY <1>6, <2>1 DEF Hearing, Heard
<1>9. h.done \in Seq(Seq(Deeds)) /\ s.telnet \in TelnetStates /\ baud \in Seq(Bytes)
      /\ pins \in Wiring /\ flashing \in Nat
  BY <1>3 DEF BridgeInv, BridgeType, Clients, Slots, Wiring
<1>10. CASE StartPGM(i, n)
  <2>. DEFINE d == Append(h.done, <<"RESET">>)
              y == [b EXCEPT !.s.mode = "pgm", !.h.done = Append(@, <<"RESET">>)]
              x == StillToSay(InMode(b, "pgm", d), n)
  <2>1. y = InMode(b, "pgm", d)
    BY <1>3 DEF Shape, InMode
  <2>2. Becomes(i, StillToSay(y, n)) /\ baud' = baud
    BY <1>10 DEF StartPGM
  <2>3. Becomes(i, x)
    BY <2>1, <2>2
  <2>. HIDE DEF d, y
  <2>4. /\ x.s.conn = b.s.conn /\ x.s.mode = "pgm"
        /\ x.h.unread = SubSeq(b.h.unread, n + 1, Len(b.h.unread))
    <3>1. After(x, b, "pgm", b.s.telnet, d, n)
      BY <1>3, AfterPacket, Zenon
    <3>. QED BY <3>1 DEF After
  <2>. PICK z : z = x
    OBVIOUS
  <2>. HIDE DEF x, b
  <2>5. z.s.conn = c /\ z.s.mode = "pgm" /\ z.h.unread = SubSeq(h.unread, n + 1, Len(h.unread))
    BY <1>2, <1>3, <2>4
  <2>6. k + n \in 0..Len(w) /\ Understood(items, k + n, z.s, z.h, baud')
    BY <1>8, <2>5, HeardPgm
  <2>7. Becomes(i, z)
    BY <2>3
  <2>. HIDE DEF w, items
  <2>8. \E l \in 0..Len(w) : Understood(items, l, z.s, z.h, baud')
    BY <2>6
  <2>. QED BY <1>1, <1>2, <2>2, <2>5, <2>7, <2>8, OneHears DEF w, items
<1>11. CASE Verbatim(i, n)
  <2>. DEFINE mode == Dispatch(s, data)
              f == [j \in DOMAIN data |-> <<data[j]>>]
              d == h.done \o f
              y == [b EXCEPT !.s.mode = mode, !.h.done = @ \o f]
              x == StillToSay(InMode(b, mode, d), n)
  <2>2. Becomes(i, StillToSay(y, n)) /\ baud' = baud /\ mode \in {"transparent", "pgm"}
        /\ ~(mode = "pgm" /\ s.mode # "pgm")
    BY <1>2, <1>8, <1>11 DEF Verbatim
  <2>9. mode = "transparent" => s.mode \in {"init", "transparent"}
    BY DEF Dispatch
  <2>. HIDE DEF mode, f
  <2>1. y = InMode(b, mode, d)
    BY <1>3 DEF Shape, InMode
  <2>3. Becomes(i, x)
    BY <2>1, <2>2
  <2>. HIDE DEF d, y
  <2>4. /\ x.s.conn = b.s.conn /\ x.s.mode = mode /\ x.h.done = d
        /\ x.h.unread = SubSeq(b.h.unread, n + 1, Len(b.h.unread))
    <3>1. After(x, b, mode, b.s.telnet, d, n)
      BY <1>3, AfterPacket, Zenon
    <3>. QED BY <3>1 DEF After
  <2>. PICK z : z = x
    OBVIOUS
  <2>. HIDE DEF x, b
  <2>5. z.s.conn = c /\ z.s.mode = mode /\ z.h.unread = SubSeq(h.unread, n + 1, Len(h.unread))
        /\ z.h.done = d
    BY <1>2, <1>3, <2>4
  <2>6. k + n \in 0..Len(w) /\ Understood(items, k + n, z.s, z.h, baud)
    <3>1. CASE mode = "pgm"
      BY <1>8, <2>5, <3>1, HeardPgm
    <3>2. CASE mode = "transparent"
      <4>1. z.h.done = h.done \o [j \in DOMAIN data |-> <<data[j]>>]
        BY <2>5 DEF d, f
      <4>2. Copied(s, h, n, z.s, z.h)
        BY <2>5, <2>9, <3>2, <4>1 DEF Copied
      <4>3. Knows(items, w, k + n, z.s, z.h, baud)
        BY <1>5, <1>8, <4>2, HeardVerbatim, Zenon
      <4>. QED BY <4>3 DEF Knows
    <3>. QED BY <2>2, <3>1, <3>2
  <2>7. Becomes(i, z)
    BY <2>3
  <2>. HIDE DEF w, items
  <2>8. \E l \in 0..Len(w) : Understood(items, l, z.s, z.h, baud')
    BY <2>2, <2>6
  <2>. QED BY <1>1, <1>2, <2>2, <2>5, <2>7, <2>8, OneHears DEF w, items
<1>12. CASE Telneting(i, n)
  <2>. DEFINE m0 == [state |-> s.telnet, baud |-> baud, flashing |-> flashing, pins |-> pins,
                     out |-> h.done, responses |-> <<>>]
              m == telnetUnwrap(m0, data)
              y == InTelnet(b, m.state, m.out)
              x == StillToSay(y, n)
  <2>1. /\ Dispatch(s, data) = "telnet" /\ baud' = m.baud
        /\ \E outcome \in Outcomes :
              Becomes(i, IF m.responses = <<>> THEN x ELSE espbuffsend(x, m.responses, outcome))
    BY <1>2, <1>8, <1>12 DEF Telneting, InTelnet
  <2>2. s.mode \in {"init", "telnet"}
    BY <2>1 DEF Dispatch
  <2>3. m0 \in Machine /\ m0.state = s.telnet /\ m0.baud = baud /\ m0.out = h.done
    BY <1>9 DEF Machine, Wiring
  <2>4. PICK v : v = m
    OBVIOUS
  <2>. HIDE DEF m0, m
  <2>5. /\ x.s.conn = b.s.conn /\ x.s.mode = "telnet" /\ x.s.telnet = v.state
        /\ x.h.unread = SubSeq(b.h.unread, n + 1, Len(b.h.unread)) /\ x.h.done = v.out /\ Shape(x)
    <3>1. After(x, b, "telnet", m.state, m.out, n)
      BY <1>3, AfterTelnet, Zenon
    <3>. HIDE DEF x
    <3>. QED BY <2>4, <3>1 DEF After
  <2>. HIDE DEF x
  <2>6. PICK outcome \in Outcomes :
              Becomes(i, IF v.responses = <<>> THEN x ELSE espbuffsend(x, v.responses, outcome))
    BY <2>1, <2>4
  <2>. PICK z : z = IF v.responses = <<>> THEN x ELSE espbuffsend(x, v.responses, outcome)
    OBVIOUS
  <2>7. Holds(z, x)
    BY <2>5, espbuffsendHolds, LostHolds
  <2>8. /\ z.s.conn = c /\ z.s.mode = "telnet" /\ z.s.telnet = v.state
        /\ z.h.unread = SubSeq(h.unread, n + 1, Len(h.unread)) /\ z.h.done = v.out
    BY <1>2, <1>3, <2>5, <2>7 DEF Holds, Still
  <2>9. /\ k + n \in 0..Len(w) /\ Understood(items, k + n, z.s, z.h, v.baud)
        /\ (\A j \in DOMAIN items : items[j].kind # "baud") => v.baud = baud
    <3>1. v = telnetUnwrap(m0, data) /\ data = SubSeq(h.unread, 1, n)
      BY <2>4 DEF m
    <3>2. Understood(items, k, s, h, m0.baud)
      BY <1>5, <2>3
    <3>3. Unwraps(s, h, n, z.s, z.h, m0, v)
      BY <2>2, <2>3, <2>8, <3>1 DEF Unwraps
    <3>4. Hearing(items, w, k, h, n)
      BY <1>8
    <3>5. Knows(items, w, k + n, z.s, z.h, v.baud) /\ KeepsRate(items, m0, v)
      BY <3>2, <3>3, <3>4, HeardTelnet, Zenon
    <3>. QED BY <2>3, <3>5 DEF Knows, KeepsRate
  <2>10. Becomes(i, z)
    BY <2>6
  <2>11. baud' = v.baud
    BY <2>1, <2>4
  <2>12. baud' = baud \/ SetsRate(load, c)
    BY <2>9, <2>11 DEF SetsRate
  <2>. HIDE DEF w, items
  <2>13. \E l \in 0..Len(w) : Understood(items, l, z.s, z.h, baud')
    BY <2>9, <2>11
  <2>. QED BY <1>1, <1>2, <2>8, <2>10, <2>12, <2>13, OneHears DEF w, items
<1>. QED
  BY <1>7, <1>10, <1>11, <1>12

LEMMA UnderstandsInit == Init => Understands
<1>. SUFFICES ASSUME Init PROVE Understands
  OBVIOUS
<1>1. \A i \in 1..MAX_CONN : connData[i].conn = NoConn
  BY DEF Init, Free
<1>2. Open = {}
  BY <1>1 DEF Open
<1>. QED
  BY <1>2 DEF Understands

LEMMA UnderstandsStep ==
    ASSUME OneRate, BridgeInv, Understands, [Next]_vars
    PROVE  Understands'
<1>1. CASE Arrive \/ Interrupt \/ TaskBegins \/ TaskEnds \/ Disturbs
  <2>1. UNCHANGED <<connData, client, load, baud>>
    BY <1>1 DEF Arrive, Interrupt, TaskBegins, TaskEnds, Disturbs, UartOnly, bridgeVars
  <2>. QED BY <2>1, UntouchedStays, Unheard
<1>2. CASE uart_recvTask
  <2>1. load' = load /\ baud' = baud
    BY <1>2 DEF uart_recvTask
  <2>. QED BY <1>2, <2>1, RecvTaskUnheard, Unheard
<1>3. CASE TenSeconds
  <2>1. load' = load /\ baud' = baud
    BY <1>3 DEF TenSeconds
  <2>. QED BY <1>3, <2>1, TenSecondsUnheard, Unheard
<1>4. CASE Programmer
  <2>1. UNCHANGED <<connData, client, load, baud>>
    BY <1>4 DEF Programmer
  <2>. QED BY <2>1, UntouchedStays, Unheard
<1>5. ASSUME NEW c \in Conns, serbridgeSentCb(c) PROVE Understands'
  <2>1. load' = load /\ baud' = baud
    BY <1>5 DEF serbridgeSentCb
  <2>. QED BY <1>5, <2>1, SentUnheard, Unheard
<1>6. ASSUME NEW c \in Conns, serbridgeDisconCb(c) PROVE Understands'
  <2>1. load' = load /\ baud' = baud
    BY <1>6 DEF serbridgeDisconCb
  <2>. QED BY <1>6, <2>1, DisconUnheard, Unheard
<1>7. CASE UNCHANGED vars
  <2>1. UNCHANGED <<connData, client, load, baud>>
    BY <1>7 DEF vars
  <2>. QED BY <2>1, UntouchedStays, Unheard
<1>. QED
  BY <1>1, <1>2, <1>3, <1>4, <1>5, <1>6, <1>7, ConnectHears, RecvHears DEF Next

\* What plain bytes come to
LEMMA VerbatimPrefix ==
    ASSUME NEW w \in Seq(Bytes), NEW k \in 0..Len(w)
    PROVE  LET d == [j \in 1..k |-> <<w[j]>>]
               m == [j \in DOMAIN w |-> <<w[j]>>]
           IN  IsPrefix(d, m) /\ (k = Len(w) => d = m)
<1>. DEFINE d == [j \in 1..k |-> <<w[j]>>]
            m == [j \in DOMAIN w |-> <<w[j]>>]
            T == Seq(Bytes)
            l == Len(w)
<1>1. l \in Nat /\ DOMAIN w = 1..l /\ k \in Nat /\ k <= l
  OBVIOUS
<1>2. \A j \in 1..l : <<w[j]>> \in T
  OBVIOUS
<1>3. d \in Seq(T) /\ Len(d) = k /\ \A j \in 1..k : d[j] = <<w[j]>>
  <2>1. d \in [1..k -> T] /\ \A j \in 1..k : d[j] = <<w[j]>>
    BY <1>1, <1>2
  <2>. QED BY <1>1, <2>1, SeqOfFunction
<1>4. m \in Seq(T) /\ Len(m) = l /\ \A j \in 1..l : m[j] = <<w[j]>>
  <2>1. m \in [1..l -> T] /\ \A j \in 1..l : m[j] = <<w[j]>>
    BY <1>1, <1>2
  <2>. QED BY <1>1, <2>1, SeqOfFunction
<1>5. k = l => d = m
  BY <1>1
<1>. HIDE DEF d, m, T, l
<1>. DEFINE x == SubSeq(d, 1, k)
            y == SubSeq(m, 1, k)
<1>6. x \in Seq(T) /\ PrefixOf(x, d, k)
  BY <1>1, <1>3, PrefixParts
<1>7. y \in Seq(T) /\ PrefixOf(y, m, k)
  BY <1>1, <1>4, PrefixParts
<1>8. IsPrefix(d, m) <=> k <= l /\ x = y
  BY <1>3, <1>4 DEF IsPrefix
<1>. HIDE DEF x, y
<1>9. Len(x) = Len(y) /\ \A j \in 1..Len(x) : x[j] = y[j]
  <2>1. Len(x) = k /\ Len(y) = k
    BY <1>6, <1>7 DEF PrefixOf
  <2>2. \A j \in 1..k : x[j] = d[j] /\ y[j] = m[j] /\ d[j] = <<w[j]>>
    BY <1>3, <1>6, <1>7 DEF PrefixOf
  <2>3. \A j \in 1..k : j \in 1..l
    BY <1>1
  <2>4. \A j \in 1..k : m[j] = <<w[j]>>
    BY <1>4, <2>3
  <2>. QED BY <2>1, <2>2, <2>4
<1>10. x = y
  BY <1>6, <1>7, <1>9, SeqEqual
<1>. QED
  BY <1>1, <1>5, <1>8, <1>10 DEF d, m, l

\* Who has said everything has been heard to the end.
LEMMA HeardOut ==
    ASSUME NEW w \in Seq(Bytes), NEW k \in 0..Len(w), SubSeq(w, k + 1, Len(w)) = <<>>
    PROVE  k = Len(w)
<1>. DEFINE l == Len(w)
            u == SubSeq(w, k + 1, l)
<1>1. l \in Nat /\ k \in Nat /\ k <= l
  OBVIOUS
<1>2. k + 1 <= l => Len(u) = l - (k + 1) + 1
  BY <1>1
<1>3. Len(u) = 0
  <2>1. u = <<>>
    OBVIOUS
  <2>. HIDE DEF u
  <2>. QED BY <2>1
<1>. HIDE DEF u, l
<1>4. k = l
  BY <1>1, <1>2, <1>3
<1>. QED
  BY <1>4 DEF l

LEMMA UnderstandsUnwraps ==
    ASSUME OneRate, BridgeInv, Understands
    PROVE  Unwrapped
<1>. SUFFICES ASSUME NEW i \in Open, connData[i].mode \in {"telnet", "transparent"}
              PROVE  LET c == connData[i].conn
                         meant == IF connData[i].mode = "telnet"
                                  THEN FlattenSeq([j \in DOMAIN load.says[c] |-> Meant(load.says[c][j])])
                                  ELSE [j \in DOMAIN Says(c) |-> <<Says(c)[j]>>]
                     IN  /\ IsPrefix(client[c].done, meant)
                         /\ client[c].unread = <<>> => client[c].done = meant
  BY DEF Unwrapped
<1>. DEFINE c == connData[i].conn
            items == load.says[c]
            w == Says(c)
            s == connData[i]
            h == client[c]
<1>1. c \in Conns /\ c \in load.clients /\ load \in Loads
  BY BundleGood DEF Understands, BridgeInv, BridgeType
<1>2. Speech(items) /\ w = SentBy(items)[Len(items)] /\ w \in Seq(Bytes)
  BY <1>1, ClientSpeech, SaysType
<1>3. PICK k \in 0..Len(w) : Understood(items, k, s, h, baud)
  BY DEF Understands
<1>4. h.unread = SubSeq(w, k + 1, Len(w))
  BY <1>2, <1>3 DEF Understood
<1>5. h.unread = <<>> => k = Len(w)
  BY <1>2, <1>4, HeardOut
<1>6. CASE s.mode = "telnet"
  <2>. DEFINE S == SentBy(items)
              M == MeantBy(items)
  <2>1. /\ Adds(items, S, M) /\ Grows(S, Len(items)) /\ Grows(M, Len(items))
        /\ M[Len(items)] = FlattenSeq([j \in DOMAIN items |-> Meant(items[j])])
    BY <1>2, SpeechParts
  <2>2. At(items, k, s.telnet, baud, h.done)
    BY <1>3, <1>6 DEF Understood
  <2>3. Reached(items, S, M, k, s.telnet, baud, h.done)
    BY <2>2, AtReached
  <2>4. k \in Nat
    OBVIOUS
  <2>. HIDE DEF S, M
  <2>5. IsPrefix(h.done, M[Len(items)]) /\ (k = Len(S[Len(items)]) => h.done = M[Len(items)])
    BY <1>2, <2>1, <2>3, <2>4, ReachedEnd
  <2>6. w = S[Len(items)]
    BY <1>2 DEF S
  <2>. QED BY <1>5, <1>6, <2>1, <2>5, <2>6
<1>7. CASE s.mode = "transparent"
  <2>1. h.done = [j \in 1..k |-> <<w[j]>>]
    BY <1>2, <1>3, <1>7 DEF Understood
  <2>2. LET d == [j \in 1..k |-> <<w[j]>>]
            m == [j \in DOMAIN w |-> <<w[j]>>]
        IN  IsPrefix(d, m) /\ (k = Len(w) => d = m)
    BY <1>2, VerbatimPrefix
  <2>. HIDE DEF w
  <2>3. s.mode # "telnet"
    BY <1>7
  <2>. QED BY <1>5, <2>1, <2>2, <2>3 DEF w
<1>. QED
  BY <1>6, <1>7

(* However a client's words are cut into packets, whoever else is talking,  *)
(* connecting or leaving, and whatever the UART and the sends do meanwhile: *)
(* what has been done is a prefix of what the client means, and all of it   *)
(* once all has been read.  Clients are assumed to say what the protocol    *)
(* has, and at most one client of a load to set a baud rate: the bytes of a *)
(* rate being collected are kept where all connections keep them.           *)
THEOREM UnwrappedHolds == ASSUME OneRate PROVE Spec => []Unwrapped
<1>1. BridgeInv /\ Understands => Unwrapped
  BY UnderstandsUnwraps
<1>2. BridgeInv /\ Understands /\ [Next]_vars => Understands'
  BY UnderstandsStep
<1>. QED
  BY <1>1, <1>2, UnderstandsInit, BridgeAlways, PTL DEF Spec

=============================================================================
