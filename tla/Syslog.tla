------------------------------- MODULE Syslog -------------------------------
(***************************************************************************)
(* syslog/syslog.c: messages for a log server, queued until the station    *)
(* has an address and the server's name is resolved, and then sent as UDP  *)
(* datagrams, one at a time, with a pause after each.  syslog_chk_status   *)
(* is the timer's callback and is also called whenever the timer is not    *)
(* armed; in SYSLOG_READY and SYSLOG_SEND it posts the task that sends the *)
(* head of the queue, which the sent callback takes off.                   *)
(*                                                                         *)
(* Nothing keeps a message from being logged while a datagram is on its    *)
(* way: the head is then sent a second time, and the second sent callback  *)
(* takes off a message that never was sent, or reads through NULL.         *)
(*                                                                         *)
(* A message is its msgid.  The filter, the text and the port are left     *)
(* out; allocation does not fail, other than for the minimum heap.         *)
(***************************************************************************)
EXTENDS Naturals, Sequences, FiniteSets

CONSTANTS
    MaxMessages,  \* bound on the messages logged by the rest of the program
    MaxSettings,  \* bound on the changes of the log server
    MaxTroubles   \* bound on refused datagrams and lost Wi-Fi connections

SyslogAssumption == MaxMessages \in Nat /\ MaxSettings \in Nat /\ MaxTroubles \in Nat

VARIABLES
    sl,        \* the static variables: state, queue, armed (the timer), msgid,
               \* ready (syslog_init has set the minimum heap), and how often
               \* the sending task is posted
    host,      \* flashConfig.syslog_host: "", an address or a name
    wifi,      \* wifi_station_get_connect_status
    lookup,    \* whether the resolver is looking the name up
    inAir,     \* datagrams whose sent callback is still to come
    sent,      \* history: the messages handed to the UDP socket
    again,     \* history: how many datagrams repeated a message of sent
    stalled,   \* history: a datagram was refused or the queue left behind (below),
               \* and no message has been logged since
    messages, settings, troubles

vars == <<sl, host, wifi, lookup, inAir, sent, again, stalled, messages, settings, troubles>>

-----------------------------------------------------------------------------
(* What the functions do to the static variables *)

Hosts == {"", "address", "name"}

Arm(s) == [s EXCEPT !.armed = TRUE]
syslog_send_udp(s) == [s EXCEPT !.posted = @ + 1]
Become(s, state) == [s EXCEPT !.state = state]

\* With an address of its own, except in SYSLOG_INIT, where the timer is armed
\* and only its callback comes by.
Connected(s) ==
    CASE s.state = "WAIT" -> Arm(Become(s, "INIT"))
      [] s.state = "DNSWAIT" -> Arm(s)
      [] s.state \in {"READY", "SEND"} -> syslog_send_udp(s)
      [] s.state = "SENDING" -> Arm(Become(s, "SEND"))
      [] OTHER -> s

syslog_chk_status(s) ==
    LET t == [s EXCEPT !.armed = FALSE]
    IN  CASE wifi = "GOT_IP" -> Connected(t)
          [] wifi = "FAILED" -> Become(t, "ERROR")
          [] OTHER -> Arm(t)

\* Put at the end of the queue.
\* mutant: behind the first, whatever is there
syslog_composeSecond(s) ==
    [s EXCEPT !.queue = Append(IF @ = <<>> THEN @ ELSE <<Head(@)>>, s.msgid), !.msgid = @ + 1]
syslog_compose(s) == [s EXCEPT !.queue = Append(@, s.msgid), !.msgid = @ + 1]

\* Below the minimum heap a last message is added; what is in the queue is
\* sent if nothing but this was being waited for.
syslog_add_entry(s, low) ==
    LET added == syslog_compose(s)
        last  == syslog_compose(added)
    IN  IF low /\ s.ready
        THEN Become(IF s.state = "READY" THEN syslog_send_udp(last) ELSE last, "HALTED")
        ELSE added

syslog(s, h, low) ==
    IF h = "" \/ s.state \in {"ERROR", "HALTED"} THEN s
    ELSE LET added == syslog_add_entry(s, low)
             woken == IF added.state = "NONE" THEN Become(added, "WAIT") ELSE added
         IN  IF woken.armed THEN woken ELSE syslog_chk_status(woken)

\* For an address READY, for a name DNSWAIT and a second message.
syslog_init(s, h, low) ==
    LET named == syslog([s EXCEPT !.ready = TRUE], h, low)
    IN  CASE h = "" -> Become(s, "HALTED")
          [] h = "address" -> Become(named, "READY")
          [] h = "name" -> syslog(Become(named, "DNSWAIT"), h, low)

-----------------------------------------------------------------------------
(* Callbacks and calls *)

\* syslog_init asks the resolver, which does not call back with what it knows.
Resolving(h) == lookup' \in {lookup, lookup \/ h = "name"}

\* A call leaves the queue behind if nothing that is under way will send it.
\* syslog_init and the resolver's callback do so when they set SYSLOG_READY
\* although syslog returned at once, found the Wi-Fi failed or halted: the next
\* message that is logged sends it.  So do a message that halts the queue in
\* the pause between two datagrams, after which none is logged until the log
\* server is changed, and syslog_init for a name that the resolver knows.
LeftBehind(s, resolving) ==
    /\ s.posted = 0 /\ inAir = 0
    /\ \/ s.state = "READY" /\ ~s.armed
       \/ s.state \in {"HALTED", "DNSWAIT"} /\ ~resolving
Stops == stalled' = ((stalled /\ sl'.msgid = sl.msgid) \/ LeftBehind(sl', lookup'))

TimerFires ==
    /\ sl.armed
    /\ IF sl.state = "INIT" /\ wifi = "GOT_IP"
       THEN /\ \E low \in BOOLEAN :
                 sl' = Arm(syslog_init([sl EXCEPT !.armed = FALSE, !.state = "INITDONE"], host, low))
            /\ Resolving(host)
       ELSE sl' = syslog_chk_status(sl) /\ UNCHANGED lookup
    /\ Stops
    /\ UNCHANGED <<host, wifi, inAir, sent, again, messages, settings, troubles>>

\* The task.  A datagram that is refused stays at the head.
syslog_udp_send_event ==
    /\ sl.posted > 0
    /\ LET s == [sl EXCEPT !.posted = @ - 1]
       IN  IF s.queue = <<>>
           THEN sl' = Become(s, "READY") /\ UNCHANGED <<inAir, sent, again, stalled, troubles>>
           ELSE /\ sl' = s
                /\ \/ /\ inAir' = inAir + 1 /\ sent' = sent \cup {Head(s.queue)}
                      /\ again' = IF Head(s.queue) \in sent THEN again + 1 ELSE again
                      /\ UNCHANGED <<stalled, troubles>>
                   \/ /\ troubles < MaxTroubles /\ troubles' = troubles + 1
                      /\ stalled' = TRUE /\ UNCHANGED <<inAir, sent, again>>
    /\ UNCHANGED <<host, wifi, lookup, messages, settings>>

\* mutant: the next message waits for the timer
SentWithoutNext(s) == Become(s, "SENDING")
SentNext(s) == IF s.armed THEN Become(s, "SENDING") ELSE syslog_chk_status(Become(s, "SENDING"))

\* The static variables at the start.
Start == [state |-> "NONE", queue |-> <<>>, armed |-> FALSE, posted |-> 0, msgid |-> 1, ready |-> FALSE]

\* A reset of the ESP, which keeps flashConfig.
Reset ==
    /\ sl' = Start
    /\ wifi' = "CONNECTING" /\ lookup' = FALSE
    /\ inAir' = 0 /\ sent' = {} /\ again' = 0 /\ stalled' = FALSE

\* With an empty queue the callback reads through NULL, which resets the ESP.
syslog_udp_sent_cb ==
    /\ inAir > 0
    /\ \/ /\ sl.queue # <<>>
          /\ inAir' = inAir - 1
          /\ LET s == [sl EXCEPT !.queue = Tail(@)]
             IN  sl' = IF s.queue = <<>> THEN Become(s, "READY") ELSE SentNext(s)
          /\ UNCHANGED <<wifi, lookup, sent, again, stalled>>
       \/ sl.queue = <<>> /\ Reset
    /\ UNCHANGED <<host, messages, settings, troubles>>

\* A name that is found is logged before its address is used.
syslog_gethostbyname_cb ==
    /\ lookup
    /\ lookup' = FALSE
    /\ \/ (\E low \in BOOLEAN : sl' = Become(syslog(sl, host, low), "READY")) /\ Stops
       \/ sl' = Become(sl, "ERROR") /\ UNCHANGED stalled
    /\ UNCHANGED <<host, wifi, inAir, sent, again, messages, settings, troubles>>

\* Some part of the program logs a message.
Log ==
    /\ messages < MaxMessages
    /\ messages' = messages + 1
    /\ \E low \in BOOLEAN : sl' = syslog(sl, host, low)
    /\ UNCHANGED <<host, wifi, lookup, inAir, sent, again, settings, troubles>>
    /\ Stops

\* The services page changes the log server (cgiServicesSet).
SetHost ==
    /\ settings < MaxSettings
    /\ settings' = settings + 1
    /\ host' \in Hosts
    /\ \E low \in BOOLEAN : sl' = syslog_init(sl, host', low)
    /\ Resolving(host')
    /\ Stops
    /\ UNCHANGED <<wifi, inAir, sent, again, messages, troubles>>

GotIP ==
    /\ wifi # "GOT_IP" /\ wifi' = "GOT_IP"
    /\ UNCHANGED <<sl, host, lookup, inAir, sent, again, stalled, messages, settings, troubles>>

LostWifi ==
    /\ troubles < MaxTroubles /\ troubles' = troubles + 1
    /\ wifi' \in {"CONNECTING", "FAILED"}
    /\ UNCHANGED <<sl, host, lookup, inAir, sent, again, stalled, messages, settings>>

Init ==
    /\ sl = Start
    /\ host \in Hosts
    /\ wifi = "CONNECTING" /\ lookup = FALSE
    /\ inAir = 0 /\ sent = {} /\ again = 0 /\ stalled = FALSE
    /\ messages = 0 /\ settings = 0 /\ troubles = 0

\* What is awaited: the task runs, a datagram that was accepted is reported
\* sent, the resolver answers, the station gets an address.
Awaited == syslog_udp_send_event \/ syslog_udp_sent_cb \/ syslog_gethostbyname_cb \/ GotIP

Next == TimerFires \/ Awaited \/ Log \/ SetHost \/ LostWifi

Spec == Init /\ [][Next]_vars /\ WF_vars(TimerFires) /\ WF_vars(Awaited)
-----------------------------------------------------------------------------
(* Properties *)

\* Whatever is logged, set and refused in whatever order of the task, the
\* timer and the sent callbacks: as many messages at most are lost, freed
\* without having been sent, as datagrams were sent a second time.
Lost == {m \in 1..sl.msgid - 1 : m \notin sent /\ \A i \in 1..Len(sl.queue) : sl.queue[i] # m}
LossBounded == Cardinality(Lost) <= again

\* Whatever the order of the Wi-Fi, the resolver, the timer and the callbacks,
\* what is queued is sent in the end, a halted queue included, unless the
\* server is unknown, the Wi-Fi failed, a datagram was refused or the queue was
\* left behind.  (A reset empties the queue, which only an empty one leads to.)
QueueDrains == sl.queue # <<>> ~> (sl.queue = <<>> \/ sl.state = "ERROR" \/ host = "" \/ stalled)
=============================================================================
