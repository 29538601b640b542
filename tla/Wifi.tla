-------------------------------- MODULE Wifi --------------------------------
(***************************************************************************)
(* meta-id/cgiwifi.c: the Wi-Fi station and access point (AP) of the ESP,  *)
(* set up by web pages and by commands of the microcontroller, and         *)
(* corrected by timers: one carries out a change of network a second after *)
(* it was asked for, another checks whether the station has an address and *)
(* opens the AP if it has not.  A third starts a scan, whose results are   *)
(* given to a page in pieces.                                              *)
(*                                                                         *)
(* The SDK keeps the operating mode, the two configurations in effect, the *)
(* state of the station and a scan; it is inferred from the calls made.    *)
(* 1 = STA, 2 = AP, 3 = STA+AP; 0 is no Wi-Fi at all.                      *)
(***************************************************************************)
EXTENDS Naturals, Sequences

CONSTANTS
    Ssids,         \* networks the station may be asked to join
    CHUNK,         \* scan results sent at a time, 22 in the code
    MaxAps,        \* networks a scan may find
    CHANGE_TO_STA, \* build option: leave STA+AP for STA once there is an address
    InfoPages,     \* whether pages with the present configuration are read
    MaxRequests,   \* bound on what pages and the microcontroller ask for
    MaxEvents      \* bound on the events of the station

WifiAssumption ==
    /\ CHUNK \in Nat \ {0} /\ MaxAps \in Nat /\ MaxRequests \in Nat /\ MaxEvents \in Nat
    /\ {CHANGE_TO_STA, InfoPages} \subseteq BOOLEAN

VARIABLES
    stconf, apconf,          \* temp stores for the new configurations
    station, softap,         \* the configurations in effect
    opmode, connectStatus,   \* the mode, and whether the station has an address
    reassTimer, resetTimer,  \* the function reassTimer will call, whether resetTimer is armed
    wifiState,               \* what the rest of the firmware is told
    scan,                    \* cgiWifiAps, and how far a scan is
    reply,                   \* a request for the results: its position (cgiData), whether it
                             \* will be called again, what was sent, the scan before it
    trying,                  \* history: the station was told to connect and is not known to be
    asked,                   \* history: the network last asked for
    requests, events         \* how many there have been

wifiVars == <<stconf, apconf, station, softap, opmode, connectStatus, wifiState>>
timerVars == <<reassTimer, resetTimer>>
scanVars == <<scan, reply>>
vars == <<wifiVars, timerVars, scanVars, trying, asked, requests, events>>

NoSsid == "none"   \* an empty configuration
Partial == "part"  \* AP settings with a new name and no password
GotIP == connectStatus = "GOT_IP"
HasStation(mode) == mode \in {1, 3}
HasAp(mode) == mode \in {2, 3}

Ask == requests < MaxRequests /\ requests' = requests + 1

-----------------------------------------------------------------------------
(* The station *)

\* wifiHandleEventCb: the state is kept and passed to at most four others.
wifiHandleEventCb(event) ==
    /\ events < MaxEvents
    /\ HasStation(opmode) \/ event = "DISCONNECTED"
    /\ events' = events + 1
    /\ \/ event = "CONNECTED" /\ station # NoSsid /\ connectStatus = "CONNECTING" /\ UNCHANGED connectStatus
       \/ event = "GOT_IP" /\ wifiState = "CONNECTED" /\ connectStatus' = "GOT_IP"
       \/ event = "DISCONNECTED" /\ connectStatus' = "CONNECTING"
    /\ wifiState' = event
    /\ UNCHANGED <<stconf, apconf, station, softap, opmode, timerVars, scanVars, trying, asked, requests>>

-----------------------------------------------------------------------------
(* Timers *)

\* If there is an address the module may go to STA only, and is checked once
\* more; if there is none the AP is opened and the check goes on.
\* mutant: the check is not repeated once the AP is open
resetTimerCbOnce ==
    /\ resetTimer
    /\ resetTimer' = FALSE
    /\ opmode' = IF opmode = 2 \/ GotIP THEN opmode ELSE 3
    /\ trying' = (opmode # 2 /\ ~GotIP)
    /\ softap' = IF opmode \in {0, 1} /\ ~GotIP THEN apconf ELSE softap
    /\ UNCHANGED <<stconf, apconf, station, connectStatus, wifiState, reassTimer, scanVars, asked, requests, events>>
resetTimerCb ==
    /\ resetTimer
    /\ CASE opmode = 2 -> resetTimer' = FALSE /\ trying' = FALSE /\ UNCHANGED <<opmode, softap>>
         [] opmode # 2 /\ GotIP ->
               /\ opmode' = IF opmode # 1 /\ CHANGE_TO_STA THEN 1 ELSE opmode
               /\ resetTimer' = (opmode # 1 /\ CHANGE_TO_STA)
               /\ trying' = resetTimer'
               /\ UNCHANGED softap
         [] opmode # 2 /\ ~GotIP ->
               /\ opmode' = 3
               /\ softap' = IF opmode # 3 THEN apconf ELSE softap
               /\ resetTimer' = TRUE
               /\ UNCHANGED trying
    /\ UNCHANGED <<stconf, apconf, station, connectStatus, wifiState, reassTimer, scanVars, asked, requests, events>>

\* The station is told to connect to what stconf holds now.
Connect ==
    /\ station' = stconf
    /\ connectStatus' = "CONNECTING"
    /\ trying' = TRUE
    /\ resetTimer' = TRUE

reassTimerCb ==
    /\ reassTimer = "reassTimerCb"
    /\ reassTimer' = "off"
    /\ Connect
    /\ UNCHANGED <<stconf, apconf, softap, opmode, wifiState, scanVars, asked, requests, events>>

\* DHCP or the static address of flashConfig, which is not modelled.
configWifiIP ==
    /\ reassTimer = "configWifiIP"
    /\ reassTimer' = "off"
    /\ UNCHANGED <<wifiVars, resetTimer, scanVars, trying, asked, requests, events>>

-----------------------------------------------------------------------------
(* Pages, and commands of the microcontroller *)

\* connectToNetwork, called by cgiWiFiConnect and for the microcontroller.
connectToNetwork(ssid, page) ==
    /\ Ask
    /\ page => opmode # 2
    /\ stconf' = ssid
    /\ asked' = ssid
    /\ reassTimer' = "reassTimerCb"
    /\ UNCHANGED <<apconf, station, softap, opmode, connectStatus, wifiState, resetTimer, scanVars, trying, events>>

\* A static address or DHCP is kept in flashConfig.
cgiWiFiSpecial ==
    /\ Ask
    /\ reassTimer' = "configWifiIP"
    /\ UNCHANGED <<wifiVars, resetTimer, scanVars, trying, asked, events>>

\* The name is taken over and the password cleared before the password is
\* looked at: settings that are refused for it are partly in apconf.
cgiApSettingsChange(ok) ==
    /\ Ask
    /\ opmode # 1
    /\ apconf' = IF ok THEN "new" ELSE Partial
    /\ softap' = IF ok THEN "new" ELSE softap
    /\ UNCHANGED <<stconf, station, opmode, connectStatus, wifiState, timerVars, scanVars, trying, asked, events>>

\* From AP the station connects and is checked; from STA the AP is set up.
cgiWiFiSetMode(mode) ==
    /\ Ask
    /\ opmode' = mode
    /\ IF opmode = 2
       THEN Connect
       ELSE /\ UNCHANGED <<station, resetTimer, trying>>
            /\ connectStatus' = IF HasStation(mode) THEN connectStatus ELSE "CONNECTING"
    /\ softap' = IF opmode = 1 THEN apconf ELSE softap
    /\ UNCHANGED <<stconf, apconf, wifiState, reassTimer, scanVars, asked, events>>

\* cgiWifiInfo and cgiWiFiConnStatus read the present configurations into
\* the temp stores of the new ones.
printWifiInfo ==
    /\ InfoPages /\ Ask
    /\ stconf' = station
    /\ apconf' = softap
    /\ UNCHANGED <<station, softap, opmode, connectStatus, wifiState, timerVars, scanVars, trying, asked, events>>

-----------------------------------------------------------------------------
(* Scans.  scan.phase: "timer" until scanStartCb, "scanning" in the SDK,    *)
(* "lost" if the SDK refused it, else "idle".                               *)

NotSent == [next |-> 0, called |-> FALSE, sent |-> <<>>, whole |-> FALSE, since |-> 0]
Begun == [next |-> 1, called |-> TRUE, sent |-> <<>>, whole |-> FALSE, since |-> scan.number]

wifiStartScan(page) ==
    /\ Ask
    /\ page => opmode # 2
    /\ scan' = IF scan.scanInProgress THEN scan ELSE [scan EXCEPT !.scanInProgress = TRUE, !.phase = "timer"]
    /\ UNCHANGED <<wifiVars, timerVars, reply, trying, asked, events>>

\* What wifi_station_scan answers is not looked at.
scanStartCb ==
    /\ scan.phase = "timer"
    /\ scan' = [scan EXCEPT !.phase = IF HasStation(opmode) THEN "scanning" ELSE "lost"]
    /\ UNCHANGED <<wifiVars, timerVars, reply, trying, asked, requests, events>>

\* A scan that failed leaves the earlier results; another replaces them, even
\* between two pieces of a reply.
\* mutant: a scan that failed stays in progress
wifiScanDoneCbFailed(ok, noAps) ==
    /\ scan.phase = "scanning"
    /\ scan' = IF ok THEN [scan EXCEPT !.scanInProgress = FALSE, !.phase = "idle", !.noAps = noAps, !.number = @ + 1]
              ELSE [scan EXCEPT !.phase = "idle"]
    /\ UNCHANGED <<wifiVars, timerVars, reply, trying, asked, requests, events>>
wifiScanDoneCb(ok, noAps) ==
    /\ scan.phase = "scanning"
    /\ scan' = [scan EXCEPT !.scanInProgress = FALSE, !.phase = "idle",
                            !.noAps = IF ok THEN noAps ELSE @, !.number = IF ok THEN @ + 1 ELSE @]
    /\ UNCHANGED <<wifiVars, timerVars, reply, trying, asked, requests, events>>

\* cgiWiFiGetScan, first call.
GetScan ==
    /\ Ask
    /\ reply.next = 0
    /\ reply' = IF scan.scanInProgress THEN NotSent ELSE Begun
    /\ UNCHANGED <<wifiVars, timerVars, scan, trying, asked, events>>

\* The connection is closed: the call without one ends the reply.
GetScanAborted ==
    /\ reply.next > 0
    /\ reply' = NotSent
    /\ UNCHANGED <<wifiVars, timerVars, scan, trying, asked, requests, events>>

Least(a, b) == IF a <= b THEN a ELSE b
End(next) == Least(scan.noAps, next - 1 + CHUNK)
EntriesAgain(next) == [i \in 1..End(next) - (next - 1) |-> <<scan.number, i>>] \* mutant: from the first
Entries(next) == [i \in 1..End(next) - (next - 1) |-> <<scan.number, next - 1 + i>>]

\* Continuation: it comes when what was sent last has been sent.  A call that
\* sends nothing is the last, even if it asks for more: it does so when the
\* list has become shorter than what was sent of the one before.
MoreScan ==
    LET next == reply.next
        pos  == IF End(next) >= next THEN End(next) ELSE next - 1
        sent == reply.sent \o (IF End(next) >= next THEN Entries(next) ELSE <<>>)
    IN  /\ next > 0 /\ reply.called
        /\ reply' = IF pos = scan.noAps
                    THEN [reply EXCEPT !.next = 0, !.called = FALSE, !.sent = sent, !.whole = TRUE]
                    ELSE [reply EXCEPT !.next = pos + 1, !.called = End(next) >= next, !.sent = sent]
        /\ UNCHANGED <<wifiVars, timerVars, scan, trying, asked, requests, events>>

-----------------------------------------------------------------------------
wifiInit ==
    /\ stconf \in {NoSsid} \cup Ssids /\ station = stconf
    /\ apconf = "old" /\ softap = "old"
    /\ opmode = 3 /\ connectStatus = "CONNECTING" /\ wifiState = "DISCONNECTED"
    /\ reassTimer = "off" /\ resetTimer = TRUE
    /\ scan = [scanInProgress |-> FALSE, phase |-> "idle", noAps |-> 0, number |-> 0]
    /\ reply = NotSent
    /\ trying = TRUE /\ asked = stconf
    /\ requests = 0 /\ events = 0

Events == \E e \in {"CONNECTED", "GOT_IP", "DISCONNECTED"} : wifiHandleEventCb(e)
Timers == resetTimerCb \/ reassTimerCb \/ configWifiIP
Pages ==
    \/ \E ssid \in Ssids, page \in BOOLEAN : connectToNetwork(ssid, page)
    \/ cgiWiFiSpecial
    \/ \E ok \in BOOLEAN : cgiApSettingsChange(ok)
    \/ \E mode \in 0..3 : cgiWiFiSetMode(mode)
    \/ printWifiInfo
    \/ \E page \in BOOLEAN : wifiStartScan(page)
    \/ GetScan
ScanDone == \E ok \in BOOLEAN, n \in 0..MaxAps : wifiScanDoneCb(ok, n)
Next == Events \/ Timers \/ Pages \/ scanStartCb \/ ScanDone \/ MoreScan \/ GetScanAborted

Spec == wifiInit /\ [][Next]_vars

\* What is awaited: the one-shot timer fires, a scan starts and ends, what was
\* sent is acknowledged.  Each is used up when it comes; resetTimer is periodic.
Awaited == reassTimerCb \/ configWifiIP \/ scanStartCb \/ ScanDone \/ MoreScan
FairSpec == Spec /\ WF_vars(resetTimerCb) /\ WF_vars(Awaited)
-----------------------------------------------------------------------------
(* Properties *)

\* "If it fails, it ensures that the module is in STA+AP mode so the user has
\* a chance to recover": from when the station was told to connect until a
\* check has found an address or AP mode, the module does not stay without
\* both an address and an AP, whatever modes are set and whenever the address
\* is lost meanwhile.
Rescue == []<>(GotIP \/ ~trying \/ HasAp(opmode))

\* Whatever scans end while a reply is sent in pieces: one that is complete has
\* an entry for every place of the list as it is now, each once and in order,
\* of the scan it began with or a later one, and never of an older scan after
\* a newer.  If no scan ended meanwhile it is the list of that scan.
ListInOrder ==
    [][reply'.whole /\ reply' # reply =>
         /\ Len(reply'.sent) = scan.noAps
         /\ \A i \in 1..scan.noAps :
              /\ reply'.sent[i][2] = i
              /\ reply'.sent[i][1] \in reply.since..scan.number
              /\ \A j \in i..scan.noAps : reply'.sent[i][1] <= reply'.sent[j][1]]_vars

\* A scan does not stay in progress, unless there is no station to scan with,
\* and a reply does not stay unfinished, unless its handler has seen the list
\* become shorter than what was sent of it: it asks to be called again, and
\* sends nothing whose end would call it.
ScanEnds ==
    /\ scan.scanInProgress ~> (~scan.scanInProgress \/ scan.phase = "lost")
    /\ reply.next > 0 ~> (reply.next = 0 \/ ~reply.called)
    /\ [][reply'.next > 0 /\ reply.called /\ ~reply'.called => Len(reply.sent) > scan.noAps]_vars

\* The comment of cgiWiFiConnect: the routines "connect to a specific access
\* point with the given ESSID".  When the timer carries a change of network
\* out, the network is the one last asked for.
AskedNetwork == [][reassTimerCb => station' = asked]_vars
=============================================================================
